----------------------------- MODULE DraftsProofs -----------------------------
(***************************************************************************)
(* What the intake guarantees for any number of tabs, requests, sections   *)
(* and keys: no tab overwrites what it was not shown, a completion happens *)
(* once, an answered create names a live draft, and what was erased stays  *)
(* erased.  The argument is that a version stands for one content of its   *)
(* row (RowsAdvance): whoever holds a version knows the draft behind it.   *)
(***************************************************************************)
EXTENDS Drafts, TLAPS

-----------------------------------------------------------------------------
(* The inductive invariant.                                                *)

\* A row: untouched in its first version, completed once, erased when it expired and
\* not before it was due.
RowOK(k) ==
  Created(k) =>
    LET row == intents[k]
    IN /\ row.created <= clock
       /\ row.version = 1 => row.draft = Unanswered
       /\ row.status = "draft" => row.consents = 0
       /\ row.status \in {"complete", "checkout_created", "converted"} =>
            row.snapshot # None /\ row.consents = 3 /\ row.subject = "held"
       /\ row.status # "expired" => row.subject # "erased"
       /\ row.status = "expired" =>
            /\ ExpiresAt(k) <= clock
            /\ row.draft = Unanswered /\ row.snapshot = None /\ row.subject # "held"

\* The stored answer of a create and its row exist together, of one locale, and the
\* answer expires first.
CreationOK(k) ==
  /\ Created(k) <=> creations[k] # None
  /\ Created(k) => /\ creations[k].locale = intents[k].locale
                   /\ creations[k].until <= ExpiresAt(k)

\* Who was shown this version was shown this draft.
Shown(k, version, draft) ==
  /\ k \in Keys /\ Created(k)
  /\ version <= intents[k].version
  /\ intents[k].version = version /\ intents[k].status = "draft" => intents[k].draft = draft

\* A request in flight: a create that inserts holds the key, a change builds on what its
\* tab was shown.
CallOK(c) ==
  /\ call[c].at <= clock
  /\ call[c].step \in {"lock", "insert"} => call[c].id \in Keys /\ call[c].locale \in Locales
  /\ call[c].step = "insert" =>
       ~Created(call[c].id) /\ call[c].until <= call[c].at + KeyWindow
  /\ call[c].step \in {"read", "save"} =>
       /\ call[c].op \in {"load", "patch", "complete"}
       /\ call[c].id \in Keys /\ Created(call[c].id)
       /\ call[c].op # "load" => Shown(call[c].id, call[c].expected, call[c].known)
  /\ call[c].op = "complete" => call[c].input \in Complete

\* The advisory lock of a key has one holder.
OneInsert ==
  \A c, d \in Calls :
    call[c].step = "insert" /\ call[d].step = "insert" /\ call[c].id = call[d].id => c = d

\* What a tab shows.
TabOK(t) ==
  IF tab[t].id = None THEN tab[t].status # "draft"
  ELSE Shown(tab[t].id, tab[t].version, tab[t].draft)

CookieOK == cookie # None => cookie \in Keys /\ Created(cookie)

DraftsInv ==
  /\ DraftsTypeOK
  /\ \A k \in Keys : RowOK(k) /\ CreationOK(k)
  /\ \A c \in Calls : CallOK(c)
  /\ OneInsert
  /\ \A t \in Tabs : TabOK(t)
  /\ CookieOK

-----------------------------------------------------------------------------
(* What no step undoes.                                                    *)

Versions == Nat \ {0}
Statuses == {"draft", "complete", "checkout_created", "converted"}
TabRows == [key : Keys \cup {None}, id : Keys \cup {None}, version : Nat, draft : Drafts,
            status : Statuses \cup {None}]

\* A row stays, its version never falls, and a version has one content.
RowsAdvance ==
  /\ clock' \in Nat /\ clock <= clock'
  /\ \A k \in Keys : Created(k) =>
       /\ Created(k)' /\ intents[k].version <= intents'[k].version
       /\ intents'[k].version = intents[k].version => intents'[k] = intents[k]

\* Everything else about a request but the tab that waits for it.
SameRequest(c) ==
  /\ call'[c].step = call[c].step /\ call'[c].op = call[c].op /\ call'[c].id = call[c].id
  /\ call'[c].locale = call[c].locale /\ call'[c].at = call[c].at
  /\ call'[c].until = call[c].until /\ call'[c].expected = call[c].expected
  /\ call'[c].input = call[c].input /\ call'[c].known = call[c].known

\* What a tab shows, without the key it will create with.
SameView(t) ==
  /\ tab'[t].id = tab[t].id /\ tab'[t].version = tab[t].version
  /\ tab'[t].draft = tab[t].draft /\ tab'[t].status = tab[t].status

\* The types of a request, a tab and a row.
LEMMA Types ==
  ASSUME DraftsTypeOK
  PROVE  /\ clock \in Nat
         /\ \A k \in Keys : Created(k) => intents[k] \in IntentRows
         /\ \A k \in Keys : creations[k] # None => creations[k] \in CreationRows
         /\ \A c \in Calls : call[c] \in CallRows
         /\ \A t \in Tabs : tab[t] \in TabRows
BY DEF DraftsTypeOK, Created, TabRows, Statuses

\* No request is the request that asks for nothing.
LEMMA NoCallFacts ==
  /\ NoCall \in CallRows
  /\ NoCall.step = "idle" /\ NoCall.op = "none" /\ NoCall.at = 0 /\ NoCall.id = None
BY DEF NoCall, CallRows, Unanswered, Drafts

\* What was shown stays shown.
LEMMA ShownKept ==
  ASSUME DraftsTypeOK, RowsAdvance, NEW k, NEW version \in Nat, NEW draft,
         Shown(k, version, draft), DraftsTypeOK'
  PROVE  Shown(k, version, draft)'
<1>1. k \in Keys /\ Created(k) /\ Created(k)'
  BY DEF Shown, RowsAdvance
<1>2. intents[k].version \in Nat /\ intents'[k].version \in Nat
  BY <1>1, Types DEF IntentRows, DraftsTypeOK, Created
<1>3. /\ intents[k].version <= intents'[k].version
      /\ intents'[k].version = intents[k].version => intents'[k] = intents[k]
  BY <1>1 DEF RowsAdvance
<1> QED
  BY <1>1, <1>2, <1>3 DEF Shown

\* A request that does not move relies on the same as before.
LEMMA CallKept ==
  ASSUME DraftsInv, RowsAdvance, DraftsTypeOK', NEW c \in Calls, SameRequest(c),
         \A k \in Keys : call[c].step = "insert" /\ call[c].id = k => ~Created(k)'
  PROVE  CallOK(c)'
<1>1. CallOK(c) /\ DraftsTypeOK /\ call[c] \in CallRows
  BY Types DEF DraftsInv
<1>2. call[c].at \in Nat /\ call[c].expected \in Nat
  BY <1>1 DEF CallRows
<1>3. call'[c].at <= clock'
  BY <1>1, <1>2 DEF CallOK, RowsAdvance, SameRequest, DraftsTypeOK
<1>4. CASE call[c].step \in {"read", "save"}
  <2>1. PICK k \in Keys : call[c].id = k /\ Created(k)
    BY <1>1, <1>4 DEF CallOK
  <2>2. Created(k)'
    BY <2>1 DEF RowsAdvance
  <2>3. ASSUME call[c].op # "load" PROVE Shown(k, call[c].expected, call[c].known)
    BY <1>1, <1>4, <2>1, <2>3 DEF CallOK
  <2>4. PICK version \in Nat, draft \in {call[c].known} : version = call[c].expected
    BY <1>2
  <2>5. call[c].op # "load" => Shown(k, version, draft)'
    BY <1>1, <2>3, <2>4, ShownKept
  <2> QED
    BY <1>1, <1>3, <1>4, <2>1, <2>2, <2>4, <2>5 DEF CallOK, SameRequest
<1>5. CASE call[c].step = "insert"
  BY <1>1, <1>3, <1>5 DEF CallOK, SameRequest
<1>6. CASE call[c].step \in {"idle", "lock"}
  BY <1>1, <1>3, <1>6 DEF CallOK, SameRequest
<1> QED
  BY <1>1, <1>4, <1>5, <1>6 DEF CallRows

\* What a tab shows stays shown.
LEMMA TabKept ==
  ASSUME DraftsInv, RowsAdvance, DraftsTypeOK', NEW t \in Tabs, SameView(t)
  PROVE  TabOK(t)'
<1>1. TabOK(t) /\ DraftsTypeOK /\ tab[t].version \in Nat
  BY Types DEF DraftsInv, TabRows
<1>2. CASE tab[t].id = None
  BY <1>1, <1>2 DEF TabOK, SameView
<1>3. CASE tab[t].id # None
  <2>1. PICK k : k = tab[t].id
    OBVIOUS
  <2>2. PICK version \in Nat, draft \in {tab[t].draft} : version = tab[t].version
    BY <1>1
  <2>3. Shown(k, version, draft)
    BY <1>1, <1>3, <2>1, <2>2 DEF TabOK
  <2>4. Shown(k, version, draft)'
    BY <1>1, <2>3, ShownKept
  <2> QED
    BY <1>3, <2>1, <2>2, <2>4 DEF TabOK, SameView
<1> QED
  BY <1>2, <1>3

\* When no row is written the rows are as good as they were, however late it is.
LEMMA RowsKept ==
  ASSUME DraftsInv, UNCHANGED <<intents, creations>>, clock' \in Nat, clock <= clock'
  PROVE  /\ RowsAdvance
         /\ \A k \in Keys : RowOK(k)' /\ CreationOK(k)'
<1>1. RowsAdvance
  BY Types DEF RowsAdvance, Created, DraftsInv, IntentRows
<1>2. ASSUME NEW k \in Keys PROVE RowOK(k)' /\ CreationOK(k)'
  <2>1. RowOK(k) /\ CreationOK(k) /\ clock \in Nat
    BY Types DEF DraftsInv
  <2>2. CASE Created(k)
    <3>1. intents[k].created \in Nat
      BY <2>2, Types DEF DraftsInv, IntentRows
    <3> QED
      BY <2>1, <2>2, <3>1, DraftTimes DEF RowOK, CreationOK, Created, ExpiresAt
  <2>3. CASE ~Created(k)
    BY <2>1, <2>3 DEF RowOK, CreationOK, Created
  <2> QED
    BY <2>2, <2>3
<1> QED
  BY <1>1, <1>2

\* A cookie that is kept names a draft that is kept.
LEMMA CookieKept ==
  ASSUME CookieOK, RowsAdvance, UNCHANGED cookie
  PROVE  CookieOK'
BY DEF CookieOK, RowsAdvance

\* One request moves to "next", and every other one stays.
LEMMA CallMoves ==
  ASSUME DraftsInv, RowsAdvance, DraftsTypeOK', NEW c \in Calls, NEW next \in CallRows,
         call' = [call EXCEPT ![c] = next], CallOK(c)',
         \A d \in Calls \ {c}, k \in Keys :
           call[d].step = "insert" /\ call[d].id = k => ~Created(k)',
         next.step = "insert" => \A d \in Calls \ {c} :
                                   call[d].step = "insert" => call[d].id # next.id
  PROVE  (\A d \in Calls : CallOK(d)') /\ OneInsert'
<1>1. call'[c] = next /\ \A d \in Calls \ {c} : call'[d] = call[d]
  BY DEF DraftsInv, DraftsTypeOK
<1>2. ASSUME NEW d \in Calls \ {c} PROVE CallOK(d)'
  BY <1>1, <1>2, CallKept DEF SameRequest
<1>3. OneInsert'
  BY <1>1 DEF DraftsInv, OneInsert
<1> QED
  BY <1>2, <1>3

-----------------------------------------------------------------------------
(* The client.                                                             *)

\* A step of a client writes no row: a request moves, or a tab forgets.
LEMMA ClientInv ==
  ASSUME DraftsInv, UNCHANGED <<clock, intents, creations, cookie>>, DraftsTypeOK',
         \A c \in Calls : CallOK(c)', OneInsert',
         \A t \in Tabs : SameView(t) \/ tab'[t] = Fresh
  PROVE  DraftsInv'
<1>1. RowsAdvance /\ \A k \in Keys : RowOK(k)' /\ CreationOK(k)'
  BY RowsKept, Types DEF DraftsInv
<1>2. ASSUME NEW t \in Tabs PROVE TabOK(t)'
  <2>1. CASE SameView(t)
    BY <1>1, <2>1, TabKept
  <2>2. CASE tab'[t] = Fresh
    BY <2>2, NoneIsNoRow DEF TabOK, Fresh
  <2> QED
    BY <2>1, <2>2
<1>3. CookieOK'
  BY <1>1, CookieKept DEF DraftsInv
<1> QED
  BY <1>1, <1>2, <1>3 DEF DraftsInv

\* Sending a request that names its id from what the tab or the cookie names.
LEMMA SendInv ==
  ASSUME DraftsInv, NEW c \in Calls, NEW t \in Tabs, NEW request \in CallRows,
         Send(c, t, request), request.step \in {"lock", "read"},
         request.step = "lock" => request.id \in Keys /\ request.locale \in Locales,
         request.step = "read" =>
           /\ request.op \in {"load", "patch", "complete"}
           /\ request.id \in Keys /\ Created(request.id)
           /\ request.op # "load" => Shown(request.id, request.expected, request.known),
         request.op = "complete" => request.input \in Complete,
         UNCHANGED <<clock, intents, creations, cookie>>,
         tab' \in [Tabs -> TabRows], \A u \in Tabs : SameView(u)
  PROVE  DraftsInv'
<1> DEFINE next == [request EXCEPT !.tab = t, !.at = clock]
<1>1. /\ next \in CallRows /\ call' = [call EXCEPT ![c] = next]
      /\ next.step = request.step /\ next.op = request.op /\ next.id = request.id
      /\ next.locale = request.locale /\ next.at = clock /\ next.expected = request.expected
      /\ next.input = request.input /\ next.known = request.known
  BY Types DEF Send, CallRows, DraftsInv
<1> HIDE DEF next
<1>2. call'[c] = next /\ call' \in [Calls -> CallRows]
  BY <1>1 DEF DraftsInv, DraftsTypeOK
<1>3. DraftsTypeOK'
  BY <1>2 DEF DraftsInv, DraftsTypeOK, TabRows, Statuses
<1>4. RowsAdvance
  BY RowsKept, Types DEF DraftsInv
<1>5. CallOK(c)'
  BY <1>1, <1>2, Types DEF CallOK, DraftsInv, Shown, Created
<1>6. \A d \in Calls \ {c}, k \in Keys :
        call[d].step = "insert" /\ call[d].id = k => ~Created(k)'
  BY DEF DraftsInv, CallOK, Created
<1>7. (\A d \in Calls : CallOK(d)') /\ OneInsert'
  BY <1>1, <1>3, <1>4, <1>5, <1>6, CallMoves
<1> QED
  BY <1>3, <1>7, ClientInv

\* A create is sent with a key of the client's own.
LEMMA SendCreateInv ==
  ASSUME DraftsInv, NEW c \in Calls, NEW t \in Tabs, NEW k \in Keys, NEW locale \in Locales,
         SendCreate(c, t, k, locale)
  PROVE  DraftsInv'
<1> DEFINE request == [NoCall EXCEPT !.step = "lock", !.op = "create", !.id = k, !.locale = locale]
<1>1. /\ request \in CallRows /\ request.step = "lock" /\ request.op = "create"
      /\ request.id = k /\ request.locale = locale
  BY DEF NoCall, CallRows, Unanswered, Drafts
<1>2. Send(c, t, request) /\ UNCHANGED <<clock, intents, creations, cookie>>
  BY DEF SendCreate
<1>3. tab' \in [Tabs -> TabRows] /\ \A u \in Tabs : SameView(u)
  <2>1. tab \in [Tabs -> TabRows] /\ tab' = [tab EXCEPT ![t].key = k]
    BY DEF DraftsInv, DraftsTypeOK, TabRows, Statuses, SendCreate
  <2> QED
    BY <2>1 DEF TabRows, SameView
<1> HIDE DEF request
<1> QED
  BY <1>1, <1>2, <1>3, SendInv

\* A page loads the intent its cookie names.
LEMMA SendLoadInv ==
  ASSUME DraftsInv, NEW c \in Calls, NEW t \in Tabs, NEW k \in Keys, SendLoad(c, t, k)
  PROVE  DraftsInv'
<1> DEFINE request == [NoCall EXCEPT !.step = "read", !.op = "load", !.id = k]
<1>1. request \in CallRows /\ request.step = "read" /\ request.op = "load" /\ request.id = k
  BY DEF NoCall, CallRows, Unanswered, Drafts
<1>2. Send(c, t, request) /\ UNCHANGED <<clock, intents, creations, cookie, tab>>
  BY DEF SendLoad
<1>3. Created(k)
  BY NoneIsNoKey DEF SendLoad, Named, DraftsInv, CookieOK
<1>4. tab' \in [Tabs -> TabRows] /\ \A u \in Tabs : SameView(u)
  BY <1>2 DEF DraftsInv, DraftsTypeOK, TabRows, Statuses, SameView
<1> HIDE DEF request
<1> QED
  BY <1>1, <1>2, <1>3, <1>4, SendInv

\* A tab saves or completes the draft it was shown.
LEMMA SendChangeInv ==
  ASSUME DraftsInv, NEW c \in Calls, NEW t \in Tabs, NEW op \in {"patch", "complete"},
         NEW input \in Drafts, op = "complete" => input \in Complete,
         SendChange(c, t, op, input)
  PROVE  DraftsInv'
<1> DEFINE request == [NoCall EXCEPT !.step = "read", !.op = op, !.id = tab[t].id, !.input = input,
                                     !.expected = tab[t].version, !.known = tab[t].draft]
<1>1. tab[t] \in TabRows
  BY Types DEF DraftsInv
<1>2. /\ request \in CallRows /\ request.step = "read" /\ request.op = op
      /\ request.id = tab[t].id /\ request.input = input
      /\ request.expected = tab[t].version /\ request.known = tab[t].draft
  BY <1>1 DEF NoCall, CallRows, TabRows, Unanswered, Drafts
<1>3. Send(c, t, request) /\ UNCHANGED <<clock, intents, creations, cookie, tab>>
  BY DEF SendChange
<1>4. Shown(tab[t].id, tab[t].version, tab[t].draft)
  BY DEF SendChange, DraftsInv, TabOK
<1>5. tab' \in [Tabs -> TabRows] /\ \A u \in Tabs : SameView(u)
  BY <1>3 DEF DraftsInv, DraftsTypeOK, TabRows, Statuses, SameView
<1> HIDE DEF request
<1> QED
  BY <1>2, <1>3, <1>4, <1>5, SendInv DEF Shown

\* A tab stops waiting.
LEMMA LostInv ==
  ASSUME DraftsInv, NEW c \in Calls, Lost(c)
  PROVE  DraftsInv'
<1>1. call \in [Calls -> CallRows] /\ call' = [call EXCEPT ![c].tab = None]
  BY DEF DraftsInv, DraftsTypeOK, Lost
<1>2. call' \in [Calls -> CallRows] /\ \A d \in Calls : SameRequest(d)
  BY <1>1 DEF CallRows, SameRequest
<1>3. UNCHANGED <<clock, intents, creations, tab, cookie>>
  BY DEF Lost
<1>4. DraftsTypeOK'
  BY <1>2, <1>3 DEF DraftsInv, DraftsTypeOK
<1>5. \A d \in Calls, k \in Keys : call[d].step = "insert" /\ call[d].id = k => ~Created(k)'
  BY <1>3 DEF DraftsInv, CallOK, Created
<1>6. RowsAdvance
  BY <1>3, RowsKept, Types DEF DraftsInv
<1>7. \A d \in Calls : CallOK(d)'
  BY <1>2, <1>4, <1>5, <1>6, CallKept
<1>8. OneInsert' /\ \A t \in Tabs : SameView(t)
  BY <1>2, <1>3 DEF DraftsInv, OneInsert, SameRequest, SameView
<1> QED
  BY <1>3, <1>4, <1>7, <1>8, ClientInv

\* A page is opened anew, and its requests have nobody to answer to.
LEMMA ReloadInv ==
  ASSUME DraftsInv, NEW t \in Tabs, Reload(t)
  PROVE  DraftsInv'
<1>1. /\ call \in [Calls -> CallRows]
      /\ call' = [c \in Calls |-> IF call[c].tab = t
                                  THEN [call[c] EXCEPT !.tab = None] ELSE call[c]]
  BY DEF DraftsInv, DraftsTypeOK, Reload
<1>2. call' \in [Calls -> CallRows] /\ \A d \in Calls : SameRequest(d)
  BY <1>1 DEF CallRows, SameRequest
<1>3. UNCHANGED <<clock, intents, creations, cookie>> /\ tab' = [tab EXCEPT ![t] = Fresh]
  BY DEF Reload
<1>4. Fresh \in TabRows
  BY DEF Fresh, TabRows, Unanswered, Drafts
<1>5. tab \in [Tabs -> TabRows]
  BY DEF DraftsInv, DraftsTypeOK, TabRows, Statuses
<1>6. tab' \in [Tabs -> TabRows] /\ \A u \in Tabs : SameView(u) \/ tab'[u] = Fresh
  BY <1>3, <1>4, <1>5 DEF SameView
<1>7. DraftsTypeOK'
  BY <1>2, <1>3, <1>6 DEF DraftsInv, DraftsTypeOK, TabRows, Statuses
<1>8. \A d \in Calls, k \in Keys : call[d].step = "insert" /\ call[d].id = k => ~Created(k)'
  BY <1>3 DEF DraftsInv, CallOK, Created
<1>9. RowsAdvance
  BY <1>3, RowsKept, Types DEF DraftsInv
<1>10. \A d \in Calls : CallOK(d)'
  BY <1>2, <1>7, <1>8, <1>9, CallKept
<1>11. OneInsert'
  BY <1>2 DEF DraftsInv, OneInsert, SameRequest
<1> QED
  BY <1>3, <1>6, <1>7, <1>10, <1>11, ClientInv

-----------------------------------------------------------------------------
(* Answers.                                                                *)

\* A request that is over has nothing to rely on.
LEMMA NoCallOK ==
  ASSUME NEW c \in Calls, call'[c] = NoCall, clock' \in Nat
  PROVE  CallOK(c)'
BY NoCallFacts DEF CallOK

\* A refusal ends its request and leaves what every tab shows.
LEMMA RefusedInv ==
  ASSUME DraftsInv, NEW c \in Calls, call' = [call EXCEPT ![c] = NoCall],
         UNCHANGED <<clock, intents, creations, cookie>>,
         tab' \in [Tabs -> TabRows], \A t \in Tabs : SameView(t)
  PROVE  DraftsInv'
<1>1. call'[c] = NoCall /\ call' \in [Calls -> CallRows]
  BY NoCallFacts DEF DraftsInv, DraftsTypeOK
<1>2. DraftsTypeOK'
  BY <1>1 DEF DraftsInv, DraftsTypeOK, TabRows, Statuses
<1>3. RowsAdvance
  BY RowsKept, Types DEF DraftsInv
<1>4. CallOK(c)'
  BY <1>1, <1>2, NoCallOK DEF DraftsTypeOK
<1>5. \A d \in Calls \ {c}, k \in Keys :
        call[d].step = "insert" /\ call[d].id = k => ~Created(k)'
  BY DEF DraftsInv, CallOK, Created
<1>6. (\A d \in Calls : CallOK(d)') /\ OneInsert'
  BY <1>2, <1>3, <1>4, <1>5, NoCallFacts, CallMoves
<1> QED
  BY <1>2, <1>6, ClientInv

\* Refuse(c) leaves the tabs as they are.
LEMMA RefuseInv ==
  ASSUME DraftsInv, NEW c \in Calls, Refuse(c), UNCHANGED <<clock, intents, creations>>
  PROVE  DraftsInv'
<1>1. tab' \in [Tabs -> TabRows] /\ \A t \in Tabs : SameView(t)
  BY DEF Refuse, DraftsInv, DraftsTypeOK, TabRows, Statuses, SameView
<1> QED
  BY <1>1, RefusedInv DEF Refuse

\* An answer shows the waiting tab, and the cookie, a row as it is.
LEMMA AnswerInv ==
  ASSUME DraftsInv, NEW c \in Calls, NEW k \in Keys, call[c].id = k,
         NEW version \in Nat, NEW draft \in Drafts, NEW status \in Statuses,
         Answer(c, version, draft, status), Shown(k, version, draft)', RowsAdvance,
         intents' \in [Keys -> IntentRows \cup {None}],
         creations' \in [Keys -> CreationRows \cup {None}],
         \A j \in Keys : RowOK(j)' /\ CreationOK(j)',
         \A d \in Calls \ {c}, j \in Keys :
           call[d].step = "insert" /\ call[d].id = j => ~Created(j)'
  PROVE  DraftsInv'
<1>1. call'[c] = NoCall /\ call' = [call EXCEPT ![c] = NoCall] /\ call' \in [Calls -> CallRows]
  BY NoCallFacts DEF Answer, DraftsInv, DraftsTypeOK
<1>2. \A t \in Tabs :
        IF t = call[c].tab
        THEN tab'[t] = [key |-> tab[t].key, id |-> k, version |-> version,
                        draft |-> draft, status |-> status]
        ELSE tab'[t] = tab[t]
  BY DEF Answer
<1>3. tab' \in [Tabs -> TabRows]
  <2>1. ASSUME NEW t \in Tabs PROVE tab'[t] \in TabRows
    <3>1. tab[t] \in TabRows /\ tab[t].key \in Keys \cup {None}
      BY Types DEF DraftsInv, TabRows
    <3>2. [key |-> tab[t].key, id |-> k, version |-> version,
           draft |-> draft, status |-> status] \in TabRows
      BY <3>1 DEF TabRows
    <3> QED
      BY <1>2, <3>1, <3>2
  <2> QED
    BY <2>1 DEF Answer
<1>4. cookie' \in {k, cookie}
  BY DEF Answer
<1>5. DraftsTypeOK'
  BY <1>1, <1>3, <1>4 DEF DraftsInv, DraftsTypeOK, TabRows, Statuses, RowsAdvance
<1>6. CallOK(c)'
  BY <1>1, NoCallOK DEF RowsAdvance
<1>7. (\A d \in Calls : CallOK(d)') /\ OneInsert'
  BY <1>1, <1>5, <1>6, NoCallFacts, CallMoves
<1>8. ASSUME NEW t \in Tabs PROVE TabOK(t)'
  <2>1. CASE t = call[c].tab
    <3>1. tab'[t] = [key |-> tab[t].key, id |-> k, version |-> version,
                     draft |-> draft, status |-> status]
      BY <1>2, <2>1
    <3>2. tab'[t].id = k /\ tab'[t].version = version /\ tab'[t].draft = draft
      BY <3>1
    <3>3. k # None
      BY NoneIsNoKey
    <3> QED
      BY <3>2, <3>3 DEF TabOK, Shown, Created
  <2>2. CASE t # call[c].tab
    BY <1>2, <1>5, <2>2, TabKept DEF SameView
  <2> QED
    BY <2>1, <2>2
<1>9. CookieOK'
  BY <1>4 DEF DraftsInv, CookieOK, RowsAdvance, Shown
<1> QED
  BY <1>5, <1>7, <1>8, <1>9 DEF DraftsInv

-----------------------------------------------------------------------------
(* Creating.                                                               *)

\* A refused create; a client whose key expired forgets it.
LEMMA CreateRefusedInv ==
  ASSUME DraftsInv, NEW c \in Calls, CreateRefused(c)
  PROVE  DraftsInv'
<1>1. UNCHANGED <<clock, intents, creations, cookie>> /\ call' = [call EXCEPT ![c] = NoCall]
  BY DEF CreateRefused, Refuse
<1>2. tab \in [Tabs -> TabRows]
  BY DEF DraftsInv, DraftsTypeOK, TabRows, Statuses
<1>3. \/ UNCHANGED tab
      \/ tab' = [t \in Tabs |-> IF t = call[c].tab /\ ~Conflicts(c)
                                THEN [tab[t] EXCEPT !.key = None] ELSE tab[t]]
  BY DEF CreateRefused, Refuse
<1>4. tab' \in [Tabs -> TabRows] /\ \A t \in Tabs : SameView(t)
  BY <1>2, <1>3 DEF TabRows, SameView
<1> QED
  BY <1>1, <1>4, RefusedInv

\* A stored answer names the draft as it was created.
LEMMA CreateReplayedInv ==
  ASSUME DraftsInv, NEW c \in Calls, CreateReplayed(c)
  PROVE  DraftsInv'
<1>1. UNCHANGED <<clock, intents, creations>> /\ Answer(c, 1, Unanswered, "draft")
  BY DEF CreateReplayed
<1>2. PICK k \in Keys : k = call[c].id /\ creations[k] # None
  BY DEF CreateReplayed, Creating, DraftsInv, CallOK
<1>3. RowsAdvance /\ \A j \in Keys : RowOK(j)' /\ CreationOK(j)'
  BY <1>1, RowsKept, Types DEF DraftsInv
<1>4. Created(k) /\ intents[k] \in IntentRows
  BY <1>2, Types DEF DraftsInv, CreationOK
<1>5. Shown(k, 1, Unanswered)'
  BY <1>1, <1>2, <1>4 DEF Shown, Created, DraftsInv, RowOK, IntentRows
<1>6. \A d \in Calls \ {c}, j \in Keys :
        call[d].step = "insert" /\ call[d].id = j => ~Created(j)'
  BY <1>1 DEF DraftsInv, CallOK, Created
<1>7. Unanswered \in Drafts /\ "draft" \in Statuses
  BY DEF Unanswered, Drafts, Statuses
<1> QED
  BY <1>1, <1>2, <1>3, <1>5, <1>6, <1>7, AnswerInv DEF DraftsInv, DraftsTypeOK

\* The lock is taken for a key that has no row and no other holder.
LEMMA CreateBeginsInv ==
  ASSUME DraftsInv, NEW c \in Calls, CreateBegins(c)
  PROVE  DraftsInv'
<1> DEFINE next ==
      [call[c] EXCEPT !.step = "insert", !.until = call[c].at + KeyWindow, !.at = clock]
<1>1. /\ call[c] \in CallRows /\ call[c].at \in Nat /\ clock \in Nat
      /\ call[c].at + KeyWindow \in Nat
  BY Types, DraftTimes DEF DraftsInv, CallRows
<1>2. /\ next \in CallRows /\ next.step = "insert" /\ next.until = call[c].at + KeyWindow
      /\ next.at = clock /\ next.id = call[c].id /\ next.locale = call[c].locale
      /\ next.op = call[c].op /\ next.input = call[c].input
  BY <1>1 DEF CallRows
<1>3. call' = [call EXCEPT ![c] = next] /\ UNCHANGED <<clock, intents, creations, tab, cookie>>
  BY DEF CreateBegins
<1>4. /\ CallOK(c) /\ call[c].step = "lock" /\ call[c].id \in Keys
      /\ creations[call[c].id] = None
      /\ \A d \in Calls : call[d].step = "insert" => call[d].id # call[c].id
  BY DEF CreateBegins, Creating, InProgress, DraftsInv, CallOK
<1>5. ~Created(call[c].id)
  BY <1>4 DEF DraftsInv, CreationOK
<1> HIDE DEF next
<1>6. call'[c] = next /\ call' \in [Calls -> CallRows]
  BY <1>2, <1>3 DEF DraftsInv, DraftsTypeOK
<1>7. DraftsTypeOK'
  BY <1>3, <1>6 DEF DraftsInv, DraftsTypeOK
<1>8. RowsAdvance
  BY <1>3, RowsKept, Types DEF DraftsInv
<1>9. call[c].at + KeyWindow <= clock + KeyWindow
  BY <1>1, <1>4, DraftTimes DEF CallOK
<1>10. CallOK(c)'
  BY <1>1, <1>2, <1>3, <1>4, <1>5, <1>6, <1>9 DEF CallOK, Created
<1>11. \A d \in Calls \ {c}, k \in Keys :
         call[d].step = "insert" /\ call[d].id = k => ~Created(k)'
  BY <1>3 DEF DraftsInv, CallOK, Created
<1>12. (\A d \in Calls : CallOK(d)') /\ OneInsert'
  BY <1>2, <1>3, <1>4, <1>7, <1>8, <1>10, <1>11, CallMoves
<1> QED
  BY <1>3, <1>7, <1>12, ClientInv DEF SameView

\* The row and the stored answer of a create, in one transaction.
LEMMA CreateCommitsInv ==
  ASSUME DraftsInv, NEW c \in Calls, CreateCommits(c)
  PROVE  DraftsInv'
<1>1. /\ DraftsTypeOK /\ CallOK(c) /\ call[c] \in CallRows /\ clock \in Nat
      /\ call[c].step = "insert" /\ UNCHANGED clock
  BY Types DEF DraftsInv, CreateCommits
<1>2. PICK k \in Keys, locale \in Locales : call[c].id = k /\ call[c].locale = locale
  BY <1>1 DEF CallOK
<1>3. /\ ~Created(k) /\ call[c].until \in Nat /\ call[c].at \in Nat
      /\ call[c].until <= call[c].at + KeyWindow
  BY <1>1, <1>2 DEF CallOK, CallRows
<1>4. PICK now \in call[c].at .. clock :
        intents' = [intents EXCEPT ![k] =
          [status |-> "draft", version |-> 1, locale |-> locale, created |-> now,
           draft |-> Unanswered, snapshot |-> None, subject |-> "none", consents |-> 0]]
  BY <1>2 DEF CreateCommits
<1> DEFINE row == [status |-> "draft", version |-> 1, locale |-> locale, created |-> now,
                   draft |-> Unanswered, snapshot |-> None, subject |-> "none", consents |-> 0]
           creation == [locale |-> locale, until |-> call[c].until]
<1>5. now \in Nat /\ call[c].at <= now /\ now <= clock
  BY <1>1, <1>3, <1>4
<1>6. /\ row \in IntentRows /\ row # None
      /\ row.status = "draft" /\ row.version = 1 /\ row.locale = locale /\ row.created = now
      /\ row.draft = Unanswered /\ row.subject = "none" /\ row.consents = 0
  BY <1>5, NoneIsNoRow DEF IntentRows, Unanswered, Drafts
<1>7. /\ creation \in CreationRows /\ creation # None
      /\ creation.locale = locale /\ creation.until = call[c].until
  BY <1>3, NoneIsNoRow DEF CreationRows
<1>8. creations' = [creations EXCEPT ![k] = creation]
  BY <1>2 DEF CreateCommits
<1>9. PICK made \in CreationRows : made = creation /\ creations' = [creations EXCEPT ![k] = made]
  BY <1>7, <1>8
<1>10. made # None /\ made.locale = locale /\ made.until = call[c].until
  BY <1>7, <1>9
<1> HIDE DEF row, creation
<1>11. /\ intents' \in [Keys -> IntentRows \cup {None}] /\ intents'[k] = row
       /\ \A j \in Keys \ {k} : intents'[j] = intents[j]
  BY <1>1, <1>4, <1>6 DEF DraftsTypeOK, row
<1>12. /\ creations' \in [Keys -> CreationRows \cup {None}] /\ creations'[k] = made
       /\ \A j \in Keys \ {k} : creations'[j] = creations[j]
  BY <1>1, <1>9 DEF DraftsTypeOK
<1>13. RowsAdvance
  BY <1>1, <1>3, <1>11, Types DEF RowsAdvance, Created, IntentRows
<1>14. made.until <= now + DraftLife
  BY <1>3, <1>5, <1>10, DraftTimes
<1>15. ASSUME NEW j \in Keys PROVE RowOK(j)' /\ CreationOK(j)'
  <2>1. CASE j = k
    BY <1>1, <1>5, <1>6, <1>10, <1>11, <1>12, <1>14, <2>1 DEF RowOK, CreationOK, Created, ExpiresAt
  <2>2. CASE j # k
    BY <1>1, <1>11, <1>12, <2>2 DEF DraftsInv, RowOK, CreationOK, Created, ExpiresAt
  <2> QED
    BY <2>1, <2>2
<1>16. \A d \in Calls \ {c}, j \in Keys :
         call[d].step = "insert" /\ call[d].id = j => ~Created(j)'
  BY <1>1, <1>2, <1>11 DEF DraftsInv, CallOK, OneInsert, Created
<1>17. Shown(k, 1, Unanswered)'
  BY <1>6, <1>11 DEF Shown, Created
<1>18. Unanswered \in Drafts /\ "draft" \in Statuses /\ Answer(c, 1, Unanswered, "draft")
  BY DEF Unanswered, Drafts, Statuses, CreateCommits
<1> QED
  BY <1>2, <1>11, <1>12, <1>13, <1>15, <1>16, <1>17, <1>18, AnswerInv

-----------------------------------------------------------------------------
(* Reading.                                                                *)

\* A read that is not refused shows the row as it is.
LEMMA LoadInv ==
  ASSUME DraftsInv, NEW c \in Calls, Load(c)
  PROVE  DraftsInv'
<1>1. PICK k \in Keys : call[c].id = k /\ Created(k)
  BY DEF Load, Reading, DraftsInv, CallOK
<1>2. /\ UNCHANGED <<clock, intents, creations>>
      /\ Answer(c, intents[k].version, intents[k].draft, intents[k].status)
      /\ intents[k].status # "expired"
  BY <1>1 DEF Load, Refused, Readable
<1>3. PICK version \in Nat, draft \in Drafts, status \in Statuses :
        version = intents[k].version /\ draft = intents[k].draft /\ status = intents[k].status
  BY <1>1, <1>2, Types DEF DraftsInv, IntentRows, Statuses
<1>4. RowsAdvance /\ \A j \in Keys : RowOK(j)' /\ CreationOK(j)'
  BY <1>2, RowsKept, Types DEF DraftsInv
<1>5. \A d \in Calls \ {c}, j \in Keys :
        call[d].step = "insert" /\ call[d].id = j => ~Created(j)'
  BY <1>2 DEF DraftsInv, CallOK, Created
<1>6. Shown(k, version, draft)'
  BY <1>1, <1>2, <1>3 DEF Shown, Created
<1> QED
  BY <1>1, <1>2, <1>3, <1>4, <1>5, <1>6, AnswerInv DEF DraftsInv, DraftsTypeOK

\* The draft a change will save is computed from the one that was read.
LEMMA ReadForChangeInv ==
  ASSUME DraftsInv, NEW c \in Calls, ReadForChange(c)
  PROVE  DraftsInv'
<1>1. PICK k \in Keys : call[c].id = k /\ Created(k)
  BY DEF ReadForChange, Reading, DraftsInv, CallOK
<1>2. /\ CallOK(c) /\ call[c] \in CallRows /\ clock \in Nat /\ intents[k] \in IntentRows
      /\ call[c].step = "read" /\ call[c].op # "load"
  BY <1>1, Types DEF DraftsInv, ReadForChange, Reading
<1> DEFINE input == IF call[c].op = "patch" THEN Overlay(intents[k].draft, call[c].input)
                    ELSE call[c].input
           next == [call[c] EXCEPT !.step = "save", !.at = clock, !.input = input]
<1>3. input \in Drafts
  BY <1>2 DEF Overlay, Drafts, CallRows, IntentRows
<1>4. call[c].op = "complete" => input \in Complete
  BY <1>2 DEF CallOK
<1>5. call' = [call EXCEPT ![c] = next] /\ UNCHANGED <<clock, intents, creations, tab, cookie>>
  BY <1>1 DEF ReadForChange
<1> HIDE DEF input
<1>6. /\ next \in CallRows /\ next.step = "save" /\ next.at = clock /\ next.input = input
      /\ next.id = k /\ next.op = call[c].op /\ next.expected = call[c].expected
      /\ next.known = call[c].known
  BY <1>1, <1>2, <1>3 DEF CallRows
<1> HIDE DEF next
<1>7. call'[c] = next /\ call' \in [Calls -> CallRows]
  BY <1>5, <1>6 DEF DraftsInv, DraftsTypeOK
<1>8. DraftsTypeOK'
  BY <1>5, <1>7 DEF DraftsInv, DraftsTypeOK
<1>9. RowsAdvance
  BY <1>5, RowsKept, Types DEF DraftsInv
<1>10. CallOK(c)'
  BY <1>1, <1>2, <1>4, <1>5, <1>6, <1>7 DEF CallOK, Shown, Created
<1>11. \A d \in Calls \ {c}, j \in Keys :
         call[d].step = "insert" /\ call[d].id = j => ~Created(j)'
  BY <1>5 DEF DraftsInv, CallOK, Created
<1>12. (\A d \in Calls : CallOK(d)') /\ OneInsert'
  BY <1>5, <1>6, <1>8, <1>9, <1>10, <1>11, CallMoves
<1> QED
  BY <1>5, <1>8, <1>12, ClientInv DEF SameView

-----------------------------------------------------------------------------
(* Writing a row.                                                          *)

\* The fields of a row, and the version after.
LEMMA RowFields ==
  ASSUME NEW row \in IntentRows
  PROVE  /\ row.version \in Nat \ {0} /\ row.version + 1 \in Nat \ {0}
         /\ row.locale \in Locales /\ row.created \in Nat
         /\ row.snapshot \in Complete \cup {None}
         /\ row.subject \in {"none", "held", "erased"} /\ row.consents \in {0, 3}
BY DEF IntentRows

\* A write of an existing row raises its version, so that nobody else holds it.
LEMMA RowChange ==
  ASSUME DraftsInv, NEW k \in Keys, Created(k), NEW row \in IntentRows,
         intents' = [intents EXCEPT ![k] = row], UNCHANGED <<clock, creations>>,
         row.version = intents[k].version + 1,
         row.locale = intents[k].locale, row.created = intents[k].created,
         RowOK(k)'
  PROVE  /\ intents' \in [Keys -> IntentRows \cup {None}] /\ intents'[k] = row
         /\ RowsAdvance
         /\ \A j \in Keys : RowOK(j)' /\ CreationOK(j)'
         /\ \A d \in Calls, j \in Keys : call[d].step = "insert" /\ call[d].id = j => ~Created(j)'
<1>1. DraftsTypeOK /\ clock \in Nat /\ intents[k] \in IntentRows
  BY Types DEF DraftsInv
<1>2. /\ intents' \in [Keys -> IntentRows \cup {None}] /\ intents'[k] = row /\ row # None
      /\ \A j \in Keys \ {k} : intents'[j] = intents[j]
  BY <1>1, NoneIsNoRow DEF DraftsTypeOK
<1>3. \A j \in Keys : Created(j)' <=> Created(j)
  BY <1>2 DEF Created
<1>4. RowsAdvance
  BY <1>1, <1>2, Types DEF RowsAdvance, Created, IntentRows
<1>5. ASSUME NEW j \in Keys PROVE RowOK(j)' /\ CreationOK(j)'
  <2>1. CASE j = k
    BY <1>2, <1>3, <2>1 DEF DraftsInv, CreationOK, ExpiresAt
  <2>2. CASE j # k
    BY <1>2, <2>2 DEF DraftsInv, RowOK, CreationOK, Created, ExpiresAt
  <2> QED
    BY <2>1, <2>2
<1>6. \A d \in Calls, j \in Keys : call[d].step = "insert" /\ call[d].id = j => ~Created(j)'
  BY <1>3 DEF DraftsInv, CallOK
<1> QED
  BY <1>2, <1>4, <1>5, <1>6

\* A save writes the draft it computed, if the row is as it was when its tab saw it.
LEMMA SaveDraftInv ==
  ASSUME DraftsInv, NEW c \in Calls, SaveDraft(c)
  PROVE  DraftsInv'
<1>1. PICK k \in Keys : call[c].id = k /\ Created(k)
  BY DEF SaveDraft, Saving, DraftsInv, CallOK
<1>2. call[c] \in CallRows /\ clock \in Nat /\ intents[k] \in IntentRows /\ RowOK(k)
  BY <1>1, Types DEF DraftsInv
<1>3. intents[k].status = "draft"
  BY <1>1 DEF SaveDraft, Unchanged
<1>4. PICK input \in Drafts : input = call[c].input
  BY <1>2 DEF CallRows
<1> DEFINE row == [intents[k] EXCEPT !.draft = input, !.version = @ + 1]
<1>5. intents' = [intents EXCEPT ![k] = row] /\ UNCHANGED <<clock, creations>>
  BY <1>1, <1>4 DEF SaveDraft
<1>6. PICK new \in IntentRows :
        /\ intents' = [intents EXCEPT ![k] = new]
        /\ new.draft = input /\ new.version = intents[k].version + 1
        /\ new.status = "draft" /\ new.locale = intents[k].locale
        /\ new.created = intents[k].created /\ new.consents = intents[k].consents
        /\ new.subject = intents[k].subject
  <2>1. row \in IntentRows
    <3>1. intents[k].version + 1 \in Nat \ {0}
      BY <1>2, RowFields
    <3> QED
      BY <1>2, <3>1 DEF IntentRows
  <2>2. /\ row.draft = input /\ row.version = intents[k].version + 1
        /\ row.status = "draft" /\ row.locale = intents[k].locale
        /\ row.created = intents[k].created /\ row.consents = intents[k].consents
        /\ row.subject = intents[k].subject
    BY <1>2, <1>3 DEF IntentRows
  <2> HIDE DEF row
  <2> QED
    BY <1>5, <2>1, <2>2
<1>7. intents'[k] = new
  BY <1>6 DEF DraftsInv, DraftsTypeOK
<1>8. new.version # 1 /\ new.version \in Nat
  BY <1>2, <1>6 DEF IntentRows
<1>9. RowOK(k)'
  BY <1>1, <1>2, <1>3, <1>5, <1>6, <1>7, <1>8 DEF RowOK
<1>10. Shown(k, new.version, input)'
  BY <1>1, <1>5, <1>6, <1>7, <1>8, NoneIsNoRow DEF Shown, Created
<1>11. "draft" \in Statuses /\ Answer(c, new.version, input, "draft")
  BY <1>1, <1>4, <1>6 DEF Statuses, SaveDraft
<1>12. /\ intents' \in [Keys -> IntentRows \cup {None}] /\ RowsAdvance
       /\ \A j \in Keys : RowOK(j)' /\ CreationOK(j)'
       /\ \A d \in Calls, j \in Keys : call[d].step = "insert" /\ call[d].id = j => ~Created(j)'
  BY <1>1, <1>5, <1>6, <1>9, RowChange
<1> QED
  BY <1>1, <1>5, <1>8, <1>10, <1>11, <1>12, AnswerInv DEF DraftsInv, DraftsTypeOK

\* A completion writes the snapshot, the subject and the consents at once.
LEMMA CompleteIntentInv ==
  ASSUME DraftsInv, NEW c \in Calls, CompleteIntent(c)
  PROVE  DraftsInv'
<1>1. PICK k \in Keys : call[c].id = k /\ Created(k)
  BY DEF CompleteIntent, Saving, DraftsInv, CallOK
<1>2. call[c] \in CallRows /\ clock \in Nat /\ intents[k] \in IntentRows /\ RowOK(k)
  BY <1>1, Types DEF DraftsInv
<1>3. intents[k].status = "draft" /\ intents[k].consents = 0
  BY <1>1, <1>2 DEF CompleteIntent, Unchanged, RowOK
<1>4. PICK input \in Complete : input = call[c].input
  BY DEF CompleteIntent, Saving, DraftsInv, CallOK
<1>5. input \in Drafts /\ input # None
  BY <1>2, <1>4, NoneIsNoRow DEF CallRows
<1> DEFINE row == [intents[k] EXCEPT !.status = "complete", !.version = @ + 1,
                     !.draft = input, !.snapshot = input, !.subject = "held", !.consents = @ + 3]
<1>6. intents' = [intents EXCEPT ![k] = row] /\ UNCHANGED <<clock, creations>>
  BY <1>1, <1>4 DEF CompleteIntent
<1>7. PICK new \in IntentRows :
        /\ intents' = [intents EXCEPT ![k] = new]
        /\ new.draft = input /\ new.version = intents[k].version + 1
        /\ new.status = "complete" /\ new.locale = intents[k].locale
        /\ new.created = intents[k].created /\ new.consents = 3
        /\ new.subject = "held" /\ new.snapshot = input
  <2>1. row \in IntentRows
    <3>1. intents[k].version + 1 \in Nat \ {0} /\ intents[k].consents + 3 = 3
      BY <1>2, <1>3, RowFields
    <3> QED
      BY <1>2, <1>5, <3>1 DEF IntentRows
  <2>2. /\ row.draft = input /\ row.version = intents[k].version + 1
        /\ row.status = "complete" /\ row.locale = intents[k].locale
        /\ row.created = intents[k].created /\ row.consents = 3
        /\ row.subject = "held" /\ row.snapshot = input
    BY <1>2, <1>3 DEF IntentRows
  <2> HIDE DEF row
  <2> QED
    BY <1>6, <2>1, <2>2
<1>8. intents'[k] = new
  BY <1>7 DEF DraftsInv, DraftsTypeOK
<1>9. new.version # 1 /\ new.version \in Nat
  BY <1>2, <1>7 DEF IntentRows
<1>10. RowOK(k)'
  BY <1>1, <1>2, <1>5, <1>6, <1>7, <1>8, <1>9 DEF RowOK
<1>11. Shown(k, new.version, input)'
  BY <1>1, <1>7, <1>8, <1>9, NoneIsNoRow DEF Shown, Created
<1>12. "complete" \in Statuses /\ Answer(c, new.version, input, "complete")
  BY <1>1, <1>4, <1>7 DEF Statuses, CompleteIntent
<1>13. /\ intents' \in [Keys -> IntentRows \cup {None}] /\ RowsAdvance
       /\ \A j \in Keys : RowOK(j)' /\ CreationOK(j)'
       /\ \A d \in Calls, j \in Keys : call[d].step = "insert" /\ call[d].id = j => ~Created(j)'
  BY <1>1, <1>6, <1>7, <1>10, RowChange
<1> QED
  BY <1>1, <1>5, <1>6, <1>9, <1>11, <1>12, <1>13, AnswerInv DEF DraftsInv, DraftsTypeOK

-----------------------------------------------------------------------------
(* What else changes the rows.                                             *)

\* The rows or the clock move, and no request or tab.
LEMMA QuietInv ==
  ASSUME DraftsInv, RowsAdvance, UNCHANGED <<creations, call, tab, cookie>>,
         intents' \in [Keys -> IntentRows \cup {None}],
         \A j \in Keys : RowOK(j)' /\ CreationOK(j)',
         \A d \in Calls, j \in Keys : call[d].step = "insert" /\ call[d].id = j => ~Created(j)'
  PROVE  DraftsInv'
<1>1. DraftsTypeOK'
  BY DEF DraftsInv, DraftsTypeOK, RowsAdvance
<1>2. \A c \in Calls : CallOK(c)'
  BY <1>1, CallKept DEF SameRequest
<1>3. \A t \in Tabs : TabOK(t)'
  BY <1>1, TabKept DEF SameView
<1>4. OneInsert' /\ CookieOK'
  BY CookieKept DEF DraftsInv, OneInsert
<1> QED
  BY <1>1, <1>2, <1>3, <1>4 DEF DraftsInv

\* An order, and its capture, move a completed row on.
LEMMA OrderedInv ==
  ASSUME DraftsInv, NEW k \in Keys, Pay(k) \/ \E now \in Times : Checkout(k, now)
  PROVE  DraftsInv'
<1>1. PICK status \in {"checkout_created", "converted"} :
        intents' = [intents EXCEPT ![k].status = status, ![k].version = @ + 1]
  BY DEF Pay, Checkout
<1>2. /\ UNCHANGED <<clock, creations, call, tab, cookie>>
      /\ Created(k) /\ intents[k].status \in {"complete", "checkout_created"}
  BY DEF Pay, Checkout
<1>3. clock \in Nat /\ intents[k] \in IntentRows /\ RowOK(k)
  BY <1>2, Types DEF DraftsInv
<1> DEFINE row == [intents[k] EXCEPT !.status = status, !.version = @ + 1]
<1>4. PICK new \in IntentRows :
        /\ intents' = [intents EXCEPT ![k] = new]
        /\ new.version = intents[k].version + 1
        /\ new.status = status /\ new.locale = intents[k].locale
        /\ new.created = intents[k].created /\ new.consents = intents[k].consents
        /\ new.subject = intents[k].subject /\ new.snapshot = intents[k].snapshot
  <2>1. row \in IntentRows
    <3>1. intents[k].version + 1 \in Nat \ {0}
      BY <1>3, RowFields
    <3> QED
      BY <1>3, <3>1 DEF IntentRows
  <2>2. /\ row.version = intents[k].version + 1
        /\ row.status = status /\ row.locale = intents[k].locale
        /\ row.created = intents[k].created /\ row.consents = intents[k].consents
        /\ row.subject = intents[k].subject /\ row.snapshot = intents[k].snapshot
    BY <1>3 DEF IntentRows
  <2>3. intents' = [intents EXCEPT ![k] = row]
    BY <1>1
  <2> HIDE DEF row
  <2> QED
    BY <2>1, <2>2, <2>3
<1>5. intents'[k] = new
  BY <1>4 DEF DraftsInv, DraftsTypeOK
<1>6. new.version # 1 /\ new.version \in Nat
  BY <1>3, <1>4 DEF IntentRows
<1>7. RowOK(k)'
  BY <1>2, <1>3, <1>4, <1>5, <1>6 DEF RowOK
<1> QED
  BY <1>2, <1>4, <1>7, RowChange, QuietInv

\* A tombstone keeps the row's name and time and raises its version.
LEMMA TombstoneFacts ==
  ASSUME NEW row \in IntentRows
  PROVE  /\ Tombstone(row) \in IntentRows
         /\ Tombstone(row).version = row.version + 1
         /\ Tombstone(row).status = "expired" /\ Tombstone(row).created = row.created
         /\ Tombstone(row).locale = row.locale
         /\ Tombstone(row).draft = Unanswered /\ Tombstone(row).snapshot = None
         /\ Tombstone(row).subject # "held"
         /\ Tombstone(row).consents = row.consents
<1>1. row.version + 1 \in Nat \ {0}
  BY RowFields
<1>2. Unanswered \in Drafts
  BY DEF Unanswered, Drafts
<1> QED
  BY <1>1, <1>2 DEF Tombstone, IntentRows

\* Maintenance erases rows that are due.
LEMMA ExpireDueDraftsInv ==
  ASSUME DraftsInv, NEW S \in SUBSET Keys, NEW now \in Times, ExpireDueDrafts(S, now)
  PROVE  DraftsInv'
<1>1. /\ UNCHANGED <<clock, creations, call, tab, cookie>> /\ now <= clock /\ now \in Nat
      /\ \A k \in S : Due(k, now)
      /\ intents' = [k \in Keys |-> IF k \in S THEN Tombstone(intents[k]) ELSE intents[k]]
  BY DraftTimes DEF ExpireDueDrafts, Times
<1>2. clock \in Nat /\ \A k \in Keys : Created(k) => intents[k] \in IntentRows
  BY Types DEF DraftsInv
<1>3. \A k \in S : Created(k) /\ intents[k] \in IntentRows
  BY <1>1, <1>2 DEF Due
<1>4. /\ \A k \in S : intents'[k] \in IntentRows /\ intents'[k] = Tombstone(intents[k])
      /\ \A k \in Keys \ S : intents'[k] = intents[k]
  BY <1>1, <1>3, TombstoneFacts
<1>5. intents' \in [Keys -> IntentRows \cup {None}]
  BY <1>1, <1>4 DEF DraftsInv, DraftsTypeOK
<1>6. \A k \in Keys : Created(k)' <=> Created(k)
  BY <1>3, <1>4, NoneIsNoRow DEF Created
<1>7. ASSUME NEW k \in Keys, Created(k)
      PROVE  /\ Created(k)' /\ intents[k].version <= intents'[k].version
             /\ intents'[k].version = intents[k].version => intents'[k] = intents[k]
  <2>1. intents[k] \in IntentRows /\ intents[k].version \in Nat
    BY <1>2, <1>7 DEF IntentRows
  <2> QED
    BY <1>4, <1>6, <1>7, <2>1, TombstoneFacts
<1>8. RowsAdvance
  BY <1>1, <1>2, <1>7 DEF RowsAdvance
<1>9. ASSUME NEW k \in Keys PROVE RowOK(k)' /\ CreationOK(k)'
  <2>1. CASE k \in S
    <3>1. /\ intents[k].created \in Nat /\ intents[k].version \in Nat \ {0}
          /\ intents[k].created + DraftLife <= clock /\ intents[k].created <= clock
      BY <1>1, <1>2, <1>3, <2>1, DraftTimes DEF IntentRows, Due, ExpiresAt, DraftsInv, RowOK
    <3>2. /\ intents'[k].version # 1 /\ intents'[k].status = "expired"
          /\ intents'[k].created = intents[k].created /\ intents'[k].locale = intents[k].locale
          /\ intents'[k].draft = Unanswered /\ intents'[k].snapshot = None
          /\ intents'[k].subject # "held"
      BY <1>3, <1>4, <2>1, <3>1, TombstoneFacts
    <3> QED
      BY <1>1, <1>3, <1>6, <2>1, <3>1, <3>2 DEF DraftsInv, RowOK, CreationOK, ExpiresAt
  <2>2. CASE k \notin S
    BY <1>1, <1>4, <2>2 DEF DraftsInv, RowOK, CreationOK, Created, ExpiresAt
  <2> QED
    BY <2>1, <2>2
<1>10. \A d \in Calls, j \in Keys : call[d].step = "insert" /\ call[d].id = j => ~Created(j)'
  BY <1>6 DEF DraftsInv, CallOK
<1> QED
  BY <1>1, <1>5, <1>8, <1>9, <1>10, QuietInv

\* Time passes.
LEMMA TickInv ==
  ASSUME DraftsInv, Tick
  PROVE  DraftsInv'
<1>1. UNCHANGED <<intents, creations, call, tab, cookie>> /\ clock' \in Nat /\ clock <= clock'
  BY Types DEF DraftsInv, Tick
<1>2. RowsAdvance /\ \A k \in Keys : RowOK(k)' /\ CreationOK(k)'
  BY <1>1, RowsKept
<1>3. \A d \in Calls, j \in Keys : call[d].step = "insert" /\ call[d].id = j => ~Created(j)'
  BY <1>1 DEF DraftsInv, CallOK, Created
<1> QED
  BY <1>1, <1>2, <1>3, QuietInv DEF DraftsInv, DraftsTypeOK

-----------------------------------------------------------------------------
(* The invariant.                                                          *)

\* Nothing is created, sent or shown at first.
LEMMA DraftsInitInv ==
  ASSUME DraftsInit
  PROVE  DraftsInv
<1>1. Fresh \in TabRows /\ Fresh.id = None /\ Fresh.status = None
  BY DEF Fresh, TabRows, Unanswered, Drafts
<1>2. DraftsTypeOK
  BY <1>1, NoCallFacts DEF DraftsInit, DraftsTypeOK, TabRows, Statuses
<1>3. \A k \in Keys : ~Created(k) /\ creations[k] = None
  BY DEF DraftsInit, Created
<1>4. \A c \in Calls : call[c] = NoCall
  BY DEF DraftsInit
<1>5. \A c \in Calls : CallOK(c)
  BY <1>4, NoCallFacts DEF CallOK, DraftsInit
<1>6. OneInsert
  BY <1>4, NoCallFacts DEF OneInsert
<1>7. \A t \in Tabs : TabOK(t)
  BY <1>1, NoneIsNoRow DEF DraftsInit, TabOK
<1> QED
  BY <1>2, <1>3, <1>5, <1>6, <1>7 DEF DraftsInv, RowOK, CreationOK, CookieOK, DraftsInit

\* Every step, and doing nothing, keeps the invariant.
LEMMA DraftsNextInv ==
  ASSUME DraftsInv, [DraftsNext]_draftVars
  PROVE  DraftsInv'
<1>1. CASE ClientNext
  <2>1. ASSUME NEW c \in Calls, NEW t \in Tabs, NEW input \in Drafts \ {Unanswered},
               SendChange(c, t, "patch", input)
        PROVE  DraftsInv'
    BY <2>1, SendChangeInv
  <2>2. ASSUME NEW c \in Calls, NEW t \in Tabs, NEW input \in Complete,
               SendChange(c, t, "complete", input)
        PROVE  DraftsInv'
    <3>1. input \in Drafts
      BY DEF Complete, Drafts
    <3> QED
      BY <2>2, <3>1, SendChangeInv
  <2> QED
    BY <1>1, <2>1, <2>2, SendCreateInv, SendLoadInv, LostInv, ReloadInv DEF ClientNext
<1>2. CASE ServerNext
  <2> SUFFICES ASSUME NEW c \in Calls,
                 \/ CreateRefused(c) \/ CreateReplayed(c) \/ CreateBegins(c) \/ CreateCommits(c)
                 \/ ReadRefused(c) \/ Load(c) \/ ReadForChange(c)
                 \/ SaveDraft(c) \/ CompleteIntent(c) \/ SaveRefused(c)
                 \/ Abort(c)
               PROVE  DraftsInv'
    BY <1>2 DEF ServerNext
  <2>1. CASE ReadRefused(c) \/ SaveRefused(c) \/ Abort(c)
    BY <2>1, RefuseInv DEF ReadRefused, SaveRefused, Abort
  <2> QED
    BY <2>1, CreateRefusedInv, CreateReplayedInv, CreateBeginsInv, CreateCommitsInv,
       LoadInv, ReadForChangeInv, SaveDraftInv, CompleteIntentInv
<1>3. CASE \E k \in Keys, now \in Times : Checkout(k, now)
  BY <1>3, OrderedInv
<1>4. CASE \E k \in Keys : Pay(k)
  BY <1>4, OrderedInv
<1>5. CASE \E S \in SUBSET Keys, now \in Times : ExpireDueDrafts(S, now)
  BY <1>5, ExpireDueDraftsInv
<1>6. CASE Tick
  BY <1>6, TickInv
<1>7. CASE UNCHANGED draftVars
  <2>1. UNCHANGED <<clock, intents, creations, call, tab, cookie>>
    BY <1>7 DEF draftVars
  <2> QED
    BY <2>1, RowsKept, QuietInv, Types DEF DraftsInv, DraftsTypeOK, CallOK, Created
<1> QED
  BY <1>1, <1>2, <1>3, <1>4, <1>5, <1>6, <1>7 DEF DraftsNext

\* The inductive invariant holds in every reachable state.
THEOREM DraftsInvariant == DraftsSpec => []DraftsInv
<1>1. DraftsInit => DraftsInv
  BY DraftsInitInv
<1>2. DraftsInv /\ [DraftsNext]_draftVars => DraftsInv'
  BY DraftsNextInv
<1> QED
  BY <1>1, <1>2, PTL DEF DraftsSpec

\* What maintenance erased stays erased, and nothing else is erased.
THEOREM ErasedStaysErased == DraftsSpec => []ExpiryIsFinal
<1>1. DraftsInv => ExpiryIsFinal
  BY DEF DraftsInv, RowOK, ExpiryIsFinal
<1> QED
  BY <1>1, DraftsInvariant, PTL

-----------------------------------------------------------------------------
(* What a step may never do.                                               *)

\* A row that exists is only written by a change of its draft, an order, a capture or its
\* expiry.
LEMMA Writers ==
  ASSUME DraftsInv, [DraftsNext]_draftVars, NEW k \in Keys, Created(k),
         intents'[k] # intents[k]
  PROVE  \/ \E c \in Calls : call[c].id = k /\ (SaveDraft(c) \/ CompleteIntent(c))
         \/ (\E now \in Times : Checkout(k, now)) \/ Pay(k)
         \/ \E now \in Times : Due(k, now) /\ intents'[k] = Tombstone(intents[k])
<1>1. intents \in [Keys -> IntentRows \cup {None}] /\ intents' # intents
  BY DEF DraftsInv, DraftsTypeOK
<1>2. CASE ClientNext \/ Tick \/ UNCHANGED draftVars
  BY <1>1, <1>2 DEF ClientNext, SendCreate, SendLoad, SendChange, Lost, Reload, Tick, draftVars
<1>3. CASE ServerNext
  <2>1. PICK c \in Calls : CreateCommits(c) \/ SaveDraft(c) \/ CompleteIntent(c)
    BY <1>1, <1>3 DEF ServerNext, CreateRefused, CreateReplayed, CreateBegins, ReadRefused,
       Load, ReadForChange, SaveRefused, Abort
  <2>2. CASE CreateCommits(c)
    <3>1. call[c].id \in Keys /\ ~Created(call[c].id)
      BY <2>2 DEF CreateCommits, DraftsInv, CallOK
    <3>2. k # call[c].id
      BY <3>1
    <3> QED
      BY <1>1, <2>2, <3>1, <3>2 DEF CreateCommits
  <2>3. CASE SaveDraft(c) \/ CompleteIntent(c)
    <3>1. call[c].id \in Keys
      BY <2>3 DEF SaveDraft, CompleteIntent, Saving, DraftsInv, CallOK
    <3>2. call[c].id = k
      BY <1>1, <2>3, <3>1 DEF SaveDraft, CompleteIntent
    <3> QED
      BY <2>3, <3>2
  <2> QED
    BY <2>1, <2>2, <2>3
<1>4. CASE \E j \in Keys : Pay(j) \/ \E now \in Times : Checkout(j, now)
  <2>1. PICK j \in Keys : Pay(j) \/ \E now \in Times : Checkout(j, now)
    BY <1>4
  <2>2. j = k
    BY <1>1, <2>1 DEF Pay, Checkout
  <2> QED
    BY <2>1, <2>2
<1>5. CASE \E S \in SUBSET Keys, now \in Times : ExpireDueDrafts(S, now)
  BY <1>5 DEF ExpireDueDrafts
<1> QED
  BY <1>2, <1>3, <1>4, <1>5 DEF DraftsNext

\* Each tab's change overwrites only what the tab was shown.
THEOREM NoUnseenOverwrite == DraftsSpec => SavesBuildOnWhatWasSeen
<1> DEFINE BuiltOn(k) ==
      (Created(k) /\ intents'[k].draft # intents[k].draft /\ intents'[k].status # "expired")
        => \E c \in Calls : /\ Saving(c, "patch") \/ Saving(c, "complete")
                            /\ call[c].id = k
                            /\ call[c].known = intents[k].draft
                            /\ intents'[k].draft = call[c].input
<1>1. DraftsInv /\ [DraftsNext]_draftVars => [\A k \in Keys : BuiltOn(k)]_draftVars
  <2> SUFFICES ASSUME DraftsInv, [DraftsNext]_draftVars, NEW k \in Keys, Created(k),
                      intents'[k].draft # intents[k].draft, intents'[k].status # "expired"
               PROVE  \E c \in Calls : /\ Saving(c, "patch") \/ Saving(c, "complete")
                                       /\ call[c].id = k
                                       /\ call[c].known = intents[k].draft
                                       /\ intents'[k].draft = call[c].input
    OBVIOUS
  <2>1. intents \in [Keys -> IntentRows \cup {None}] /\ intents[k] \in IntentRows
    BY Types DEF DraftsInv, DraftsTypeOK
  <2>2. PICK c \in Calls : call[c].id = k /\ (SaveDraft(c) \/ CompleteIntent(c))
    <3>1. ~Pay(k) /\ ~\E now \in Times : Checkout(k, now)
      BY <2>1 DEF Pay, Checkout, IntentRows
    <3>2. intents'[k] # Tombstone(intents[k])
      BY <2>1, TombstoneFacts
    <3> QED
      BY <3>1, <3>2, Writers
  <2>3. Saving(c, "patch") \/ Saving(c, "complete")
    BY <2>2 DEF SaveDraft, CompleteIntent
  <2>4. intents[k].version = call[c].expected /\ intents[k].status = "draft"
    BY <2>2 DEF SaveDraft, CompleteIntent, Unchanged
  <2>5. call[c].known = intents[k].draft
    BY <2>2, <2>3, <2>4 DEF Saving, DraftsInv, CallOK, Shown
  <2>6. intents'[k].draft = call[c].input
    BY <2>1, <2>2 DEF SaveDraft, CompleteIntent, IntentRows
  <2> QED
    BY <2>2, <2>3, <2>5, <2>6
<1> QED
  BY <1>1, DraftsInvariant, PTL DEF DraftsSpec, SavesBuildOnWhatWasSeen

\* A completed intent keeps its snapshot, subject and consents until it is erased, and an
\* ordered one is not erased.
THEOREM CompletionStands == DraftsSpec => CompletedOnce
<1> DEFINE Stands(k) ==
      /\ intents[k].snapshot # None /\ intents[k].consents = 3
      /\ intents'[k].consents = intents[k].consents
      /\ IF intents'[k].status = "expired"
         THEN intents[k].status = "complete"
         ELSE /\ intents'[k].status # "draft"
              /\ intents'[k].snapshot = intents[k].snapshot
              /\ intents'[k].subject = "held"
      Completed(k) ==
        Created(k) /\ intents[k].status \in {"complete", "checkout_created", "converted"}
<1>1. DraftsInv /\ [DraftsNext]_draftVars
        => [\A k \in Keys : Completed(k) => Stands(k)]_draftVars
  <2> SUFFICES ASSUME DraftsInv, [DraftsNext]_draftVars, NEW k \in Keys, Completed(k)
               PROVE  Stands(k)
    OBVIOUS
  <2>1. intents \in [Keys -> IntentRows \cup {None}] /\ intents[k] \in IntentRows
    BY Types DEF DraftsInv, DraftsTypeOK
  <2>2. intents[k].snapshot # None /\ intents[k].consents = 3 /\ intents[k].subject = "held"
    BY DEF DraftsInv, RowOK
  <2>3. CASE intents'[k] = intents[k]
    BY <2>2, <2>3
  <2>4. CASE intents'[k] # intents[k]
    <3>1. ~\E c \in Calls : call[c].id = k /\ (SaveDraft(c) \/ CompleteIntent(c))
      BY DEF SaveDraft, CompleteIntent, Unchanged
    <3>2. CASE Pay(k) \/ \E now \in Times : Checkout(k, now)
      <4>1. PICK status \in {"checkout_created", "converted"} :
              intents' = [intents EXCEPT ![k].status = status, ![k].version = @ + 1]
        BY <3>2 DEF Pay, Checkout
      <4>2. /\ intents'[k].status = status /\ intents'[k].consents = intents[k].consents
            /\ intents'[k].snapshot = intents[k].snapshot
            /\ intents'[k].subject = intents[k].subject
        BY <2>1, <4>1 DEF IntentRows
      <4> QED
        BY <2>2, <4>2
    <3>3. CASE \E now \in Times : Due(k, now) /\ intents'[k] = Tombstone(intents[k])
      BY <2>1, <2>2, <3>3, TombstoneFacts DEF Due
    <3> QED
      BY <2>4, <3>1, <3>2, <3>3, Writers
  <2> QED
    BY <2>3, <2>4
<1> QED
  BY <1>1, DraftsInvariant, PTL DEF DraftsSpec, CompletedOnce

\* A stored answer never outlives its draft.
THEOREM AnsweredDraftsAreLive == DraftsSpec => ReplaysAreLive
<1> DEFINE Live(c) == /\ Created(call[c].id)
                      /\ intents[call[c].id].locale = call[c].locale
                      /\ Readable(call[c].id)
<1>1. DraftsInv => [\A c \in Calls : CreateReplayed(c) => Live(c)]_draftVars
  <2> SUFFICES ASSUME DraftsInv, NEW c \in Calls, CreateReplayed(c) PROVE Live(c)
    OBVIOUS
  <2>1. PICK k \in Keys : k = call[c].id /\ creations[k] # None
    BY DEF CreateReplayed, Creating, DraftsInv, CallOK
  <2>2. /\ Created(k) /\ intents[k] \in IntentRows /\ creations[k] \in CreationRows
        /\ clock \in Nat
    BY <2>1, Types DEF DraftsInv, CreationOK
  <2>3. creations[k].until \in Nat /\ ExpiresAt(k) \in Nat
    BY <2>2, DraftTimes DEF IntentRows, CreationRows, ExpiresAt
  <2>4. creations[k].locale = call[c].locale /\ ~(creations[k].until <= clock)
    BY <2>1 DEF CreateReplayed, Conflicts, KeyExpired
  <2>5. creations[k].locale = intents[k].locale /\ creations[k].until <= ExpiresAt(k)
    BY <2>2 DEF DraftsInv, CreationOK
  <2>6. clock < ExpiresAt(k)
    BY <2>2, <2>3, <2>4, <2>5
  <2>7. intents[k].status # "expired"
    BY <2>2, <2>3, <2>6 DEF DraftsInv, RowOK
  <2> QED
    BY <2>1, <2>2, <2>4, <2>5, <2>6, <2>7 DEF Readable
<1> QED
  BY <1>1, DraftsInvariant, PTL DEF DraftsSpec, ReplaysAreLive
-----------------------------------------------------------------------------
(* Drafts implements Intake.  A change that is under way holds the version *)
(* its tab was shown, so that it can only be made to the page it was asked *)
(* for; the merge of patch() is then the one its tab meant.                *)

\* The draft a change would save is what was asked for, as long as it can be saved.
SaveOK(c) == call[c].step = "save" /\ Pending(c) => Wanted(c) = call[c].input

PagesInv == DraftsInv /\ \A c \in Calls : SaveOK(c)

\* The steps only add to the rows, and a row that is written gets a new version.
LEMMA StepAdvances ==
  ASSUME DraftsInv, [DraftsNext]_draftVars
  PROVE  RowsAdvance
<1>1. DraftsTypeOK /\ DraftsTypeOK' /\ intents \in [Keys -> IntentRows \cup {None}]
  BY DraftsNextInv DEF DraftsInv, DraftsTypeOK
<1>2. clock' \in Nat /\ clock <= clock'
  <2>1. ClientNext => clock' = clock
    BY DEF ClientNext, SendCreate, SendLoad, SendChange, Lost, Reload
  <2>2. ServerNext => clock' = clock
    BY DEF ServerNext, CreateRefused, CreateReplayed, CreateBegins, CreateCommits, ReadRefused, Load,
       ReadForChange, SaveDraft, CompleteIntent, SaveRefused, Abort
  <2>3. Tick => clock' = clock + 1
    BY DEF Tick
  <2>4. clock' = clock \/ clock' = clock + 1
    BY <2>1, <2>2, <2>3 DEF DraftsNext, Checkout, Pay, ExpireDueDrafts, draftVars
  <2>5. clock \in Nat /\ clock' \in Nat
    BY <1>1 DEF DraftsTypeOK
  <2> QED
    BY <2>4, <2>5
<1>3. ASSUME NEW k \in Keys, Created(k), intents'[k] # intents[k]
      PROVE  Created(k)' /\ intents'[k].version = intents[k].version + 1
  <2>1. intents[k] \in IntentRows
    BY <1>1, <1>3, Types
  <2>2. CASE \E c \in Calls : call[c].id = k /\ SaveDraft(c)
    <3>1. PICK draft \in Drafts :
            intents' = [intents EXCEPT ![k].draft = draft, ![k].version = @ + 1]
      BY <1>1, <2>2 DEF SaveDraft, DraftsTypeOK, CallRows
    <3>2. intents'[k] = [intents[k] EXCEPT !.draft = draft, !.version = @ + 1]
      BY <1>1, <3>1
    <3>3. intents'[k] \in IntentRows /\ intents'[k].version = intents[k].version + 1
      BY <2>1, <3>2, RowFields DEF IntentRows
    <3> QED
      BY <3>3, NoneIsNoRow DEF Created
  <2>3. CASE \E c \in Calls : call[c].id = k /\ CompleteIntent(c)
    <3>1. PICK c \in Calls : call[c].id = k /\ CompleteIntent(c)
      BY <2>3
    <3>2. intents'[k].version = intents[k].version + 1 /\ intents'[k].status = "complete"
      BY <1>1, <2>1, <3>1 DEF CompleteIntent, IntentRows
    <3>3. PICK input \in Complete : input = call[c].input
      BY <3>1 DEF CompleteIntent, Saving, DraftsInv, CallOK
    <3>4. intents[k].consents = 0 /\ input \in Drafts
      BY <1>3, <3>1, <3>3 DEF CompleteIntent, Unchanged, DraftsInv, RowOK, Complete, Drafts
    <3>5. intents'[k] = [intents[k] EXCEPT !.status = "complete", !.version = @ + 1,
                           !.draft = input, !.snapshot = input, !.subject = "held",
                           !.consents = @ + 3]
      BY <1>1, <3>1, <3>3 DEF CompleteIntent
    <3>6. intents[k].version + 1 \in Nat \ {0} /\ intents[k].consents + 3 = 3
      BY <2>1, <3>4, RowFields
    <3>7. intents'[k] \in IntentRows
      BY <2>1, <3>4, <3>5, <3>6 DEF IntentRows
    <3> QED
      BY <3>2, <3>7, NoneIsNoRow DEF Created
  <2>4. CASE Pay(k) \/ \E now \in Times : Checkout(k, now)
    <3>1. PICK status \in {"checkout_created", "converted"} :
            intents' = [intents EXCEPT ![k].status = status, ![k].version = @ + 1]
      BY <2>4 DEF Pay, Checkout
    <3>2. intents'[k] = [intents[k] EXCEPT !.status = status, !.version = @ + 1]
      BY <1>1, <3>1
    <3>3. intents'[k] \in IntentRows /\ intents'[k].version = intents[k].version + 1
      BY <2>1, <3>2, RowFields DEF IntentRows
    <3> QED
      BY <3>3, NoneIsNoRow DEF Created
  <2>5. CASE intents'[k] = Tombstone(intents[k])
    BY <2>1, <2>5, TombstoneFacts, NoneIsNoRow DEF Created
  <2> QED
    BY <1>3, <2>2, <2>3, <2>4, <2>5, Writers
<1>4. ASSUME NEW k \in Keys, Created(k)
      PROVE  /\ Created(k)' /\ intents[k].version <= intents'[k].version
             /\ intents'[k].version = intents[k].version => intents'[k] = intents[k]
  <2>1. intents[k].version \in Nat
    BY <1>1, <1>4, Types DEF IntentRows
  <2>2. CASE intents'[k] = intents[k]
    BY <1>4, <2>1, <2>2 DEF Created
  <2>3. CASE intents'[k] # intents[k]
    BY <1>3, <1>4, <2>1, <2>3
  <2> QED
    BY <2>2, <2>3
<1> QED
  BY <1>2, <1>4 DEF RowsAdvance

\* A change that can be made builds on the row as it is.
LEMMA PendingFacts ==
  ASSUME DraftsInv, NEW c \in Calls, Pending(c)
  PROVE  /\ call[c].id \in Keys /\ Created(call[c].id)
         /\ call[c].known = intents[call[c].id].draft
         /\ call[c].expected = intents[call[c].id].version
<1>1. CallOK(c) /\ call[c].step \in {"read", "save"} /\ call[c].op # "load"
  BY DEF DraftsInv, Pending
<1> QED
  BY <1>1 DEF CallOK, Shown, Pending

\* A request that does not move can be made while its row is not written.
LEMMA PendingKept ==
  ASSUME DraftsInv, RowsAdvance, NEW c \in Calls, SameRequest(c), Pending(c)'
  PROVE  Pending(c) /\ intents'[call[c].id] = intents[call[c].id]
<1>1. /\ call[c].step \in {"read", "save"} /\ call[c].op \in {"patch", "complete"}
      /\ intents'[call[c].id].status = "draft" /\ intents'[call[c].id].version = call[c].expected
  BY DEF Pending, SameRequest
<1>2. PICK k \in Keys : k = call[c].id /\ Created(k) /\ call[c].expected <= intents[k].version
  BY <1>1 DEF DraftsInv, CallOK, Shown
<1>3. intents[k].version \in Nat
  BY <1>2, Types DEF DraftsInv, IntentRows
<1>4. call[c].expected \in Nat
  BY Types DEF DraftsInv, CallRows
<1>5. /\ intents[k].version <= intents'[k].version
      /\ intents'[k].version = intents[k].version => intents'[k] = intents[k]
  BY <1>2 DEF RowsAdvance
<1>6. intents'[k].version = call[c].expected
  BY <1>1, <1>2
<1>7. intents'[k].version = intents[k].version
  BY <1>2, <1>3, <1>4, <1>5, <1>6
<1> QED
  BY <1>1, <1>2, <1>5, <1>7 DEF Pending

\* So a write voids the changes of its row, and no other.
LEMMA ChangeKept ==
  ASSUME DraftsInv, RowsAdvance, NEW c \in Calls, SameRequest(c)
  PROVE  /\ intents'[call[c].id] = intents[call[c].id] => Change(c)' = Change(c)
         /\ intents'[call[c].id] # intents[call[c].id] => Change(c)' = None
<1>1. Wanted(c)' = Wanted(c) /\ call'[c].id = call[c].id /\ call'[c].op = call[c].op
  BY DEF Wanted, SameRequest
<1>2. Pending(c)' => Pending(c) /\ intents'[call[c].id] = intents[call[c].id]
  BY PendingKept
<1>3. intents'[call[c].id] = intents[call[c].id] => (Pending(c)' <=> Pending(c))
  BY DEF Pending, SameRequest
<1> QED
  BY <1>1, <1>2, <1>3 DEF Change

\* A change names a page that exists.
LEMMA ChangeKey ==
  ASSUME DraftsInv, NEW c \in Calls, Change(c) # None
  PROVE  Pending(c) /\ Change(c).key = call[c].id
BY DEF Change

\* A request that can be made is a change.
LEMMA PendingIsChange ==
  ASSUME DraftsInv, NEW c \in Calls, Pending(c)
  PROVE  Change(c) # None
<1>1. call[c] \in CallRows /\ call[c].id \in Keys
  BY PendingFacts, Types DEF DraftsInv
<1>2. call[c].input \in Drafts /\ call[c].known \in Drafts
  BY <1>1 DEF CallRows
<1>3. Wanted(c) \in Drafts
  BY <1>2 DEF Wanted, Drafts
<1>4. \A stage \in {"draft", "complete"} :
        [key |-> call[c].id, stage |-> stage, answers |-> Wanted(c)] \in Changes
  BY <1>1, <1>3 DEF Changes
<1> QED
  BY <1>4, NoneIsNoChange DEF Change

\* Nothing is asked for at first.
LEMMA IntakeInitRefines == DraftsInit => Abstract!IntakeInit
<1> SUFFICES ASSUME DraftsInit PROVE Abstract!IntakeInit
  OBVIOUS
<1>1. \A k \in Keys : Page(k) = [stage |-> "none", answers |-> Unanswered]
  BY DEF DraftsInit, Page, Created
<1>2. \A c \in Calls : Change(c) = None
  BY NoCallFacts DEF DraftsInit, Change, Pending
<1> QED
  BY <1>1, <1>2 DEF Abstract!IntakeInit, Abstract!Blank, Unanswered

\* The pages and the changes, one by one.
LEMMA WriteRefines ==
  ASSUME NEW written, NEW next,
         \A k \in Keys : Page(k)' = IF k \in written THEN next[k] ELSE Page(k),
         \A c \in Calls : Change(c)' = IF Change(c) # None /\ Change(c).key \in written
                                       THEN None ELSE Change(c)
  PROVE  Abstract!Write(written, next)
BY DEF Abstract!Write

LEMMA NothingChanges ==
  ASSUME \A k \in Keys : Page(k)' = Page(k), \A c \in Calls : Change(c)' = Change(c)
  PROVE  [Abstract!IntakeNext]_(Abstract!intakeVars)
BY DEF Abstract!intakeVars

\* While no row is written every page stays, and so does the change of a request that does
\* not move.
LEMMA PagesKept ==
  ASSUME DraftsInv, RowsAdvance, UNCHANGED intents
  PROVE  /\ \A k \in Keys : Page(k)' = Page(k)
         /\ \A c \in Calls : SameRequest(c) => Change(c)' = Change(c)
<1>1. \A k \in Keys : Page(k)' = Page(k)
  BY DEF Page, Created
<1> QED
  BY <1>1, ChangeKept

\* A request that moves without a write keeps its change, or drops it.
LEMMA ServedQuietly ==
  ASSUME DraftsInv, RowsAdvance, UNCHANGED intents, NEW c \in Calls,
         \A d \in Calls \ {c} : call'[d] = call[d], Change(c)' \in {Change(c), None}
  PROVE  [Abstract!IntakeNext]_(Abstract!intakeVars)
<1>1. \A k \in Keys : Page(k)' = Page(k)
  BY PagesKept
<1>2. \A d \in Calls \ {c} : Change(d)' = Change(d)
  BY PagesKept DEF SameRequest
<1>3. CASE Change(c)' = Change(c)
  BY <1>1, <1>2, <1>3, NothingChanges
<1>4. CASE Change(c) # None /\ Change(c)' = None
  <2>1. [d \in Calls |-> Change(d)]' = [[d \in Calls |-> Change(d)] EXCEPT ![c] = None]
    <3>1. \A d \in Calls : Change(d)' = IF d = c THEN None ELSE Change(d)
      BY <1>2, <1>4
    <3> QED
      BY <3>1
  <2>2. [k \in Keys |-> Page(k)]' = [k \in Keys |-> Page(k)]
    BY <1>1
  <2>3. [d \in Calls |-> Change(d)][c] # None
    BY <1>4
  <2>4. Abstract!Drop(c)
    BY <2>1, <2>2, <2>3 DEF Abstract!Drop
  <2> QED
    BY <2>4 DEF Abstract!IntakeNext
<1> QED
  BY <1>3, <1>4

\* A write of some rows voids what was asked of their pages.
LEMMA RowsWritten ==
  ASSUME DraftsInv, RowsAdvance, NEW written \in SUBSET Keys, NEW next,
         \A k \in written : Page(k)' = next[k] /\ intents'[k] # intents[k],
         \A k \in Keys \ written : intents'[k] = intents[k],
         \A c \in Calls : SameRequest(c) \/ (~Pending(c)' /\ call[c].id \in written)
  PROVE  Abstract!Write(written, next)
<1>1. \A k \in Keys : Page(k)' = IF k \in written THEN next[k] ELSE Page(k)
  <2> SUFFICES ASSUME NEW k \in Keys
               PROVE  Page(k)' = IF k \in written THEN next[k] ELSE Page(k)
    OBVIOUS
  <2>1. k \notin written => Page(k)' = Page(k)
    BY DEF Page, Created
  <2> QED
    BY <2>1
<1>2. ASSUME NEW c \in Calls
      PROVE  Change(c)' = IF Change(c) # None /\ Change(c).key \in written
                          THEN None ELSE Change(c)
  <2>1. CASE ~SameRequest(c)
    <3>1. Change(c)' = None
      BY <2>1 DEF Change
    <3>2. Change(c) # None => Change(c).key \in written
      BY <2>1, ChangeKey
    <3> QED
      BY <3>1, <3>2
  <2>2. CASE SameRequest(c)
    <3>1. CASE Change(c) = None
      BY <2>2, <3>1, ChangeKept
    <3>2. CASE Change(c) # None
      <4>1. Change(c).key = call[c].id /\ call[c].id \in Keys
        BY <3>2, ChangeKey, PendingFacts
      <4> QED
        BY <2>2, <3>2, <4>1, ChangeKept
    <3> QED
      BY <3>1, <3>2
  <2> QED
    BY <2>1, <2>2
<1> QED
  BY <1>1, <1>2, WriteRefines

\* A tab that asks while its version is the row's asks for a change of the page; one that is
\* behind asks for nothing that can be made.
LEMMA SendChangeRefines ==
  ASSUME DraftsInv, RowsAdvance, NEW c \in Calls, NEW t \in Tabs, NEW op \in {"patch", "complete"},
         NEW input \in Drafts, op = "complete" => input \in Complete,
         SendChange(c, t, op, input)
  PROVE  [Abstract!IntakeNext]_(Abstract!intakeVars)
<1> DEFINE k == tab[t].id
           next == [NoCall EXCEPT !.step = "read", !.op = op, !.id = k, !.input = input,
                      !.expected = tab[t].version, !.known = tab[t].draft, !.tab = t, !.at = clock]
<1>1. /\ UNCHANGED intents /\ call[c] = NoCall /\ call' = [call EXCEPT ![c] = next]
      /\ k \in Keys /\ Created(k) /\ Shown(k, tab[t].version, tab[t].draft)
  BY DEF SendChange, Send, DraftsInv, TabOK, Shown
<1>2. /\ next.step = "read" /\ next.op = op /\ next.id = k /\ next.input = input
      /\ next.expected = tab[t].version /\ next.known = tab[t].draft
  BY DEF NoCall
<1>3. call'[c] = next /\ \A d \in Calls \ {c} : call'[d] = call[d]
  BY <1>1 DEF DraftsInv, DraftsTypeOK
<1> HIDE DEF next
<1>4. Change(c) = None
  BY <1>1, NoCallFacts DEF Change, Pending
<1>5. CASE ~Pending(c)'
  BY <1>1, <1>3, <1>5, ServedQuietly DEF Change
<1>6. CASE Pending(c)'
  <2>1. intents[k].status = "draft" /\ intents[k].draft = tab[t].draft
    BY <1>1, <1>2, <1>3, <1>6 DEF Pending, Shown
  <2>2. Page(k) = [stage |-> "draft", answers |-> tab[t].draft]
    BY <1>1, <2>1 DEF Page
  <2>3. Page(k).stage = "draft" /\ Page(k).answers = tab[t].draft
    BY <2>2
  <2> DEFINE stage == IF op = "patch" THEN "draft" ELSE "complete"
  <2>4. Change(c)' = [key |-> k, stage |-> stage,
                      answers |-> [x \in Sections |->
                        IF input[x] = None THEN tab[t].draft[x] ELSE input[x]]]
    BY <1>2, <1>3, <1>6 DEF Change, Wanted
  <2>5. stage = "complete" => \A x \in Sections : input[x] # None
    BY NoneIsNoKey DEF Complete
  <2>6. /\ \A j \in Keys : Page(j)' = Page(j)
        /\ \A d \in Calls \ {c} : Change(d)' = Change(d)
    BY <1>1, <1>3, PagesKept DEF SameRequest
  <2>7. stage \in {"draft", "complete"} /\ input \in Abstract!Answers
    BY DEF Abstract!Answers, Drafts
  <2> HIDE DEF stage
  <2>8. Abstract!Ask(c, k, stage, input)
    BY <1>1, <1>4, <2>3, <2>4, <2>5, <2>6 DEF Abstract!Ask
  <2> QED
    BY <1>1, <2>7, <2>8 DEF Abstract!IntakeNext
<1> QED
  BY <1>5, <1>6

\* A step of a client.
LEMMA ClientRefines ==
  ASSUME DraftsInv, RowsAdvance, ClientNext
  PROVE  [Abstract!IntakeNext]_(Abstract!intakeVars)
<1>1. call \in [Calls -> CallRows]
  BY DEF DraftsInv, DraftsTypeOK
<1>2. ASSUME NEW c \in Calls, NEW t \in Tabs, NEW input \in Drafts,
             SendChange(c, t, "patch", input)
      PROVE  [Abstract!IntakeNext]_(Abstract!intakeVars)
  BY <1>2, SendChangeRefines
<1>3. ASSUME NEW c \in Calls, NEW t \in Tabs, NEW input \in Complete,
             SendChange(c, t, "complete", input)
      PROVE  [Abstract!IntakeNext]_(Abstract!intakeVars)
  <2>1. input \in Drafts
    BY DEF Complete, Drafts
  <2> QED
    BY <1>3, <2>1, SendChangeRefines
<1>4. ASSUME NEW c \in Calls, NEW t \in Tabs, NEW k \in Keys,
             SendLoad(c, t, k) \/ \E locale \in Locales : SendCreate(c, t, k, locale)
      PROVE  [Abstract!IntakeNext]_(Abstract!intakeVars)
  <2>1. PICK request \in CallRows :
          request.op \in {"load", "create"} /\ Send(c, t, request) /\ UNCHANGED intents
    <3>1. CASE SendLoad(c, t, k)
      <4>1. [NoCall EXCEPT !.step = "read", !.op = "load", !.id = k] \in CallRows
        BY DEF NoCall, CallRows, Unanswered, Drafts
      <4>2. [NoCall EXCEPT !.step = "read", !.op = "load", !.id = k].op = "load"
        BY DEF NoCall
      <4> QED
        BY <3>1, <4>1, <4>2 DEF SendLoad
    <3>2. CASE \E locale \in Locales : SendCreate(c, t, k, locale)
      <4>1. PICK locale \in Locales : SendCreate(c, t, k, locale)
        BY <3>2
      <4>2. [NoCall EXCEPT !.step = "lock", !.op = "create", !.id = k, !.locale = locale] \in CallRows
        BY DEF NoCall, CallRows, Unanswered, Drafts
      <4>3. [NoCall EXCEPT !.step = "lock", !.op = "create", !.id = k, !.locale = locale].op = "create"
        BY DEF NoCall
      <4> QED
        BY <4>1, <4>2, <4>3 DEF SendCreate
    <3> QED
      BY <1>4, <3>1, <3>2
  <2>2. call'[c].op \in {"load", "create"} /\ \A d \in Calls \ {c} : call'[d] = call[d]
    BY <1>1, <2>1 DEF Send, CallRows
  <2>3. Change(c)' = None
    BY <2>2 DEF Change, Pending
  <2> QED
    BY <2>1, <2>2, <2>3, ServedQuietly
<1>5. ASSUME NEW c \in Calls, Lost(c)
      PROVE  [Abstract!IntakeNext]_(Abstract!intakeVars)
  <2>1. (\A d \in Calls : SameRequest(d)) /\ UNCHANGED intents
    BY <1>1, <1>5 DEF Lost, SameRequest, CallRows
  <2> QED
    BY <2>1, PagesKept, NothingChanges
<1>6. ASSUME NEW t \in Tabs, Reload(t)
      PROVE  [Abstract!IntakeNext]_(Abstract!intakeVars)
  <2>1. (\A d \in Calls : SameRequest(d)) /\ UNCHANGED intents
    BY <1>1, <1>6 DEF Reload, SameRequest, CallRows
  <2> QED
    BY <2>1, PagesKept, NothingChanges
<1> QED
  BY <1>2, <1>3, <1>4, <1>5, <1>6 DEF ClientNext

\* A request that ends asks for nothing any more.
LEMMA EndedCall ==
  ASSUME DraftsInv, NEW c \in Calls, call' = [call EXCEPT ![c] = NoCall]
  PROVE  /\ \A d \in Calls \ {c} : call'[d] = call[d] /\ SameRequest(d)
         /\ ~Pending(c)' /\ Change(c)' = None
<1>1. call'[c] = NoCall /\ \A d \in Calls \ {c} : call'[d] = call[d]
  BY DEF DraftsInv, DraftsTypeOK
<1>2. ~Pending(c)'
  BY <1>1, NoCallFacts DEF Pending
<1> QED
  BY <1>1, <1>2 DEF Change, SameRequest

\* The merge is what the tab meant, if it can still be saved.
LEMMA ReadKeepsChange ==
  ASSUME DraftsInv, NEW c \in Calls, ReadForChange(c)
  PROVE  Change(c)' = Change(c) /\ SaveOK(c)'
<1> DEFINE k == call[c].id
           input == IF call[c].op = "patch" THEN Overlay(intents[k].draft, call[c].input)
                    ELSE call[c].input
           next == [call[c] EXCEPT !.step = "save", !.at = clock, !.input = input]
<1>1. /\ call[c] \in CallRows /\ call[c].step = "read" /\ CallOK(c)
      /\ call[c].op \in {"patch", "complete"} /\ k \in Keys /\ UNCHANGED intents
  <2>1. call[c] \in CallRows /\ call[c].step = "read" /\ CallOK(c) /\ UNCHANGED intents
    BY Types DEF DraftsInv, ReadForChange, Reading
  <2>2. call[c].op # "load" /\ k \in Keys
    BY <2>1 DEF ReadForChange, CallOK
  <2> QED
    BY <2>1, <2>2 DEF CallOK
<1>2. call' = [call EXCEPT ![c] = next]
  BY DEF ReadForChange
<1> HIDE DEF input
<1>3. /\ next.step = "save" /\ next.op = call[c].op /\ next.id = k /\ next.input = input
      /\ next.expected = call[c].expected /\ next.known = call[c].known
  BY <1>1 DEF CallRows
<1> HIDE DEF next
<1>4. call'[c] = next
  BY <1>2 DEF DraftsInv, DraftsTypeOK
<1>5. Pending(c)' <=> Pending(c)
  BY <1>1, <1>3, <1>4 DEF Pending
<1>6. ASSUME Pending(c) PROVE Wanted(c)' = Wanted(c) /\ Wanted(c) = input
  <2>1. call[c].known = intents[k].draft
    BY <1>6, PendingFacts
  <2>2. call[c].input \in Drafts /\ call[c].known \in Drafts
    BY <1>1 DEF CallRows
  <2>3. CASE call[c].op = "patch"
    <3>1. Wanted(c) = input
      BY <2>1, <2>3 DEF Wanted, Overlay, input
    <3>2. \A x \in Sections : input[x] = None => call[c].known[x] = None
      BY <2>1, <2>3 DEF Overlay, input
    <3>3. Wanted(c)' = [x \in Sections |-> IF input[x] = None THEN call[c].known[x] ELSE input[x]]
      BY <1>3, <1>4 DEF Wanted
    <3>4. Wanted(c)' = [x \in Sections |-> input[x]]
      BY <3>2, <3>3
    <3>5. input = [x \in Sections |-> input[x]]
      BY <2>3 DEF Overlay, input
    <3> QED
      BY <3>1, <3>4, <3>5
  <2>4. CASE call[c].op = "complete"
    <3>1. input = call[c].input /\ input \in Complete
      BY <1>1, <2>4 DEF CallOK, input
    <3>2. Wanted(c)' = Wanted(c)
      BY <1>3, <1>4, <3>1 DEF Wanted
    <3>3. Wanted(c) = [x \in Sections |-> input[x]]
      BY <3>1, NoneIsNoKey DEF Wanted, Complete
    <3> QED
      BY <3>1, <3>2, <3>3 DEF Complete
  <2> QED
    BY <1>1, <2>3, <2>4
<1>7. Change(c)' = Change(c)
  BY <1>3, <1>4, <1>5, <1>6 DEF Change
<1> QED
  BY <1>3, <1>4, <1>5, <1>6, <1>7 DEF SaveOK

\* A draft is created: its page is opened.
LEMMA CreateCommitsRefines ==
  ASSUME DraftsInv, RowsAdvance, NEW c \in Calls, CreateCommits(c)
  PROVE  Abstract!IntakeNext
<1>1. PICK k \in Keys : k = call[c].id /\ ~Created(k)
  BY DEF CreateCommits, DraftsInv, CallOK
<1>2. PICK now \in call[c].at .. clock :
        intents' = [intents EXCEPT ![k] =
          [status |-> "draft", version |-> 1, locale |-> call[c].locale, created |-> now,
           draft |-> Unanswered, snapshot |-> None, subject |-> "none", consents |-> 0]]
  BY <1>1 DEF CreateCommits
<1>3. call' = [call EXCEPT ![c] = NoCall]
  BY DEF CreateCommits, Answer
<1>4. /\ \A j \in Keys \ {k} : intents'[j] = intents[j]
      /\ intents'[k].status = "draft" /\ intents'[k].draft = Unanswered
  BY <1>2 DEF DraftsInv, DraftsTypeOK
<1>5. intents'[k] # None
  <2>1. call[c].at \in Nat /\ clock \in Nat /\ call[c].locale \in Locales
    BY Types DEF DraftsInv, CallRows, CallOK, CreateCommits
  <2>2. now \in Nat /\ Unanswered \in Drafts
    BY <2>1 DEF Unanswered, Drafts
  <2>3. [status |-> "draft", version |-> 1, locale |-> call[c].locale, created |-> now,
         draft |-> Unanswered, snapshot |-> None, subject |-> "none", consents |-> 0] \in IntentRows
    BY <2>1, <2>2 DEF IntentRows
  <2> QED
    BY <1>2, <2>3, NoneIsNoRow DEF DraftsInv, DraftsTypeOK
<1>6. Page(k) = [stage |-> "none", answers |-> Unanswered]
  BY <1>1 DEF Page
<1>7. Page(k)' = [stage |-> "draft", answers |-> Unanswered]
  BY <1>4, <1>5 DEF Page, Created
<1>8. \A d \in Calls : SameRequest(d) \/ (~Pending(d)' /\ call[d].id \in {k})
  BY <1>1, <1>3, EndedCall
<1>9. Abstract!Write({k}, [key \in {k} |-> [stage |-> "draft", answers |-> Abstract!Blank]])
  <2>1. Abstract!Blank = Unanswered
    BY DEF Abstract!Blank, Unanswered
  <2>2. \A j \in {k} : Page(j)' = [key \in {k} |-> [stage |-> "draft", answers |-> Unanswered]][j]
    BY <1>7
  <2>3. \A j \in {k} : intents'[j] # intents[j]
    BY <1>1, <1>5 DEF Created
  <2> QED
    BY <1>4, <1>8, <2>1, <2>2, <2>3, RowsWritten
<1>10. Abstract!Open(k)
  BY <1>6, <1>9 DEF Abstract!Open
<1> QED
  BY <1>10 DEF Abstract!IntakeNext

\* A save or a completion makes the change that was asked for.
LEMMA ChangeRefines ==
  ASSUME DraftsInv, RowsAdvance, NEW c \in Calls, SaveOK(c), SaveDraft(c) \/ CompleteIntent(c)
  PROVE  Abstract!IntakeNext
<1>1. PICK k \in Keys : k = call[c].id /\ Created(k)
  BY DEF SaveDraft, CompleteIntent, Saving, DraftsInv, CallOK
<1>2. Pending(c) /\ call[c].step = "save"
  BY DEF SaveDraft, CompleteIntent, Saving, Unchanged, Pending
<1>3. Wanted(c) = call[c].input
  BY <1>2 DEF SaveOK
<1> DEFINE stage == IF call[c].op = "patch" THEN "draft" ELSE "complete"
<1>4. Change(c) = [key |-> k, stage |-> stage, answers |-> call[c].input]
  BY <1>1, <1>2, <1>3 DEF Change
<1>5. Change(c) # None
  BY <1>2, PendingIsChange
<1>6. call' = [call EXCEPT ![c] = NoCall]
  BY DEF SaveDraft, CompleteIntent, Answer
<1>7. intents[k] \in IntentRows /\ intents \in [Keys -> IntentRows \cup {None}]
  BY <1>1, Types DEF DraftsInv, DraftsTypeOK
<1>8. /\ \A j \in Keys \ {k} : intents'[j] = intents[j]
      /\ intents'[k].version = intents[k].version + 1
  <2>1. CASE SaveDraft(c)
    BY <1>1, <1>7, <2>1 DEF SaveDraft, IntentRows
  <2>2. CASE CompleteIntent(c)
    BY <1>1, <1>7, <2>2 DEF CompleteIntent, IntentRows
  <2> QED
    BY <2>1, <2>2
<1>9. intents'[k] # intents[k]
  BY <1>7, <1>8 DEF IntentRows
<1>10. Created(k)'
  BY <1>1 DEF RowsAdvance
<1>11. Page(k)' = [stage |-> stage, answers |-> call[c].input]
  <2>1. CASE SaveDraft(c)
    <3>1. intents'[k].status = "draft" /\ intents'[k].draft = call[c].input /\ call[c].op = "patch"
      BY <1>1, <1>7, <2>1 DEF SaveDraft, Saving, Unchanged, IntentRows
    <3> QED
      BY <1>10, <3>1 DEF Page
  <2>2. CASE CompleteIntent(c)
    <3>1. /\ intents'[k].status = "complete" /\ intents'[k].snapshot = call[c].input
          /\ call[c].op = "complete"
      BY <1>1, <1>7, <2>2 DEF CompleteIntent, Saving, IntentRows
    <3> QED
      BY <1>10, <3>1 DEF Page
  <2> QED
    BY <2>1, <2>2
<1> HIDE DEF stage
<1>12. Abstract!Write({k}, [key \in {k} |-> [stage |-> stage, answers |-> call[c].input]])
  <2>1. \A d \in Calls : SameRequest(d) \/ (~Pending(d)' /\ call[d].id \in {k})
    BY <1>1, <1>6, EndedCall
  <2>2. \A j \in {k} :
          Page(j)' = [key \in {k} |-> [stage |-> stage, answers |-> call[c].input]][j]
    BY <1>11
  <2> QED
    BY <1>8, <1>9, <2>1, <2>2, RowsWritten
<1>13. Change(c).key = k /\ Change(c).stage = stage /\ Change(c).answers = call[c].input
  BY <1>4
<1>14. Abstract!Make(c)
  BY <1>5, <1>12, <1>13 DEF Abstract!Make
<1> QED
  BY <1>14 DEF Abstract!IntakeNext

\* An order buys what was completed.
LEMMA CheckoutRefines ==
  ASSUME DraftsInv, RowsAdvance, NEW k \in Keys, NEW now \in Times, Checkout(k, now)
  PROVE  Abstract!IntakeNext
<1>1. /\ intents[k] \in IntentRows /\ Created(k) /\ intents[k].status = "complete"
      /\ intents \in [Keys -> IntentRows \cup {None}] /\ UNCHANGED call
  BY Types DEF Checkout, DraftsInv, DraftsTypeOK
<1>2. /\ \A j \in Keys \ {k} : intents'[j] = intents[j]
      /\ intents'[k].status = "checkout_created" /\ intents'[k].snapshot = intents[k].snapshot
  BY <1>1 DEF Checkout, IntentRows
<1>3. Created(k)'
  BY <1>1 DEF RowsAdvance
<1>4. Page(k) = [stage |-> "complete", answers |-> intents[k].snapshot]
  BY <1>1 DEF Page
<1>5. Page(k)' = [stage |-> "bought", answers |-> intents[k].snapshot]
  BY <1>2, <1>3 DEF Page
<1>6. Page(k)' = [Page(k) EXCEPT !.stage = "bought"]
  BY <1>4, <1>5
<1>7. \A d \in Calls : SameRequest(d)
  BY <1>1 DEF SameRequest
<1>8. Abstract!Write({k}, [key \in {k} |-> [Page(k) EXCEPT !.stage = "bought"]])
  <2>1. \A j \in {k} : Page(j)' = [key \in {k} |-> [Page(k) EXCEPT !.stage = "bought"]][j]
    BY <1>6
  <2>2. \A j \in {k} : intents'[j] # intents[j]
    BY <1>1, <1>2
  <2> QED
    BY <1>2, <1>7, <2>1, <2>2, RowsWritten
<1>9. Page(k).stage = "complete"
  BY <1>4
<1>10. Abstract!Buy(k)
  BY <1>8, <1>9 DEF Abstract!Buy
<1> QED
  BY <1>10 DEF Abstract!IntakeNext

\* A capture changes nothing of the page.
LEMMA PayRefines ==
  ASSUME DraftsInv, RowsAdvance, NEW k \in Keys, Pay(k)
  PROVE  [Abstract!IntakeNext]_(Abstract!intakeVars)
<1>1. /\ intents[k] \in IntentRows /\ Created(k) /\ intents[k].status = "checkout_created"
      /\ intents \in [Keys -> IntentRows \cup {None}] /\ UNCHANGED call
  BY Types DEF Pay, DraftsInv, DraftsTypeOK
<1>2. /\ \A j \in Keys \ {k} : intents'[j] = intents[j]
      /\ intents'[k].status = "converted" /\ intents'[k].snapshot = intents[k].snapshot
  BY <1>1 DEF Pay, IntentRows
<1>3. Created(k)'
  BY <1>1 DEF RowsAdvance
<1>4. Page(k)' = Page(k)
  BY <1>1, <1>2, <1>3 DEF Page
<1>5. \A j \in Keys : Page(j)' = Page(j)
  <2>1. \A j \in Keys \ {k} : Page(j)' = Page(j)
    BY <1>2 DEF Page, Created
  <2> QED
    BY <1>4, <2>1
<1>6. ASSUME NEW d \in Calls PROVE Change(d)' = Change(d)
  <2>1. SameRequest(d)
    BY <1>1 DEF SameRequest
  <2>2. CASE call[d].id = k
    BY <1>1, <1>2, <2>1, <2>2 DEF Change, Pending, SameRequest
  <2>3. CASE call[d].id # k
    <3>1. CASE Change(d) = None
      BY <2>1, <3>1, ChangeKept
    <3>2. CASE Change(d) # None
      BY <1>2, <2>1, <2>3, <3>2, ChangeKept, ChangeKey, PendingFacts
    <3> QED
      BY <3>1, <3>2
  <2> QED
    BY <2>2, <2>3
<1> QED
  BY <1>5, <1>6, NothingChanges

\* Maintenance erases pages that were not bought.
LEMMA ExpireRefines ==
  ASSUME DraftsInv, RowsAdvance, NEW S \in SUBSET Keys, NEW now \in Times,
         ExpireDueDrafts(S, now)
  PROVE  Abstract!IntakeNext
<1>1. /\ UNCHANGED call /\ S # {} /\ \A k \in S : Due(k, now)
      /\ intents' = [k \in Keys |-> IF k \in S THEN Tombstone(intents[k]) ELSE intents[k]]
  BY DEF ExpireDueDrafts
<1>2. ASSUME NEW k \in S
      PROVE  /\ Page(k).stage \in {"draft", "complete"}
             /\ Page(k)' = [stage |-> "erased", answers |-> Unanswered]
             /\ intents'[k] # intents[k]
  <2>1. Created(k) /\ intents[k].status \in {"draft", "complete"} /\ intents[k] \in IntentRows
    BY <1>1, Types DEF Due, DraftsInv
  <2>2. intents'[k] = Tombstone(intents[k])
    BY <1>1
  <2>3. intents'[k].status = "expired" /\ intents'[k].draft = Unanswered
    BY <2>1, <2>2, TombstoneFacts
  <2>4. Created(k)'
    BY <2>1 DEF RowsAdvance
  <2>5. Page(k)' = [stage |-> "erased", answers |-> Unanswered]
    BY <2>3, <2>4 DEF Page
  <2>6. Page(k).stage \in {"draft", "complete"}
    BY <2>1 DEF Page
  <2> QED
    BY <2>1, <2>3, <2>5, <2>6
<1>3. \A k \in Keys \ S : intents'[k] = intents[k]
  BY <1>1
<1>4. \A d \in Calls : SameRequest(d)
  BY <1>1 DEF SameRequest
<1>5. Abstract!Write(S, [k \in S |-> [stage |-> "erased", answers |-> Abstract!Blank]])
  <2>1. Abstract!Blank = Unanswered
    BY DEF Abstract!Blank, Unanswered
  <2>2. \A k \in S : Page(k)' = [j \in S |-> [stage |-> "erased", answers |-> Unanswered]][k]
    BY <1>2
  <2>3. \A k \in S : intents'[k] # intents[k]
    BY <1>2
  <2> QED
    BY <1>3, <1>4, <2>1, <2>2, <2>3, RowsWritten
<1>6. \A k \in S : [j \in Keys |-> Page(j)][k].stage \in {"draft", "complete"}
  BY <1>2
<1>7. Abstract!Erase(S)
  BY <1>1, <1>5, <1>6 DEF Abstract!Erase
<1> QED
  BY <1>7 DEF Abstract!IntakeNext

\* A step of the server.
LEMMA ServerRefines ==
  ASSUME DraftsInv, RowsAdvance, NEW c \in Calls, SaveOK(c),
         \/ CreateRefused(c) \/ CreateReplayed(c) \/ CreateBegins(c) \/ CreateCommits(c)
         \/ ReadRefused(c) \/ Load(c) \/ ReadForChange(c)
         \/ SaveDraft(c) \/ CompleteIntent(c) \/ SaveRefused(c)
         \/ Abort(c)
  PROVE  [Abstract!IntakeNext]_(Abstract!intakeVars)
<1>1. CASE CreateCommits(c)
  BY <1>1, CreateCommitsRefines
<1>2. CASE SaveDraft(c) \/ CompleteIntent(c)
  BY <1>2, ChangeRefines
<1>3. CASE ReadForChange(c)
  <2>1. UNCHANGED intents /\ \A d \in Calls \ {c} : call'[d] = call[d]
    BY <1>3 DEF ReadForChange, DraftsInv, DraftsTypeOK
  <2>2. Change(c)' = Change(c)
    BY <1>3, ReadKeepsChange
  <2> QED
    BY <2>1, <2>2, ServedQuietly
<1>4. CASE CreateBegins(c)
  <2>1. /\ UNCHANGED intents /\ call \in [Calls -> CallRows]
        /\ call' = [call EXCEPT ![c].step = "insert", ![c].until = call[c].at + KeyWindow,
                                ![c].at = clock]
    BY <1>4 DEF CreateBegins, DraftsInv, DraftsTypeOK
  <2>2. call'[c].step = "insert" /\ \A d \in Calls \ {c} : call'[d] = call[d]
    BY <2>1 DEF CallRows
  <2>3. Change(c)' = None
    BY <2>2 DEF Change, Pending
  <2> QED
    BY <2>1, <2>2, <2>3, ServedQuietly
<1>5. CASE CreateRefused(c) \/ CreateReplayed(c) \/ ReadRefused(c) \/ Load(c) \/ SaveRefused(c)
           \/ Abort(c)
  <2>1. UNCHANGED intents /\ call' = [call EXCEPT ![c] = NoCall]
    BY <1>5 DEF CreateRefused, CreateReplayed, ReadRefused, Load, SaveRefused, Abort, Refuse, Answer
  <2> QED
    BY <2>1, EndedCall, ServedQuietly
<1> QED
  BY <1>1, <1>2, <1>3, <1>4, <1>5

\* Every step is one of an intake, or none.
LEMMA IntakeNextRefines ==
  PagesInv /\ [DraftsNext]_draftVars => [Abstract!IntakeNext]_(Abstract!intakeVars)
<1> SUFFICES ASSUME PagesInv, [DraftsNext]_draftVars
             PROVE  [Abstract!IntakeNext]_(Abstract!intakeVars)
  OBVIOUS
<1>1. DraftsInv /\ RowsAdvance /\ \A c \in Calls : SaveOK(c)
  BY StepAdvances DEF PagesInv
<1>2. CASE ServerNext
  BY <1>1, <1>2, ServerRefines DEF ServerNext
<1>3. CASE Tick \/ UNCHANGED draftVars
  <2>1. UNCHANGED intents /\ \A c \in Calls : SameRequest(c)
    BY <1>3 DEF Tick, draftVars, SameRequest
  <2> QED
    BY <1>1, <2>1, PagesKept, NothingChanges
<1> QED
  BY <1>1, <1>2, <1>3, ClientRefines, CheckoutRefines, PayRefines, ExpireRefines DEF DraftsNext

\* A request gets to its save by reading the row.
LEMMA SavesAreRead ==
  ASSUME DraftsInv, [DraftsNext]_draftVars, NEW d \in Calls
  PROVE  SameRequest(d) \/ call'[d].step # "save" \/ ReadForChange(d)
<1>1. call \in [Calls -> CallRows]
  BY DEF DraftsInv, DraftsTypeOK
<1>2. ASSUME NEW c \in Calls, call' = [call EXCEPT ![c] = NoCall]
      PROVE  SameRequest(d) \/ call'[d].step # "save"
  BY <1>1, <1>2, NoCallFacts DEF SameRequest
<1>3. CASE ClientNext
  <2>1. ASSUME NEW c \in Calls, NEW t \in Tabs, NEW request \in CallRows,
               request.step \in {"lock", "read"}, Send(c, t, request)
        PROVE  SameRequest(d) \/ call'[d].step # "save"
    BY <1>1, <2>1 DEF Send, SameRequest, CallRows
  <2>2. ASSUME NEW c \in Calls, NEW t \in Tabs, NEW k \in Keys, NEW locale \in Locales,
               SendCreate(c, t, k, locale)
        PROVE  SameRequest(d) \/ call'[d].step # "save"
    <3> DEFINE request == [NoCall EXCEPT !.step = "lock", !.op = "create", !.id = k,
                                         !.locale = locale]
    <3>1. request \in CallRows /\ request.step = "lock"
      BY DEF NoCall, CallRows, Unanswered, Drafts
    <3>2. Send(c, t, request)
      BY <2>2 DEF SendCreate
    <3> HIDE DEF request
    <3> QED
      BY <2>1, <3>1, <3>2
  <2>3. ASSUME NEW c \in Calls, NEW t \in Tabs, NEW k \in Keys, SendLoad(c, t, k)
        PROVE  SameRequest(d) \/ call'[d].step # "save"
    <3> DEFINE request == [NoCall EXCEPT !.step = "read", !.op = "load", !.id = k]
    <3>1. request \in CallRows /\ request.step = "read"
      BY DEF NoCall, CallRows, Unanswered, Drafts
    <3>2. Send(c, t, request)
      BY <2>3 DEF SendLoad
    <3> HIDE DEF request
    <3> QED
      BY <2>1, <3>1, <3>2
  <2>4. ASSUME NEW c \in Calls, NEW t \in Tabs, NEW op \in {"patch", "complete"},
               NEW input \in Drafts, SendChange(c, t, op, input)
        PROVE  SameRequest(d) \/ call'[d].step # "save"
    <3> DEFINE request == [NoCall EXCEPT !.step = "read", !.op = op, !.id = tab[t].id,
                             !.input = input, !.expected = tab[t].version, !.known = tab[t].draft]
    <3>1. tab[t] \in TabRows
      BY Types DEF DraftsInv
    <3>2. request \in CallRows /\ request.step = "read"
      BY <3>1 DEF NoCall, CallRows, TabRows, Unanswered, Drafts
    <3>3. Send(c, t, request)
      BY <2>4 DEF SendChange
    <3> HIDE DEF request
    <3> QED
      BY <2>1, <3>2, <3>3
  <2>5. \A input \in Complete : input \in Drafts
    BY DEF Complete, Drafts
  <2>6. ASSUME NEW c \in Calls, Lost(c) PROVE SameRequest(d)
    BY <1>1, <2>6 DEF Lost, SameRequest, CallRows
  <2>7. ASSUME NEW t \in Tabs, Reload(t) PROVE SameRequest(d)
    BY <1>1, <2>7 DEF Reload, SameRequest, CallRows
  <2> QED
    BY <1>3, <2>2, <2>3, <2>4, <2>5, <2>6, <2>7 DEF ClientNext
<1>4. CASE ServerNext
  <2> SUFFICES ASSUME NEW c \in Calls,
                 \/ CreateRefused(c) \/ CreateReplayed(c) \/ CreateBegins(c) \/ CreateCommits(c)
                 \/ ReadRefused(c) \/ Load(c) \/ ReadForChange(c)
                 \/ SaveDraft(c) \/ CompleteIntent(c) \/ SaveRefused(c)
                 \/ Abort(c)
               PROVE  SameRequest(d) \/ call'[d].step # "save" \/ ReadForChange(d)
    BY <1>4 DEF ServerNext
  <2>1. CASE ReadForChange(c)
    <3>1. d # c => SameRequest(d)
      BY <1>1, <2>1 DEF ReadForChange, SameRequest
    <3> QED
      BY <2>1, <3>1
  <2>2. CASE CreateBegins(c)
    BY <1>1, <2>2 DEF CreateBegins, SameRequest, CallRows
  <2>3. CASE ~ReadForChange(c) /\ ~CreateBegins(c)
    <3>1. call' = [call EXCEPT ![c] = NoCall]
      BY <2>3 DEF CreateRefused, CreateReplayed, CreateCommits, ReadRefused, Load, SaveDraft,
         CompleteIntent, SaveRefused, Abort, Refuse, Answer
    <3> QED
      BY <1>2, <3>1
  <2> QED
    BY <2>1, <2>2, <2>3
<1>5. CASE UNCHANGED call
  BY <1>5 DEF SameRequest
<1> QED
  BY <1>3, <1>4, <1>5 DEF DraftsNext, Checkout, Pay, ExpireDueDrafts, Tick, draftVars

\* What a request saves stays what was asked for.
LEMMA PagesNextInv ==
  ASSUME PagesInv, [DraftsNext]_draftVars
  PROVE  PagesInv'
<1>1. DraftsInv /\ DraftsInv' /\ RowsAdvance /\ \A c \in Calls : SaveOK(c)
  BY DraftsNextInv, StepAdvances DEF PagesInv
<1>2. ASSUME NEW c \in Calls PROVE SaveOK(c)'
  <2>1. CASE SameRequest(c)
    <3>1. Wanted(c)' = Wanted(c) /\ call'[c].step = call[c].step /\ call'[c].input = call[c].input
      BY <2>1 DEF Wanted, SameRequest
    <3>2. Pending(c)' => Pending(c)
      BY <1>1, <2>1, PendingKept
    <3> QED
      BY <1>1, <3>1, <3>2 DEF SaveOK
  <2>2. CASE call'[c].step # "save"
    BY <2>2 DEF SaveOK
  <2>3. CASE ReadForChange(c)
    BY <1>1, <2>3, ReadKeepsChange
  <2> QED
    BY <1>1, <2>1, <2>2, <2>3, SavesAreRead
<1> QED
  BY <1>1, <1>2 DEF PagesInv

\* What is saved is what was asked for, in every reachable state.
THEOREM SavesAreAsked == DraftsSpec => []PagesInv
<1>1. DraftsInit => PagesInv
  BY DraftsInitInv, NoCallFacts DEF DraftsInit, PagesInv, SaveOK
<1>2. PagesInv /\ [DraftsNext]_draftVars => PagesInv'
  BY PagesNextInv
<1> QED
  BY <1>1, <1>2, PTL DEF DraftsSpec

\* The rows implement an intake whose pages are changed in one step: a change is made to the
\* page it was asked for, once, or not at all.
THEOREM DraftsImplementIntake == DraftsSpec => ImplementsIntake
<1>1. DraftsInit => Abstract!IntakeInit
  BY IntakeInitRefines
<1>2. PagesInv /\ [DraftsNext]_draftVars => [Abstract!IntakeNext]_(Abstract!intakeVars)
  BY IntakeNextRefines
<1> QED
  BY <1>1, <1>2, SavesAreAsked, PTL DEF DraftsSpec, ImplementsIntake, Abstract!IntakeSpec
=============================================================================
