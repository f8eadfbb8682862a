----------------------------- MODULE SignInProofs -----------------------------
(***************************************************************************)
(* What sign-in guarantees for any number of emails, browsers, links and   *)
(* requests: a link opens one session, the mail budget holds, and a link   *)
(* that could be redeemed is not lost.  The argument about the budget is   *)
(* that a deleted row is older than the rolling hour of any request in     *)
(* flight (RowsOK, RequestOK), so that what the statement counts is what   *)
(* was sent.                                                               *)
(***************************************************************************)
EXTENDS SignIn, FiniteSetTheorems, TLAPS

-----------------------------------------------------------------------------
(* The inductive invariant.                                                *)

\* A request that was sampled MaxDelay ago at most, with what its step needs.
RequestOK(r) ==
  /\ request[r].step # "idle" =>
       request[r].now <= clock /\ clock <= request[r].now + MaxDelay
  /\ request[r].step = "issue" =>
       request[r].email \in Principals /\ request[r].browser \in Browsers
  /\ request[r].step \in {"send", "revoke"} =>
       request[r].link \in Links /\ Issued(request[r].link)
  /\ request[r].step = "consume" =>
       request[r].browser \in Browsers /\ request[r].link \in mailbox

\* A row is no younger than the clock says, and was old when it was deleted.
RowsOK ==
  \A l \in Links : Issued(l) =>
    /\ links[l].created <= clock
    /\ links[l].state = "deleted" => links[l].created + KeepFor <= clock

\* A link that opened a session is spent.
OpenedAreSpent ==
  \A o \in opened : Issued(o.link) /\ ~Pending(o.link) /\ Known(o.session)

SignInInv ==
  /\ SignInTypeOK
  /\ IsFiniteSet({l \in Links : Issued(l)})
  /\ \A r \in Requests : RequestOK(r)
  /\ \A l \in mailbox : Issued(l)
  /\ RowsOK
  /\ OpenedAreSpent
  /\ LinkOpensOnce
  /\ LinkBudget

-----------------------------------------------------------------------------
(* What no step undoes.                                                    *)

\* An issued link stays issued, to whom and when it was, and is not revived.
LinksKept ==
  \A l \in Links :
    /\ Issued(l)' <=> Issued(l)
    /\ Issued(l) => /\ links'[l].email = links[l].email /\ links'[l].browser = links[l].browser
                    /\ links'[l].created = links[l].created
    /\ Pending(l)' => Pending(l)

\* The links of an email, and those of them that count against its link l.
Sent(e) == {l \in Links : Issued(l) /\ links[l].email = e}
Window(e, l) ==
  {k \in Sent(e) : /\ links[k].created <= links[l].created
                   /\ links[l].created < links[k].created + BudgetWindow}
Spaced(l, k) ==
  \/ links[l].created >= links[k].created + Throttle
  \/ links[k].created >= links[l].created + Throttle

\* LinkBudget in these terms.
LEMMA Budget ==
  LinkBudget <=>
    \A e \in Principals :
      /\ \A l \in Sent(e) : Cardinality(Window(e, l)) <= BudgetMax
      /\ \A l, k \in Sent(e) : l # k => Spaced(l, k)
BY DEF LinkBudget, Sent, Window, Spaced

\* The parameters are naturals.
LEMMA Parameters ==
  /\ LinkLife \in Nat \ {0} /\ Throttle \in Nat \ {0} /\ BudgetWindow \in Nat \ {0}
  /\ BudgetMax \in Nat \ {0} /\ KeepFor \in Nat /\ KeepFor >= BudgetWindow + MaxDelay
  /\ Throttle <= BudgetWindow
  /\ MaxDelay \in Nat \ {0} /\ MaxClock \in Nat
BY LinkTimes, TimesAreNaturals

\* The types of a row and of a request.
LEMMA Types ==
  ASSUME SignInTypeOK
  PROVE  /\ clock \in Nat /\ clock \in Times
         /\ \A l \in Links : Issued(l) => links[l] \in LinkRows /\ links[l].created \in Nat
         /\ \A r \in Requests : request[r] \in RequestRows /\ request[r].now \in Nat
         /\ \A s \in SessionIds : Known(s) => sessions[s] \in SessionRows
<1>1. \A t \in Times : t \in Nat
  BY Parameters DEF Times
<1> QED
  BY <1>1 DEF SignInTypeOK, SessionsTypeOK, Issued, Known, LinkRows, RequestRows

\* The budget depends on the links that were issued only, not on what became of them.
LEMMA BudgetKept ==
  ASSUME LinkBudget, LinksKept
  PROVE  LinkBudget'
<1>1. \A e \in Principals : Sent(e)' = Sent(e)
  BY DEF LinksKept, Sent
<1>2. ASSUME NEW e \in Principals, NEW l \in Sent(e)
      PROVE  links'[l].created = links[l].created
  BY DEF LinksKept, Sent
<1>3. ASSUME NEW e \in Principals, NEW l \in Sent(e)
      PROVE  Window(e, l)' = Window(e, l)
  BY <1>1, <1>2 DEF Window
<1>4. ASSUME NEW e \in Principals, NEW l \in Sent(e), NEW k \in Sent(e), Spaced(l, k)
      PROVE  Spaced(l, k)'
  BY <1>2, <1>4 DEF Spaced
<1>5. \A e \in Principals :
        /\ \A l \in Sent(e)' : Cardinality(Window(e, l)') <= BudgetMax
        /\ \A l, k \in Sent(e)' : l # k => Spaced(l, k)'
  BY <1>1, <1>3, <1>4, Budget
<1> QED
  BY <1>5 DEF LinkBudget, Sent, Window, Spaced

\* Marking rows keeps everything but their state, and revives none.
LEMMA MarkKeeps ==
  ASSUME SignInTypeOK, NEW S \in SUBSET {l \in Links : Issued(l)},
         NEW state \in {"consumed", "deleted"}, Mark(S, state)
  PROVE  /\ links' \in [Links -> LinkRows \cup {None}] /\ LinksKept
         /\ \A l \in S : links'[l].state = state /\ ~Pending(l)'
         /\ \A l \in Links \ S : links'[l] = links[l]
<1>1. \A l \in Links : links'[l] = IF l \in S THEN [links[l] EXCEPT !.state = state] ELSE links[l]
  BY DEF Mark
<1>2. ASSUME NEW l \in S
      PROVE  /\ links'[l] \in LinkRows /\ links'[l].state = state
             /\ links'[l].email = links[l].email /\ links'[l].browser = links[l].browser
             /\ links'[l].created = links[l].created
  <2>1. links[l] \in LinkRows /\ links'[l] = [links[l] EXCEPT !.state = state]
    BY <1>1, Types
  <2> QED
    BY <2>1 DEF LinkRows
<1>3. \A l \in Links \ S : links'[l] = links[l]
  BY <1>1
<1>4. links' \in [Links -> LinkRows \cup {None}]
  BY <1>2, <1>3 DEF Mark, SignInTypeOK
<1>5. \A l \in S : Issued(l) /\ Issued(l)' /\ ~Pending(l)'
  BY <1>2, NoneIsNoLink DEF Issued, Pending
<1>6. LinksKept
  BY <1>2, <1>3, <1>5 DEF LinksKept, Issued, Pending
<1> QED
  BY <1>2, <1>3, <1>4, <1>5, <1>6

-----------------------------------------------------------------------------
(* Steps that open no session and issue no link.                           *)

\* Rows that are kept, but for their state, are as good as they were.
LEMMA RowsFade ==
  ASSUME SignInInv, LinksKept, links' \in [Links -> LinkRows \cup {None}],
         clock' \in Times, clock <= clock',
         \A l \in Links : Issued(l) /\ links'[l].state = "deleted" =>
                            links[l].created + KeepFor <= clock'
  PROVE  /\ {l \in Links : Issued(l)}' = {l \in Links : Issued(l)}
         /\ RowsOK' /\ OnlyNewestLinkPending' /\ LinkBudget'
         /\ \A o \in opened : /\ Issued(o.link)' /\ ~Pending(o.link)'
                               /\ links'[o.link].browser = links[o.link].browser
                               /\ links'[o.link].email = links[o.link].email
                               /\ links'[o.link].created = links[o.link].created
<1>1. {l \in Links : Issued(l)}' = {l \in Links : Issued(l)}
  BY DEF LinksKept
<1>2. RowsOK'
  <2> SUFFICES ASSUME NEW l \in Links, Issued(l)'
               PROVE  /\ links'[l].created <= clock'
                      /\ links'[l].state = "deleted" => links'[l].created + KeepFor <= clock'
    BY DEF RowsOK
  <2>1. Issued(l) /\ links'[l].created = links[l].created
    BY DEF LinksKept
  <2>2. links[l].created \in Nat /\ links[l].created <= clock /\ clock \in Nat /\ clock' \in Nat
    BY <2>1, Types, Parameters DEF SignInInv, RowsOK, Times
  <2> QED
    BY <2>1, <2>2
<1>3. OnlyNewestLinkPending'
  <2> SUFFICES ASSUME NEW l \in Links, NEW k \in Links, Pending(l)', Issued(k)', k # l,
                      links'[k].email = links'[l].email
               PROVE  ~Pending(k)' /\ links'[k].created < links'[l].created
    BY DEF OnlyNewestLinkPending
  <2>1. Pending(l) /\ Issued(l) /\ Issued(k)
    BY DEF LinksKept, Pending
  <2>2. /\ links'[k].email = links[k].email /\ links'[l].email = links[l].email
        /\ links'[k].created = links[k].created /\ links'[l].created = links[l].created
        /\ Pending(k)' => Pending(k)
    BY <2>1 DEF LinksKept
  <2> QED
    BY <2>1, <2>2 DEF SignInInv, LinkOpensOnce, OnlyNewestLinkPending
<1>4. LinkBudget'
  BY BudgetKept DEF SignInInv
<1>5. ASSUME NEW o \in opened
      PROVE  /\ Issued(o.link)' /\ ~Pending(o.link)'
             /\ links'[o.link].browser = links[o.link].browser
             /\ links'[o.link].email = links[o.link].email
             /\ links'[o.link].created = links[o.link].created
  <2>1. o.link \in Links /\ Issued(o.link) /\ ~Pending(o.link)
    BY DEF SignInInv, SignInTypeOK, OpenedAreSpent
  <2> QED
    BY <2>1 DEF LinksKept
<1> QED
  BY <1>1, <1>2, <1>3, <1>4, <1>5

\* Requests move, mails arrive, rows fade and time passes.
LEMMA QuietInv ==
  ASSUME SignInInv, LinksKept, UNCHANGED <<sessions, accounts, opened>>,
         links' \in [Links -> LinkRows \cup {None}], request' \in [Requests -> RequestRows],
         clock' \in Times, clock <= clock', mailbox' \subseteq Links,
         \A r \in Requests : RequestOK(r)', \A l \in mailbox' : Issued(l),
         \A l \in Links : Issued(l) /\ links'[l].state = "deleted" =>
                            links[l].created + KeepFor <= clock'
  PROVE  SignInInv'
<1>1. SignInTypeOK'
  BY DEF SignInInv, SignInTypeOK, SessionsTypeOK
<1>2. \A l \in mailbox' : Issued(l)'
  BY DEF LinksKept
<1>3. OpenedAreSpent'
  BY RowsFade DEF SignInInv, OpenedAreSpent, Known
<1>4. LinkOpensOnce'
  BY RowsFade DEF SignInInv, LinkOpensOnce
<1>5. RowsOK' /\ LinkBudget' /\ {l \in Links : Issued(l)}' = {l \in Links : Issued(l)}
  BY RowsFade
<1> QED
  BY <1>1, <1>2, <1>3, <1>4, <1>5 DEF SignInInv

\* A step that leaves the rows and the clock alone keeps what is said of them.
LEMMA RowsUntouched ==
  ASSUME SignInInv, UNCHANGED <<links, clock>>
  PROVE  /\ LinksKept /\ links' \in [Links -> LinkRows \cup {None}]
         /\ clock' \in Times /\ clock <= clock'
         /\ \A l \in Links : Issued(l) /\ links'[l].state = "deleted" =>
                               links[l].created + KeepFor <= clock'
BY Types DEF SignInInv, SignInTypeOK, LinksKept, Issued, Pending, RowsOK

\* A request that does not move stays fit while the clock stands and no link or mail is lost.
LEMMA RequestKept ==
  ASSUME SignInInv, NEW r \in Requests, request'[r] = request[r], clock' = clock,
         mailbox \subseteq mailbox', \A l \in Links : Issued(l) => Issued(l)'
  PROVE  RequestOK(r)'
BY DEF SignInInv, RequestOK

\* One request takes a step of its own.
LEMMA RequestMoves ==
  ASSUME SignInInv, NEW r \in Requests, NEW next \in RequestRows,
         request' = [request EXCEPT ![r] = next], RequestOK(r)', clock' = clock,
         mailbox \subseteq mailbox', \A l \in Links : Issued(l) => Issued(l)'
  PROVE  /\ request' \in [Requests -> RequestRows] /\ request'[r] = next
         /\ \A q \in Requests : RequestOK(q)'
<1>1. request \in [Requests -> RequestRows]
  BY DEF SignInInv, SignInTypeOK
<1>2. request'[r] = next /\ \A q \in Requests \ {r} : request'[q] = request[q]
  BY <1>1
<1> QED
  BY <1>1, <1>2, RequestKept

\* A request that is over has nothing to rely on.
LEMMA IdleOK ==
  /\ Idle \in RequestRows /\ Idle.step = "idle"
  /\ \A r \in Requests : request'[r] = Idle => RequestOK(r)'
<1>1. Idle \in RequestRows /\ Idle.step = "idle"
  BY Parameters DEF Idle, RequestRows, Times
<1> QED
  BY <1>1 DEF RequestOK

\* A request ends: refused, aborted or answered.
LEMMA RequestEnds ==
  ASSUME SignInInv, NEW r \in Requests, request' = [request EXCEPT ![r] = Idle], clock' = clock,
         mailbox \subseteq mailbox', \A l \in Links : Issued(l) => Issued(l)'
  PROVE  request' \in [Requests -> RequestRows] /\ \A q \in Requests : RequestOK(q)'
<1>1. request'[r] = Idle
  BY DEF SignInInv, SignInTypeOK
<1> QED
  BY <1>1, IdleOK, RequestMoves

-----------------------------------------------------------------------------
(* Asking for a link, mailing it, withdrawing it.                          *)

\* Facts of any request.
LEMMA RequestFacts ==
  ASSUME SignInInv, NEW r \in Requests
  PROVE  /\ request[r] \in RequestRows /\ request[r].now \in Nat /\ RequestOK(r)
         /\ clock \in Nat /\ clock \in Times
BY Types DEF SignInInv

\* A request samples the clock.
LEMMA AskInv ==
  ASSUME SignInInv, NEW r \in Requests,
         \/ \E e \in Principals, b \in Browsers : AskForLink(r, e, b)
         \/ \E l \in Links, b \in Browsers : PresentLink(r, l, b)
  PROVE  SignInInv'
<1>1. clock \in Nat /\ clock \in Times
  BY RequestFacts
<1>2. UNCHANGED <<sessions, accounts, opened, links, clock, mailbox>>
  BY DEF AskForLink, PresentLink, sessionVars
<1>3. /\ LinksKept /\ links' \in [Links -> LinkRows \cup {None}] /\ clock' \in Times /\ clock <= clock'
      /\ \A l \in Links : Issued(l) /\ links'[l].state = "deleted" =>
                            links[l].created + KeepFor <= clock'
  BY <1>2, RowsUntouched
<1>4. \A l \in Links : Issued(l) => Issued(l)'
  BY <1>2 DEF Issued
<1>5. PICK next \in RequestRows :
        /\ request' = [request EXCEPT ![r] = next] /\ next.now = clock
        /\ \/ next.step = "issue" /\ next.email \in Principals /\ next.browser \in Browsers
           \/ next.step = "consume" /\ next.link \in mailbox /\ next.browser \in Browsers
  <2>1. CASE \E e \in Principals, b \in Browsers : AskForLink(r, e, b)
    <3>1. PICK e \in Principals, b \in Browsers : AskForLink(r, e, b)
      BY <2>1
    <3> DEFINE next == [step |-> "issue", email |-> e, browser |-> b, link |-> None, now |-> clock]
    <3>2. next \in RequestRows
      BY <1>1 DEF RequestRows
    <3> QED
      BY <3>1, <3>2 DEF AskForLink
  <2>2. CASE \E l \in Links, b \in Browsers : PresentLink(r, l, b)
    <3>1. PICK l \in Links, b \in Browsers : PresentLink(r, l, b)
      BY <2>2
    <3> DEFINE next == [step |-> "consume", email |-> None, browser |-> b, link |-> l, now |-> clock]
    <3>2. next \in RequestRows
      BY <1>1 DEF RequestRows
    <3> QED
      BY <3>1, <3>2 DEF PresentLink
  <2> QED
    BY <2>1, <2>2
<1>6. request'[r] = next
  BY <1>5 DEF SignInInv, SignInTypeOK
<1>7. RequestOK(r)'
  BY <1>1, <1>2, <1>5, <1>6, Parameters DEF RequestOK
<1>8. request' \in [Requests -> RequestRows] /\ \A q \in Requests : RequestOK(q)'
  BY <1>2, <1>4, <1>5, <1>7, RequestMoves
<1> QED
  BY <1>2, <1>3, <1>8, QuietInv DEF SignInInv, SignInTypeOK

\* A request that ends without a write, perhaps after the mail went out.
LEMMA EndsInv ==
  ASSUME SignInInv, NEW r \in Requests,
         IssueRefused(r) \/ SendLink(r) \/ ConsumeRefused(r) \/ Abort(r)
  PROVE  SignInInv'
<1>1. /\ UNCHANGED <<sessions, accounts, opened, links, clock>>
      /\ request' = [request EXCEPT ![r] = Idle]
      /\ mailbox' = mailbox \/ (request[r].step = "send" /\ mailbox' = mailbox \cup {request[r].link})
  BY DEF IssueRefused, SendLink, ConsumeRefused, Abort, sessionVars
<1>2. /\ LinksKept /\ links' \in [Links -> LinkRows \cup {None}] /\ clock' \in Times /\ clock <= clock'
      /\ \A l \in Links : Issued(l) /\ links'[l].state = "deleted" =>
                            links[l].created + KeepFor <= clock'
  BY <1>1, RowsUntouched
<1>3. mailbox \subseteq mailbox' /\ mailbox' \subseteq Links /\ \A l \in mailbox' : Issued(l)
  BY <1>1, RequestFacts DEF SignInInv, SignInTypeOK, RequestOK
<1>4. \A l \in Links : Issued(l) => Issued(l)'
  BY <1>1 DEF Issued
<1>5. request' \in [Requests -> RequestRows] /\ \A q \in Requests : RequestOK(q)'
  BY <1>1, <1>3, <1>4, RequestEnds
<1> QED
  BY <1>1, <1>2, <1>3, <1>5, QuietInv

\* A mail that failed, or did not, and is to be withdrawn.
LEMMA SendFailsInv ==
  ASSUME SignInInv, NEW r \in Requests, SendFails(r)
  PROVE  SignInInv'
<1>1. /\ UNCHANGED <<sessions, accounts, opened, links, clock>> /\ request[r].step = "send"
      /\ mailbox' = mailbox \/ mailbox' = mailbox \cup {request[r].link}
  BY DEF SendFails, sessionVars
<1>2. /\ LinksKept /\ links' \in [Links -> LinkRows \cup {None}] /\ clock' \in Times /\ clock <= clock'
      /\ \A l \in Links : Issued(l) /\ links'[l].state = "deleted" =>
                            links[l].created + KeepFor <= clock'
  BY <1>1, RowsUntouched
<1>3. mailbox \subseteq mailbox' /\ mailbox' \subseteq Links /\ \A l \in mailbox' : Issued(l)
  BY <1>1, RequestFacts DEF SignInInv, SignInTypeOK, RequestOK
<1>4. \A l \in Links : Issued(l) => Issued(l)'
  BY <1>1 DEF Issued
<1> DEFINE next == [request[r] EXCEPT !.step = "revoke"]
<1>5. /\ next \in RequestRows /\ request' = [request EXCEPT ![r] = next] /\ next.step = "revoke"
      /\ next.link = request[r].link /\ next.now = request[r].now
  BY RequestFacts DEF SendFails, RequestRows
<1> HIDE DEF next
<1>6. request'[r] = next
  BY <1>5 DEF SignInInv, SignInTypeOK
<1>7. RequestOK(r)'
  BY <1>1, <1>4, <1>5, <1>6, RequestFacts DEF RequestOK
<1>8. request' \in [Requests -> RequestRows] /\ \A q \in Requests : RequestOK(q)'
  BY <1>1, <1>3, <1>4, <1>5, <1>7, RequestMoves
<1> QED
  BY <1>1, <1>2, <1>3, <1>8, QuietInv

\* The link of a mail that failed is withdrawn.
LEMMA RevokeLinkInv ==
  ASSUME SignInInv, NEW r \in Requests, RevokeLink(r)
  PROVE  SignInInv'
<1>1. /\ UNCHANGED <<sessions, accounts, opened, mailbox, clock>>
      /\ request' = [request EXCEPT ![r] = Idle]
  BY DEF RevokeLink, sessionVars
<1>2. PICK S \in SUBSET {l \in Links : Issued(l)} : Mark(S, "consumed")
  BY DEF RevokeLink, Pending
<1>3. /\ links' \in [Links -> LinkRows \cup {None}] /\ LinksKept
      /\ \A l \in S : links'[l].state = "consumed"
      /\ \A l \in Links \ S : links'[l] = links[l]
  BY <1>2, MarkKeeps DEF SignInInv
<1>4. \A l \in Links : Issued(l) /\ links'[l].state = "deleted" =>
                         links[l].created + KeepFor <= clock'
  BY <1>1, <1>3 DEF SignInInv, RowsOK
<1>5. request' \in [Requests -> RequestRows] /\ \A q \in Requests : RequestOK(q)'
  BY <1>1, <1>3, RequestEnds DEF LinksKept
<1>6. mailbox' \subseteq Links /\ \A l \in mailbox' : Issued(l)
  BY <1>1 DEF SignInInv, SignInTypeOK
<1> QED
  BY <1>1, <1>3, <1>4, <1>5, <1>6, RequestFacts, QuietInv

-----------------------------------------------------------------------------
(* Maintenance and time.                                                   *)

\* Redacting consumes, deleting waits until the row is old.
LEMMA PurgeInv ==
  ASSUME SignInInv, NEW S \in SUBSET Links, RedactLinks(S) \/ RemoveLinks(S)
  PROVE  SignInInv'
<1>1. UNCHANGED <<sessions, accounts, opened, mailbox, clock, request>>
  BY DEF RedactLinks, RemoveLinks, sessionVars
<1>2. /\ S \in SUBSET {l \in Links : Issued(l)}
      /\ \/ Mark(S, "consumed")
         \/ Mark(S, "deleted") /\ \A l \in S : links[l].created + KeepFor <= clock
  BY DEF RedactLinks, RemoveLinks, Pending, Row
<1>3. /\ links' \in [Links -> LinkRows \cup {None}] /\ LinksKept
      /\ \A l \in Links \ S : links'[l] = links[l]
      /\ \/ \A l \in S : links'[l].state = "consumed"
         \/ \A l \in S : links[l].created + KeepFor <= clock
  BY <1>2, MarkKeeps DEF SignInInv
<1>4. \A l \in Links : Issued(l) /\ links'[l].state = "deleted" =>
                         links[l].created + KeepFor <= clock'
  BY <1>1, <1>3 DEF SignInInv, RowsOK
<1>5. \A r \in Requests : RequestOK(r)'
  BY <1>1, <1>3, RequestKept DEF LinksKept
<1>6. /\ mailbox' \subseteq Links /\ \A l \in mailbox' : Issued(l)
      /\ request' \in [Requests -> RequestRows] /\ clock' \in Times /\ clock <= clock'
  BY <1>1, Types DEF SignInInv, SignInTypeOK
<1> QED
  BY <1>1, <1>3, <1>4, <1>5, <1>6, QuietInv

\* The clock waits for the requests in flight.
LEMMA TickInv ==
  ASSUME SignInInv, Tick({request[r].now : r \in {q \in Requests : request[q] # Idle}}),
         UNCHANGED <<links, accounts, mailbox, request, opened>>
  PROVE  SignInInv'
<1>1. /\ clock \in Nat /\ clock' = clock + 1 /\ clock' \in Times /\ UNCHANGED sessions
      /\ \A r \in Requests : request[r] # Idle => clock < request[r].now + MaxDelay
  BY Types, Parameters DEF Tick, Times, SignInInv
<1>2. ASSUME NEW r \in Requests PROVE RequestOK(r)'
  <2>1. RequestOK(r) /\ request[r].now \in Nat
    BY RequestFacts
  <2>2. request[r].step # "idle" => request[r] # Idle
    BY DEF Idle
  <2> QED
    BY <1>1, <2>1, <2>2, Parameters DEF RequestOK, Issued
<1>3. LinksKept /\ links' \in [Links -> LinkRows \cup {None}]
  BY DEF LinksKept, Issued, Pending, SignInInv, SignInTypeOK
<1>4. ASSUME NEW l \in Links, Issued(l), links'[l].state = "deleted"
      PROVE  links[l].created + KeepFor <= clock'
  <2>1. links[l].created \in Nat /\ links[l].created + KeepFor <= clock
    BY <1>4, Types DEF SignInInv, RowsOK
  <2> QED
    BY <1>1, <2>1, Parameters
<1>5. /\ mailbox' \subseteq Links /\ \A l \in mailbox' : Issued(l)
      /\ request' \in [Requests -> RequestRows] /\ clock <= clock'
  BY <1>1 DEF SignInInv, SignInTypeOK
<1> QED
  BY <1>1, <1>2, <1>3, <1>4, <1>5, QuietInv

-----------------------------------------------------------------------------
(* Issuing a link.                                                         *)

\* A set that has at most one element more than a set with room for one.
LEMMA OneMore ==
  ASSUME NEW R, NEW W, NEW x, IsFiniteSet(R), NEW bound \in Nat,
         ~(Cardinality(R) >= bound), W \subseteq R \cup {x}
  PROVE  Cardinality(W) <= bound
<1>1. Cardinality(R) \in Nat
  BY FS_CardinalityType
<1>2. IsFiniteSet(R \cup {x}) /\ Cardinality(R \cup {x}) \in Nat
      /\ Cardinality(R \cup {x}) <= Cardinality(R) + 1
  BY <1>1, FS_AddElement, FS_CardinalityType
<1>3. Cardinality(W) \in Nat /\ Cardinality(W) <= Cardinality(R \cup {x})
  BY <1>2, FS_Subset, FS_CardinalityType
<1> QED
  BY <1>1, <1>2, <1>3

\* Every earlier link of the email is a throttle old, and those that are younger than the
\* window are the ones the statement counted.
LEMMA NotThrottled ==
  ASSUME SignInInv, NEW r \in Requests, request[r].step = "issue", NEW e \in Principals,
         ~Throttled(e, request[r].now)
  PROVE  LET now == request[r].now
             recent == {l \in LinksOf(e) : links[l].created + BudgetWindow > now}
         IN /\ IsFiniteSet(recent) /\ ~(Cardinality(recent) >= BudgetMax)
            /\ \A k \in Sent(e) : /\ links[k].created + Throttle <= now
                                  /\ links[k].created < now
                                  /\ links[k].created + BudgetWindow > now => k \in recent
<1> DEFINE now == request[r].now
           recent == {l \in LinksOf(e) : links[l].created + BudgetWindow > now}
<1>1. now \in Nat /\ clock \in Nat /\ clock <= now + MaxDelay
  BY RequestFacts DEF RequestOK
<1>2. IsFiniteSet(recent)
  <2>1. recent \subseteq {l \in Links : Issued(l)}
    BY DEF LinksOf, Row
  <2> QED
    BY <2>1, FS_Subset DEF SignInInv
<1>3. ~(Cardinality(recent) >= BudgetMax) /\ \A l \in recent : ~(now < links[l].created + Throttle)
  BY DEF Throttled
<1>4. ASSUME NEW k \in Sent(e)
      PROVE  /\ links[k].created + Throttle <= now /\ links[k].created < now
             /\ links[k].created + BudgetWindow > now => k \in recent
  <2>1. k \in Links /\ Issued(k) /\ links[k].email = e /\ links[k].created \in Nat
    BY Types DEF Sent, SignInInv
  <2>2. CASE links[k].state = "deleted"
    <3>1. links[k].created + KeepFor <= clock
      BY <2>1, <2>2 DEF SignInInv, RowsOK
    <3> QED
      BY <1>1, <2>1, <3>1, Parameters
  <2>3. CASE links[k].state # "deleted"
    <3>1. k \in LinksOf(e)
      BY <2>1, <2>3 DEF LinksOf, Row
    <3>2. CASE k \in recent
      BY <1>1, <1>3, <2>1, <3>2, Parameters
    <3>3. CASE k \notin recent
      BY <1>1, <2>1, <3>1, <3>3, Parameters
    <3> QED
      BY <3>2, <3>3
  <2> QED
    BY <2>2, <2>3
<1> QED
  BY <1>2, <1>3, <1>4

\* The new link is the newest of its email by a throttle, the others of the email are spent.
LEMMA IssueLinkInv ==
  ASSUME SignInInv, NEW r \in Requests, NEW l \in Links, IssueLink(r, l)
  PROVE  SignInInv'
<1>a. PICK e \in Principals, now \in Times : e = request[r].email /\ now = request[r].now
  BY RequestFacts DEF IssueLink, RequestOK, RequestRows
<1> DEFINE row == [email |-> e, browser |-> request[r].browser, created |-> now, state |-> "pending"]
           next == [request[r] EXCEPT !.step = "send", !.link = l]
<1>1. /\ e \in Principals /\ request[r].browser \in Browsers /\ now \in Nat /\ now \in Times
      /\ clock \in Nat /\ clock \in Times /\ now <= clock /\ clock <= now + MaxDelay
      /\ request[r] \in RequestRows /\ request[r].step = "issue" /\ ~Issued(l)
  BY <1>a, RequestFacts DEF IssueLink, RequestOK, RequestRows
<1>2. UNCHANGED <<sessions, clock, accounts, mailbox, opened>>
  BY DEF IssueLink, sessionVars
<1>3. \A k \in Links : links'[k] = IF k = l THEN row
                                   ELSE IF k \in LinksOf(e) THEN [links[k] EXCEPT !.state = "consumed"]
                                   ELSE links[k]
  BY <1>a DEF IssueLink
<1>4. row \in LinkRows /\ links'[l] = row
  BY <1>1, <1>3 DEF LinkRows
<1>5. ASSUME NEW k \in Links \ {l}
      PROVE  /\ links'[k] \in LinkRows \cup {None}
             /\ Issued(k)' <=> Issued(k)
             /\ Issued(k) => /\ links'[k].email = links[k].email
                             /\ links'[k].browser = links[k].browser
                             /\ links'[k].created = links[k].created
             /\ Pending(k)' => Pending(k) /\ links[k].email # e
             /\ Issued(k) /\ links'[k].state = "deleted" => links[k].state = "deleted"
  <2>1. CASE k \in LinksOf(e)
    <3>1. Issued(k) /\ links[k] \in LinkRows /\ links'[k] = [links[k] EXCEPT !.state = "consumed"]
      BY <1>3, <1>5, <2>1, Types DEF LinksOf, Row, SignInInv
    <3>2. /\ links'[k] \in LinkRows /\ links'[k].state = "consumed"
          /\ links'[k].email = links[k].email /\ links'[k].browser = links[k].browser
          /\ links'[k].created = links[k].created
      BY <3>1 DEF LinkRows
    <3> QED
      BY <3>1, <3>2, NoneIsNoLink DEF Issued, Pending
  <2>2. CASE k \notin LinksOf(e)
    <3>1. links'[k] = links[k]
      BY <1>3, <1>5, <2>2
    <3>2. Pending(k) => links[k].email # e
      BY <2>2 DEF Pending, LinksOf, Row
    <3> QED
      BY <3>1, <3>2 DEF SignInInv, SignInTypeOK, Issued, Pending
  <2> QED
    BY <2>1, <2>2
<1>6. Issued(l)' /\ links'[l].email = e /\ links'[l].created = now /\ links'[l].state = "pending"
  BY <1>4, NoneIsNoLink DEF Issued
<1>7. /\ \A k \in Sent(e) : /\ links[k].created + Throttle <= now /\ links[k].created < now
                            /\ links[k].created \in Nat /\ k \in Links \ {l}
      /\ ~Throttled(e, now)
  <2>1. ~Throttled(e, now)
    BY <1>a DEF IssueLink
  <2>2. \A k \in Sent(e) : links[k].created + Throttle <= now /\ links[k].created < now
    BY <1>a, <1>1, <2>1, NotThrottled
  <2> QED
    BY <1>1, <2>1, <2>2, Types DEF Sent, SignInInv
<1> HIDE DEF row
<1>8. links' \in [Links -> LinkRows \cup {None}]
  BY <1>4, <1>5 DEF IssueLink
<1>9. next \in RequestRows /\ next.step = "send" /\ next.link = l /\ next.now = now
  BY <1>a, <1>1 DEF RequestRows
<1>10. request' = [request EXCEPT ![r] = next]
  BY DEF IssueLink
<1> HIDE DEF next
<1>11. request'[r] = next
  BY <1>10 DEF SignInInv, SignInTypeOK
<1>12. RequestOK(r)'
  BY <1>1, <1>2, <1>6, <1>9, <1>11 DEF RequestOK
<1>13. \A k \in Links : Issued(k) => Issued(k)'
  BY <1>5, <1>6
<1>14. request' \in [Requests -> RequestRows] /\ \A q \in Requests : RequestOK(q)'
  BY <1>2, <1>9, <1>10, <1>12, <1>13, RequestMoves
<1>15. SignInTypeOK'
  BY <1>2, <1>8, <1>14 DEF SignInInv, SignInTypeOK, SessionsTypeOK
<1>16. IsFiniteSet({k \in Links : Issued(k)})'
  <2>1. {k \in Links : Issued(k)}' = {k \in Links : Issued(k)} \cup {l}
    BY <1>5, <1>6
  <2> QED
    BY <2>1, FS_AddElement DEF SignInInv
<1>17. \A k \in mailbox' : Issued(k)'
  BY <1>2, <1>13 DEF SignInInv, SignInTypeOK
<1>18. RowsOK'
  BY <1>1, <1>2, <1>5, <1>6 DEF SignInInv, RowsOK
<1>19. \A o \in opened : o.link \in Links \ {l} /\ Issued(o.link) /\ ~Pending(o.link) /\ Known(o.session)
  BY <1>1 DEF SignInInv, SignInTypeOK, OpenedAreSpent
<1>20. OpenedAreSpent'
  BY <1>2, <1>5, <1>19 DEF OpenedAreSpent, Known
<1>21. OnlyNewestLinkPending'
  <2> SUFFICES ASSUME NEW j \in Links, NEW k \in Links, Pending(j)', Issued(k)', k # j,
                      links'[k].email = links'[j].email
               PROVE  ~Pending(k)' /\ links'[k].created < links'[j].created
    BY DEF OnlyNewestLinkPending
  <2>1. CASE j = l
    BY <1>5, <1>6, <1>7, <2>1 DEF Sent
  <2>2. CASE j # l
    <3>1. Pending(j) /\ Issued(j) /\ links[j].email # e /\ links'[j].email = links[j].email
      BY <1>5, <2>2 DEF Pending
    <3>2. k # l
      BY <1>6, <3>1
    <3>3. OnlyNewestLinkPending
      BY DEF SignInInv, LinkOpensOnce
    <3> QED
      BY <1>5, <2>2, <3>1, <3>2, <3>3 DEF OnlyNewestLinkPending
  <2> QED
    BY <2>1, <2>2
<1>22. LinkOpensOnce'
  BY <1>2, <1>5, <1>19, <1>21 DEF SignInInv, LinkOpensOnce
<1>23. LinkBudget'
  <2>1. ASSUME NEW d \in Principals, d # e
        PROVE  Sent(d)' = Sent(d)
    <3>1. ASSUME NEW k \in Links
          PROVE  Issued(k)' /\ links'[k].email = d <=> Issued(k) /\ links[k].email = d
      <4>1. CASE k = l
        BY <1>1, <1>6, <2>1, <4>1
      <4>2. CASE k # l
        BY <1>5, <4>2
      <4> QED
        BY <4>1, <4>2
    <3> QED
      BY <3>1 DEF Sent
  <2>2. Sent(e)' = Sent(e) \cup {l}
    BY <1>5, <1>6 DEF Sent
  <2>3. ASSUME NEW d \in Principals, NEW k \in Sent(d)
        PROVE  k \in Links \ {l} /\ links'[k].created = links[k].created
    BY <1>1, <1>5 DEF Sent
  <2>4. ASSUME NEW d \in Principals, NEW k \in Sent(d)
        PROVE  Window(d, k)' = Window(d, k)
    <3>1. CASE d # e
      BY <2>1, <2>3, <3>1 DEF Window
    <3>2. CASE d = e
      <4>1. l \notin Window(e, k)'
        BY <1>1, <1>6, <1>7, <2>3, <3>2 DEF Window
      <4> QED
        BY <2>2, <2>3, <3>2, <4>1 DEF Window
    <3> QED
      BY <3>1, <3>2
  <2>5. Cardinality(Window(e, l)') <= BudgetMax
    <3> DEFINE recent == {k \in LinksOf(e) : links[k].created + BudgetWindow > now}
    <3>1. /\ IsFiniteSet(recent) /\ ~(Cardinality(recent) >= BudgetMax)
          /\ \A k \in Sent(e) : links[k].created + BudgetWindow > now => k \in recent
      BY <1>a, <1>1, <1>7, NotThrottled
    <3>2. Window(e, l)' \subseteq recent \cup {l}
      <4> SUFFICES ASSUME NEW k \in Window(e, l)', k # l PROVE k \in recent
        OBVIOUS
      <4>1. k \in Sent(e) /\ now < links'[k].created + BudgetWindow
        BY <1>6, <2>2 DEF Window
      <4>2. links[k].created \in Nat /\ links'[k].created = links[k].created
        BY <1>1, <1>7, <2>3, <4>1
      <4> QED
        BY <1>1, <3>1, <4>1, <4>2, Parameters
    <3> HIDE DEF recent
    <3> QED
      BY <3>1, <3>2, OneMore, Parameters
  <2>6. ASSUME NEW d \in Principals, NEW j \in Sent(d)', NEW k \in Sent(d)', j # k
        PROVE  Spaced(j, k)'
    <3>1. CASE j \in Sent(d) /\ k \in Sent(d)
      <4>1. Spaced(j, k)
        BY <2>6, <3>1, Budget DEF SignInInv
      <4> QED
        BY <2>3, <3>1, <4>1 DEF Spaced
    <3>2. CASE d = e /\ (j = l \/ k = l)
      BY <1>1, <1>6, <1>7, <2>2, <2>3, <2>6, <3>2, Parameters DEF Spaced
    <3> QED
      BY <2>1, <2>2, <2>6, <3>1, <3>2
  <2>7. \A d \in Principals :
          /\ \A k \in Sent(d)' : Cardinality(Window(d, k)') <= BudgetMax
          /\ \A j, k \in Sent(d)' : j # k => Spaced(j, k)'
    BY <2>1, <2>2, <2>4, <2>5, <2>6, Budget DEF SignInInv
  <2> QED
    BY <2>7 DEF LinkBudget, Sent, Window, Spaced
<1> QED
  BY <1>14, <1>15, <1>16, <1>17, <1>18, <1>20, <1>22, <1>23 DEF SignInInv

-----------------------------------------------------------------------------
(* Redeeming a link.                                                       *)

\* The link is spent in the transaction that opens its session.
LEMMA ConsumeInv ==
  ASSUME SignInInv, NEW r \in Requests, NEW s \in SessionIds, Consume(r, s)
  PROVE  SignInInv'
<1>1. PICK l \in Links, b \in Browsers, now \in Times :
        l = request[r].link /\ b = request[r].browser /\ now = request[r].now
  BY RequestFacts DEF Consume, RequestOK, RequestRows, SignInInv, SignInTypeOK
<1>2. PICK e \in Principals : e = links[l].email
  BY <1>1, Types DEF Consume, Redeemable, Pending, SignInInv, LinkRows
<1> DEFINE session == [principal |-> e, created |-> now, state |-> "open"]
           new == [link |-> l, session |-> s, browser |-> b]
<1>3. /\ Issued(l) /\ Pending(l) /\ links[l].browser = b /\ links[l].created \in Nat /\ now \in Nat
      /\ links[l].created <= now /\ now < links[l].created + LinkLife
  BY <1>1, Types, RequestFacts DEF Consume, Redeemable, Pending, SignInInv
<1>4. /\ UNCHANGED <<clock, mailbox>> /\ ~Known(s)
      /\ accounts' = accounts \cup {e} /\ opened' = opened \cup {new}
      /\ sessions' = [sessions EXCEPT ![s] = session]
      /\ request' = [request EXCEPT ![r] = Idle]
  BY <1>1, <1>2 DEF Consume, OpenSession
<1>5. session \in SessionRows /\ session # None /\ session.principal = e /\ session.created = now
  BY NoneIsNoSession DEF SessionRows
<1>6. new \in [link : Links, session : SessionIds, browser : Browsers]
      /\ new.link = l /\ new.session = s /\ new.browser = b
  OBVIOUS
<1> HIDE DEF session, new
<1>7. /\ sessions' \in [SessionIds -> SessionRows \cup {None}] /\ sessions'[s] = session
      /\ \A t \in SessionIds \ {s} : sessions'[t] = sessions[t]
  BY <1>4, <1>5 DEF SignInInv, SignInTypeOK, SessionsTypeOK
<1>8. {l} \in SUBSET {k \in Links : Issued(k)} /\ Mark({l}, "consumed")
  BY <1>1, <1>3 DEF Consume
<1>9. /\ links' \in [Links -> LinkRows \cup {None}] /\ LinksKept
      /\ links'[l].state = "consumed" /\ ~Pending(l)'
      /\ \A k \in Links \ {l} : links'[k] = links[k]
  BY <1>8, MarkKeeps DEF SignInInv
<1>10. \A k \in Links : Issued(k) /\ links'[k].state = "deleted" =>
                          links[k].created + KeepFor <= clock'
  BY <1>4, <1>9 DEF SignInInv, RowsOK
<1>11. clock' \in Times /\ clock <= clock' /\ clock \in Nat
  BY <1>4, RequestFacts
<1>12. /\ {k \in Links : Issued(k)}' = {k \in Links : Issued(k)}
       /\ RowsOK' /\ OnlyNewestLinkPending' /\ LinkBudget'
       /\ \A o \in opened : /\ Issued(o.link)' /\ ~Pending(o.link)'
                            /\ links'[o.link].browser = links[o.link].browser
                            /\ links'[o.link].email = links[o.link].email
                            /\ links'[o.link].created = links[o.link].created
  BY <1>9, <1>10, <1>11, RowsFade
<1>13. /\ Issued(l)' /\ links'[l].browser = b /\ links'[l].email = e
       /\ links'[l].created = links[l].created
  BY <1>2, <1>3, <1>9 DEF LinksKept
<1>14. \A o \in opened : /\ o.session \in SessionIds \ {s} /\ Known(o.session)
                         /\ o.link # l
  BY <1>3, <1>4 DEF SignInInv, SignInTypeOK, OpenedAreSpent
<1>15. request' \in [Requests -> RequestRows] /\ \A q \in Requests : RequestOK(q)'
  BY <1>4, <1>9, RequestEnds DEF LinksKept
<1>16. SignInTypeOK'
  BY <1>4, <1>6, <1>7, <1>9, <1>11, <1>15 DEF SignInInv, SignInTypeOK, SessionsTypeOK
<1>17. \A k \in mailbox' : Issued(k)'
  BY <1>4, <1>9 DEF SignInInv, SignInTypeOK, LinksKept
<1>18. OpenedAreSpent'
  <2> SUFFICES ASSUME NEW o \in opened'
               PROVE  Issued(o.link)' /\ ~Pending(o.link)' /\ Known(o.session)'
    BY DEF OpenedAreSpent
  <2>1. CASE o = new
    BY <1>5, <1>6, <1>7, <1>9, <1>13, <2>1 DEF Known
  <2>2. CASE o \in opened
    BY <1>7, <1>12, <1>14, <2>2 DEF Known
  <2> QED
    BY <1>4, <2>1, <2>2
<1>19. LinkOpensOnce'
  <2>1. \A o1, o2 \in opened' : o1.link = o2.link => o1 = o2
    BY <1>4, <1>6, <1>14 DEF SignInInv, LinkOpensOnce
  <2>2. ASSUME NEW o \in opened'
        PROVE  /\ o.browser = links'[o.link].browser
               /\ sessions'[o.session].principal = links'[o.link].email
               /\ links'[o.link].email \in accounts'
               /\ sessions'[o.session].created
                    \in links'[o.link].created .. links'[o.link].created + LinkLife - 1
    <3>1. CASE o = new
      BY <1>3, <1>4, <1>5, <1>6, <1>7, <1>13, <3>1, Parameters
    <3>2. CASE o \in opened
      BY <1>4, <1>7, <1>12, <1>14, <3>2 DEF SignInInv, LinkOpensOnce
    <3> QED
      BY <1>4, <3>1, <3>2
  <2> QED
    BY <1>12, <2>1, <2>2 DEF LinkOpensOnce
<1> QED
  BY <1>12, <1>15, <1>16, <1>17, <1>18, <1>19 DEF SignInInv

-----------------------------------------------------------------------------
(* The invariant.                                                          *)

\* Nothing is issued, opened or asked for at first.
LEMMA SignInInitInv ==
  ASSUME SignInInit
  PROVE  SignInInv
<1>1. \A l \in Links : ~Issued(l)
  BY DEF SignInInit, Issued
<1>2. SignInTypeOK
  BY IdleOK, Parameters DEF SignInInit, SessionsInit, SignInTypeOK, SessionsTypeOK, Times
<1>3. {l \in Links : Issued(l)} = {}
  BY <1>1
<1>4. IsFiniteSet({l \in Links : Issued(l)})
  BY <1>3, FS_EmptySet
<1>5. \A r \in Requests : RequestOK(r)
  BY IdleOK DEF SignInInit, RequestOK
<1>6. LinkOpensOnce /\ OpenedAreSpent /\ RowsOK
  BY <1>1 DEF SignInInit, LinkOpensOnce, OnlyNewestLinkPending, OpenedAreSpent, RowsOK, Pending
<1>7. LinkBudget
  BY <1>1 DEF LinkBudget
<1> QED
  BY <1>2, <1>4, <1>5, <1>6, <1>7 DEF SignInInv, SignInInit

\* Every step, and doing nothing, keeps the invariant.
LEMMA SignInNextInv ==
  ASSUME SignInInv, [SignInNext]_signInVars
  PROVE  SignInInv'
<1>1. CASE UNCHANGED signInVars
  <2>1. UNCHANGED <<clock, sessions, links, accounts, mailbox, request, opened>>
    BY <1>1 DEF signInVars, sessionVars
  <2> QED
    BY <2>1, RowsUntouched, RequestKept, QuietInv DEF SignInInv, SignInTypeOK, Issued
<1>2. CASE SignInNext
  BY <1>2, AskInv, EndsInv, SendFailsInv, RevokeLinkInv, PurgeInv, TickInv, IssueLinkInv, ConsumeInv
     DEF SignInNext
<1> QED
  BY <1>1, <1>2

\* The inductive invariant holds in every reachable state.
THEOREM SignInInvariant == SignInSpec => []SignInInv
<1>1. SignInInit => SignInInv
  BY SignInInitInv
<1>2. SignInInv /\ [SignInNext]_signInVars => SignInInv'
  BY SignInNextInv
<1> QED
  BY <1>1, <1>2, PTL DEF SignInSpec

\* A link opens one session at most, in its browser, for its account, in its life, and only
\* the newest of an email can still open one.
THEOREM OneSessionPerLink == SignInSpec => []LinkOpensOnce
<1>1. SignInInv => LinkOpensOnce
  BY DEF SignInInv
<1> QED
  BY <1>1, SignInInvariant, PTL

\* The mail budget of an email holds in every window, whatever maintenance deletes.
THEOREM BudgetHolds == SignInSpec => []LinkBudget
<1>1. SignInInv => LinkBudget
  BY DEF SignInInv
<1> QED
  BY <1>1, SignInInvariant, PTL

-----------------------------------------------------------------------------
(* What a step may never do.                                               *)

\* Why a link that could still be redeemed is lost.
LossExplained(l) ==
  \/ \E o \in opened' \ opened : o.link = l
  \/ \E k \in Links : ~Issued(k) /\ Issued(k)' /\ links'[k].email = links[l].email
  \/ \E r \in Requests : request[r].step = "revoke" /\ request[r].link = l

\* A new link withdraws the links of its own email only.
LEMMA IssueExplains ==
  ASSUME SignInInv, NEW r \in Requests, NEW k \in Links, IssueLink(r, k),
         NEW l \in Links, Pending(l), ~Pending(l)'
  PROVE  LossExplained(l)
<1>1. ~Issued(k) /\ k # l
  BY DEF IssueLink, Pending
<1>2. l \in LinksOf(request[r].email)
  BY <1>1 DEF IssueLink, Pending, Issued
<1>3. links'[k] = [email |-> request[r].email, browser |-> request[r].browser,
                   created |-> request[r].now, state |-> "pending"]
  BY DEF IssueLink
<1>4. links'[k] \in LinkRows
  BY <1>3, RequestFacts DEF IssueLink, RequestOK, LinkRows, RequestRows
<1>5. Issued(k)' /\ links'[k].email = links[l].email
  BY <1>2, <1>3, <1>4, NoneIsNoLink DEF Issued, LinksOf
<1> QED
  BY <1>1, <1>5 DEF LossExplained

\* A live link is only lost to its own redemption, a newer link or its own failed mail.
THEOREM LiveLinksAreKept == SignInSpec => LiveLinkKept
<1>1. SignInInv /\ [SignInNext]_signInVars
        => [\A l \in Links : (Pending(l) /\ clock < links[l].created + LinkLife /\ ~Pending(l)')
                               => LossExplained(l)]_signInVars
  <2> SUFFICES ASSUME SignInInv, SignInNext, NEW l \in Links, Pending(l),
                      clock < links[l].created + LinkLife, ~Pending(l)'
               PROVE  LossExplained(l)
    OBVIOUS
  <2>1. ASSUME UNCHANGED links PROVE FALSE
    BY <2>1 DEF Pending, Issued
  <2>2. ASSUME NEW S \in SUBSET Links, NEW state, Mark(S, state) PROVE l \in S
    BY <2>2 DEF Mark, Pending, Issued
  <2>3. ASSUME NEW r \in Requests, NEW s \in SessionIds, Consume(r, s) PROVE LossExplained(l)
    <3>1. request[r].link = l
      BY <2>3 DEF Consume, Mark, Pending, Issued
    <3> DEFINE new == [link |-> l, session |-> s, browser |-> request[r].browser]
    <3>2. new \in opened' /\ new.link = l
      BY <2>3, <3>1 DEF Consume
    <3>3. new \notin opened
      BY <3>2 DEF SignInInv, OpenedAreSpent
    <3> QED
      BY <3>2, <3>3 DEF LossExplained
  <2>4. ASSUME NEW r \in Requests, RevokeLink(r) PROVE LossExplained(l)
    <3>1. l = request[r].link
      BY <2>4 DEF RevokeLink, Mark, Pending, Issued
    <3> QED
      BY <2>4, <3>1 DEF RevokeLink, LossExplained
  <2>5. ASSUME NEW S \in SUBSET Links, RedactLinks(S) \/ RemoveLinks(S) PROVE FALSE
    <3>1. l \in S /\ links[l].created + LinkLife <= clock
      BY <2>2, <2>5 DEF RedactLinks, RemoveLinks
    <3>2. links[l].created \in Nat /\ clock \in Nat
      BY Types DEF Pending, SignInInv
    <3> QED
      BY <3>1, <3>2, Parameters
  <2>6. ASSUME NEW r \in Requests,
               \/ \E e \in Principals, b \in Browsers : AskForLink(r, e, b)
               \/ \E k \in Links, b \in Browsers : PresentLink(r, k, b)
               \/ IssueRefused(r) \/ SendLink(r) \/ SendFails(r) \/ ConsumeRefused(r) \/ Abort(r)
        PROVE  FALSE
    BY <2>1, <2>6 DEF AskForLink, PresentLink, IssueRefused, SendLink, SendFails, ConsumeRefused, Abort
  <2> QED
    BY <2>1, <2>3, <2>4, <2>5, <2>6, IssueExplains DEF SignInNext
<1> QED
  BY <1>1, SignInInvariant, PTL DEF SignInSpec, LiveLinkKept, LossExplained
=============================================================================
