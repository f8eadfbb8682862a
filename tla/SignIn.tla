------------------------------- MODULE SignIn -------------------------------
(***************************************************************************)
(* Passwordless sign-in (packages/application/src/magic-link.ts over       *)
(* packages/database/src/magic-link-repository.ts): a link is issued and   *)
(* mailed, and redeemed once, by the browser that asked for it.            *)
(*                                                                         *)
(* Every write of consumed_at also erases pending_email_ciphertext, so one *)
(* field says both: a "pending" row is unconsumed and holds the encrypted  *)
(* email.  attempts is never incremented; its guard always holds.  What    *)
(* happens to a session once it is open is in PrivateAccess.               *)
(***************************************************************************)
EXTENDS Sessions

CONSTANTS Links,         \* access_challenges ids, and the token mailed for each
          Browsers,      \* the browser-binding cookie
          Requests,      \* requests in flight
          LinkLife,      \* LINK_MS, 10 minutes
          Throttle,      \* 60 seconds between links of one email
          BudgetWindow,  \* the rolling hour
          BudgetMax,     \* five links in it
          KeepFor        \* rows are kept 24 hours

ASSUME LinkTimes ==
  /\ {LinkLife, Throttle, BudgetWindow, BudgetMax} \subseteq Nat \ {0}
  /\ Throttle <= BudgetWindow
  /\ KeepFor \in Nat /\ KeepFor >= BudgetWindow + MaxDelay

VARIABLES
  links,     \* access_challenges rows; a deleted row is kept as such
  accounts,  \* principals rows
  mailbox,   \* the links that reached their owner
  request,   \* local variables of the requests in flight
  opened     \* history: which link opened which session, in which browser

signInVars == <<sessionVars, links, accounts, mailbox, request, opened>>

LinkRows == [email : Principals, browser : Browsers, created : Times,
             state : {"pending", "consumed", "deleted"}]

ASSUME NoneIsNoLink == None \notin LinkRows

Idle == [step |-> "idle", email |-> None, browser |-> None, link |-> None, now |-> 0]

SignInInit ==
  /\ SessionsInit
  /\ links = [l \in Links |-> None]
  /\ accounts = {}
  /\ mailbox = {}
  /\ request = [r \in Requests |-> Idle]
  /\ opened = {}

Issued(l) == links[l] # None
Row(l) == Issued(l) /\ links[l].state # "deleted"
Pending(l) == Issued(l) /\ links[l].state = "pending"
LinksOf(e) == {l \in Links : Row(l) /\ links[l].email = e}

-----------------------------------------------------------------------------
(* requestLink                                                             *)

AskForLink(r, e, b) ==
  /\ request[r] = Idle
  /\ request' = [request EXCEPT ![r] =
       [step |-> "issue", email |-> e, browser |-> b, link |-> None, now |-> clock]]
  /\ UNCHANGED <<sessionVars, links, accounts, mailbox, opened>>

\* Five links in the last hour, or one in the last minute.
Throttled(e, now) ==
  LET recent == {l \in LinksOf(e) : links[l].created + BudgetWindow > now}
  IN \/ Cardinality(recent) >= BudgetMax
     \/ \E l \in recent : now < links[l].created + Throttle

\* Another transaction may hold the advisory lock of the email.
MayBeLocked(r) ==
  \E other \in Requests \ {r} :
    request[other].step = "issue" /\ request[other].email = request[r].email

Mark(S, state) ==
  links' = [l \in Links |-> IF l \in S THEN [links[l] EXCEPT !.state = state] ELSE links[l]]

\* Mutant: older links are withdrawn before the budget is looked at.
IssueRefused_WithdrawsFirst(r) ==
  /\ request[r].step = "issue"
  /\ MayBeLocked(r) \/ Throttled(request[r].email, request[r].now)
  /\ Mark({l \in LinksOf(request[r].email) : Pending(l)}, "consumed")
  /\ request' = [request EXCEPT ![r] = Idle]
  /\ UNCHANGED <<sessionVars, accounts, mailbox, opened>>

\* No link, and the same generic answer.
IssueRefused(r) ==
  /\ request[r].step = "issue"
  /\ MayBeLocked(r) \/ Throttled(request[r].email, request[r].now)
  /\ request' = [request EXCEPT ![r] = Idle]
  /\ UNCHANGED <<sessionVars, links, accounts, mailbox, opened>>

\* The unconsumed links of the email are withdrawn and the new row is inserted; the
\* unique index access_challenges_one_active_idx finds nothing to object to.
IssueLink(r, l) ==
  LET email == request[r].email
  IN /\ request[r].step = "issue"
     /\ ~Issued(l)
     /\ ~Throttled(email, request[r].now)
     /\ links' = [k \in Links |->
          IF k = l THEN [email |-> email, browser |-> request[r].browser,
                         created |-> request[r].now, state |-> "pending"]
          ELSE IF k \in LinksOf(email) THEN [links[k] EXCEPT !.state = "consumed"]
          ELSE links[k]]
     /\ request' = [request EXCEPT ![r].step = "send", ![r].link = l]
     /\ UNCHANGED <<sessionVars, accounts, mailbox, opened>>

SendLink(r) ==
  /\ request[r].step = "send"
  /\ mailbox' = mailbox \cup {request[r].link}
  /\ request' = [request EXCEPT ![r] = Idle]
  /\ UNCHANGED <<sessionVars, links, accounts, opened>>

\* An error or the ten-second timeout; the mail may have gone out all the same.
SendFails(r) ==
  /\ request[r].step = "send"
  /\ mailbox' \in {mailbox, mailbox \cup {request[r].link}}
  /\ request' = [request EXCEPT ![r].step = "revoke"]
  /\ UNCHANGED <<sessionVars, links, accounts, opened>>

\* revokeChallenge: only an unconsumed row.
RevokeLink(r) ==
  /\ request[r].step = "revoke"
  /\ Mark({request[r].link} \cap {l \in Links : Pending(l)}, "consumed")
  /\ request' = [request EXCEPT ![r] = Idle]
  /\ UNCHANGED <<sessionVars, accounts, mailbox, opened>>

-----------------------------------------------------------------------------
(* consumeLink                                                             *)

\* A mailed token comes back, from some browser.
PresentLink(r, l, b) ==
  /\ request[r] = Idle
  /\ l \in mailbox
  /\ request' = [request EXCEPT ![r] =
       [step |-> "consume", email |-> None, browser |-> b, link |-> l, now |-> clock]]
  /\ UNCHANGED <<sessionVars, links, accounts, mailbox, opened>>

\* Mutant: a row consumed by a concurrent redemption is not re-read.
Redeemable_ConsumedToo(l, b, now) ==
  /\ Row(l)
  /\ links[l].browser = b
  /\ links[l].created <= now
  /\ now < links[l].created + LinkLife

\* The SELECT ... FOR UPDATE of consume().
Redeemable(l, b, now) ==
  /\ Pending(l)
  /\ links[l].browser = b
  /\ links[l].created <= now
  /\ now < links[l].created + LinkLife

\* The account of the email, a new session and the spent link, in one transaction.
Consume(r, s) ==
  LET l == request[r].link
  IN /\ request[r].step = "consume"
     /\ Redeemable(l, request[r].browser, request[r].now)
     /\ accounts' = accounts \cup {links[l].email}
     /\ OpenSession(s, links[l].email, request[r].now)
     /\ Mark({l}, "consumed")
     /\ opened' = opened \cup {[link |-> l, session |-> s, browser |-> request[r].browser]}
     /\ request' = [request EXCEPT ![r] = Idle]
     /\ UNCHANGED <<clock, mailbox>>

ConsumeRefused(r) ==
  /\ request[r].step = "consume"
  /\ ~Redeemable(request[r].link, request[r].browser, request[r].now)
  /\ request' = [request EXCEPT ![r] = Idle]
  /\ UNCHANGED <<sessionVars, links, accounts, mailbox, opened>>

\* An error before the commit, or the process dies.
Abort(r) ==
  /\ request[r] # Idle
  /\ request' = [request EXCEPT ![r] = Idle]
  /\ UNCHANGED <<sessionVars, links, accounts, mailbox, opened>>

-----------------------------------------------------------------------------
(* purgeExpired: two statements, each a bounded SKIP LOCKED batch          *)

RedactLinks(S) ==
  /\ S # {}
  /\ \A l \in S : Pending(l) /\ links[l].created + LinkLife <= clock
  /\ Mark(S, "consumed")
  /\ UNCHANGED <<sessionVars, accounts, mailbox, request, opened>>

\* Mutant: expired rows are deleted at once.
RemoveLinks_Expired(S) ==
  /\ S # {}
  /\ \A l \in S : Row(l) /\ links[l].created + LinkLife <= clock
  /\ Mark(S, "deleted")
  /\ UNCHANGED <<sessionVars, accounts, mailbox, request, opened>>

RemoveLinks(S) ==
  /\ S # {}
  /\ \A l \in S : /\ Row(l)
                  /\ links[l].created + LinkLife <= clock
                  /\ links[l].created + KeepFor <= clock
  /\ Mark(S, "deleted")
  /\ UNCHANGED <<sessionVars, accounts, mailbox, request, opened>>

-----------------------------------------------------------------------------
SignInNext ==
  \/ \E r \in Requests :
       \/ \E e \in Principals, b \in Browsers : AskForLink(r, e, b)
       \/ \E l \in Links : IssueLink(r, l)
       \/ IssueRefused(r)
       \/ SendLink(r)
       \/ SendFails(r)
       \/ RevokeLink(r)
       \/ \E l \in Links, b \in Browsers : PresentLink(r, l, b)
       \/ \E s \in SessionIds : Consume(r, s)
       \/ ConsumeRefused(r)
       \/ Abort(r)
  \/ \E S \in SUBSET Links : RedactLinks(S) \/ RemoveLinks(S)
  \/ /\ Tick({request[r].now : r \in {q \in Requests : request[q] # Idle}})
     /\ UNCHANGED <<links, accounts, mailbox, request, opened>>

SignInSpec == SignInInit /\ [][SignInNext]_signInVars

-----------------------------------------------------------------------------
RequestRows ==
  [step : {"idle", "issue", "send", "revoke", "consume"}, email : Principals \cup {None},
   browser : Browsers \cup {None}, link : Links \cup {None}, now : Times]

\* Type invariant of the sign-in rows and requests.
SignInTypeOK ==
  /\ SessionsTypeOK
  /\ links \in [Links -> LinkRows \cup {None}]
  /\ accounts \subseteq Principals
  /\ mailbox \subseteq Links
  /\ request \in [Requests -> RequestRows]
  /\ opened \subseteq [link : Links, session : SessionIds, browser : Browsers]

\* The link of an email that can be redeemed is the only one and the last one asked for,
\* also when a request that was asked earlier commits later (issue).
OnlyNewestLinkPending ==
  \A l, k \in Links :
    (Pending(l) /\ Issued(k) /\ k # l /\ links[k].email = links[l].email)
      => ~Pending(k) /\ links[k].created < links[l].created

\* docs/authentication.md: "Concurrent redemption permits only one success."  A link
\* opens one session at most, whoever redeems it when: in the browser that asked for
\* it, for the account of its email, and within its life (consume); and only the newest
\* one of an email can still open one.
LinkOpensOnce ==
  /\ OnlyNewestLinkPending
  /\ \A o1, o2 \in opened : o1.link = o2.link => o1 = o2
  /\ \A o \in opened :
       LET l == links[o.link]
           s == sessions[o.session]
       IN /\ o.browser = l.browser
          /\ s.principal = l.email /\ l.email \in accounts
          /\ s.created \in l.created .. l.created + LinkLife - 1

\* Whatever requests overlap and whenever maintenance runs, an email is sent at most
\* BudgetMax links in any window and none closer than the throttle (issue, purgeExpired).
LinkBudget ==
  \A e \in Principals :
    LET of == {l \in Links : Issued(l) /\ links[l].email = e}
    IN /\ \A l \in of : Cardinality({k \in of : /\ links[k].created <= links[l].created
                                               /\ links[l].created < links[k].created + BudgetWindow})
                          <= BudgetMax
       /\ \A l, k \in of : l # k => \/ links[l].created >= links[k].created + Throttle
                                    \/ links[k].created >= links[l].created + Throttle

\* A link that could still be redeemed is only lost by being redeemed, by a newer link of
\* its email, or because its own mail failed; a refused request and maintenance leave it
\* alone (docs/authentication.md: throttled requests "do not invalidate the still-active
\* link").
LiveLinkKept ==
  [][\A l \in Links :
       (Pending(l) /\ clock < links[l].created + LinkLife /\ ~Pending(l)')
         => \/ \E o \in opened' \ opened : o.link = l
            \/ \E k \in Links : ~Issued(k) /\ Issued(k)' /\ links'[k].email = links[l].email
            \/ \E r \in Requests : request[r].step = "revoke" /\ request[r].link = l]_signInVars
=============================================================================
