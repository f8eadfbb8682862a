---------------------------- MODULE PrivateAccess ----------------------------
(***************************************************************************)
(* The private routes (packages/application/src/private-access.ts over     *)
(* packages/database/src/private-access-repository.ts): account, report,   *)
(* signed PDF, life-cycle request and sign-out everywhere.  One action per *)
(* await of a handler; sessions may be revoked and entitlements withdrawn  *)
(* between any two.                                                        *)
(*                                                                         *)
(* A request is served once.  "csrf" is what the headers of the request    *)
(* are worth: they match the session it names.  Malformed input is refused *)
(* with an audit row like a failed synchronizer token and is not told      *)
(* apart from it.                                                          *)
(***************************************************************************)
EXTENDS Sessions

CONSTANTS Reports,
          Owner,      \* the principal of the report's order and entitlement
          Requests,
          Keys,       \* idempotency keys
          Actions     \* life-cycle actions: correction, export, deletion

ASSUME ReportsAreOwned ==
  /\ Owner \in [Reports -> Principals]
  /\ Actions \subseteq {"correction", "export", "deletion"}

VARIABLES
  entitlement,  \* entitlements: "none", "granted" or "revoked" (the payment repository)
  ready,        \* reports with status 'ready' (the report worker, not in the repository)
  rows,         \* private_access_requests
  audits,       \* audit_events: what is on record for each request
  call          \* the requests in flight and what they answered

accessVars == <<sessionVars, entitlement, ready, rows, audits, call>>

Reads == {"account", "report", "signedPdf"}
Operations == Reads \cup {"lifecycle", "revokeAll"}

NewCall == [step |-> "new"]

AccessInit ==
  /\ SessionsInit
  /\ entitlement = [x \in Reports |-> "none"]
  /\ ready = {}
  /\ rows = {}
  /\ audits = [r \in Requests |-> "none"]
  /\ call = [r \in Requests |-> NewCall]

rowVars == <<entitlement, ready, rows, audits>>

-----------------------------------------------------------------------------
(* What the other parts do to these rows *)

\* Redeeming a link (SignIn).
SignedIn(s, p, now) ==
  /\ now <= clock /\ clock <= now + MaxDelay
  /\ OpenSession(s, p, now)
  /\ UNCHANGED <<clock, rowVars, call>>

Grant(x) ==
  /\ entitlement[x] = "none"
  /\ entitlement' = [entitlement EXCEPT ![x] = "granted"]
  /\ UNCHANGED <<sessionVars, ready, rows, audits, call>>

Withdraw(x) ==
  /\ entitlement[x] = "granted"
  /\ entitlement' = [entitlement EXCEPT ![x] = "revoked"]
  /\ UNCHANGED <<sessionVars, ready, rows, audits, call>>

\* A granted report is finished.
Finish(x) ==
  /\ entitlement[x] # "none"
  /\ x \notin ready
  /\ ready' = ready \cup {x}
  /\ UNCHANGED <<sessionVars, entitlement, rows, audits, call>>

-----------------------------------------------------------------------------
(* Authentication: read() of session-authentication.ts                     *)

\* What a handler asks of the session before it does anything: all but the two GET
\* routes need the synchronizer token, sign-out everywhere and the sensitive requests a
\* recent sign-in.
Allowed(op, s, csrf, action, now) ==
  /\ Active(s, now)
  /\ op \notin {"account", "report"} => csrf
  /\ (op = "revokeAll" \/ action \in {"export", "deletion"}) => IsRecent(s, now)

FirstStep(op) ==
  CASE op \in Reads -> "find" [] op = "lifecycle" -> "write" [] op = "revokeAll" -> "revoke"

\* A request until its session is verified, findActive being the first await of every
\* handler.  "now" is its clock sample, "target" the report or None.  "known" and
\* "withdrawn" are history: the sessions there were and the reports no longer owned then.
\* A request without a session cookie fares like one whose session is closed.
Authenticate(r, op, s, csrf, x, key, action, now) ==
  /\ call[r] = NewCall
  /\ Known(s)
  /\ now <= clock /\ clock <= now + MaxDelay
  /\ call' = [call EXCEPT ![r] =
       IF Allowed(op, s, csrf, action, now)
       THEN [step |-> FirstStep(op), op |-> op, session |-> s, target |-> x, key |-> key,
             action |-> action, at |-> clock, found |-> {},
             known |-> IF op = "revokeAll" THEN {t \in SessionIds : Known(t)} ELSE {},
             withdrawn |-> {y \in Reports : entitlement[y] = "revoked"}]
       ELSE [step |-> "deny", at |-> clock]]
  /\ UNCHANGED <<sessionVars, rowVars>>

Go(r, step) == call' = [call EXCEPT ![r].step = step]

\* A request that was answered; its local variables are gone.
Answer(r, answer) == call' = [call EXCEPT ![r] = [step |-> "answered", answer |-> answer]]

PrincipalOf(r) == sessions[call[r].session].principal

\* The denial is audited, then answered; without the audit row the answer is 503.
Deny(r) ==
  /\ call[r].step = "deny"
  /\ audits' = [audits EXCEPT ![r] = "denied"]
  /\ Answer(r, "denied") \/ Answer(r, "unavailable")
  /\ UNCHANGED <<sessionVars, entitlement, ready, rows>>

\* Any await may fail, decryption too: nothing is written and every handler answers 503.
\* A write whose commit is not confirmed is a case of the actions that write.
Unavailable(r) ==
  /\ call[r].step \notin {"new", "answered"}
  /\ Answer(r, "unavailable")
  /\ UNCHANGED <<sessionVars, rowVars>>

-----------------------------------------------------------------------------
(* account, report and signedPdf                                           *)

\* Mutant: a revoked entitlement is not left out.
Entitled_RevokedToo(p, x) ==
  /\ Owner[x] = p
  /\ entitlement[x] # "none"
  /\ x \in ready

\* The join of findMany and of createLifecycleRequest: owner, live entitlement, ready
\* report.  granted_at <= now only delays what a request with an old sample sees.
Entitled(p, x) ==
  /\ Owner[x] = p
  /\ entitlement[x] = "granted"
  /\ x \in ready

\* The ciphertexts are read, and revealed, before the audit; a report that is not there
\* is denied, an empty account is not.
FindReports(r) ==
  LET wanted == IF call[r].op = "account" THEN Reports ELSE {call[r].target}
      found == {x \in wanted : Entitled(PrincipalOf(r), x)}
  IN /\ call[r].step = "find"
     /\ IF found = {} /\ call[r].op # "account"
        THEN call' = [call EXCEPT ![r] = [step |-> "deny", at |-> call[r].at]]
        ELSE call' = [call EXCEPT ![r].step = "audit", ![r].found = found]
     /\ UNCHANGED <<sessionVars, rowVars>>

\* Mutant: a failed audit does not stop the answer.
AuditRead_BestEffort(r) ==
  /\ call[r].step = "audit"
  /\ audits' \in {audits, [audits EXCEPT ![r] = "success"]}
  /\ Answer(r, "ok")
  /\ UNCHANGED <<sessionVars, entitlement, ready, rows>>

\* The read is audited, then delivered; there is no signed PDF to deliver yet (501).
AuditRead(r) ==
  /\ call[r].step = "audit"
  /\ audits' = [audits EXCEPT ![r] = "success"]
  /\ \/ call[r].op = "signedPdf" /\ Answer(r, "not implemented")
     \/ call[r].op # "signedPdf" /\ Answer(r, "ok")
     \/ Answer(r, "unavailable")
  /\ UNCHANGED <<sessionVars, entitlement, ready, rows>>

-----------------------------------------------------------------------------
(* createLifecycleRequest: one transaction with its audit row              *)

RowsFor(p, x, key) ==
  {row \in rows : row.principal = p /\ row.report = x /\ row.key = key}

\* Mutant: a replay is not compared with the row it replays.
Outcome_AnyReplay(r) ==
  IF Entitled(PrincipalOf(r), call[r].target) THEN "ok" ELSE "denied"

\* The fingerprint covers the action and the report.
Outcome(r) ==
  LET same == RowsFor(PrincipalOf(r), call[r].target, call[r].key)
  IN IF ~Entitled(PrincipalOf(r), call[r].target) THEN "denied"
     ELSE IF \E row \in same : row.action # call[r].action THEN "conflict"
     ELSE "ok"

\* Inserted on first use of the key; afterwards the row is only looked up.
WriteRequest(r) ==
  LET x == call[r].target
      same == RowsFor(PrincipalOf(r), x, call[r].key)
  IN /\ call[r].step = "write"
     /\ rows' = IF Outcome(r) = "ok" /\ same = {}
                THEN rows \cup {[id |-> r, principal |-> PrincipalOf(r), report |-> x,
                                 key |-> call[r].key, action |-> call[r].action]}
                ELSE rows
     /\ audits' = [audits EXCEPT ![r] = IF Outcome(r) = "ok" THEN "success" ELSE "denied"]
     /\ Answer(r, Outcome(r)) \/ Answer(r, "unavailable")
     /\ UNCHANGED <<sessionVars, entitlement, ready>>

-----------------------------------------------------------------------------
(* revokeAllSessions: the sessions and the audit row, with a second sample *)

RevokeAll(r) ==
  /\ call[r].step = "revoke"
  /\ \E now \in call[r].at .. clock : RevokeSessions(PrincipalOf(r), now)
  /\ audits' = [audits EXCEPT ![r] = "success"]
  /\ Answer(r, "ok") \/ Answer(r, "unavailable")
  /\ UNCHANGED <<clock, entitlement, ready, rows>>

-----------------------------------------------------------------------------
InFlight == {r \in Requests : call[r].step \notin {"new", "answered"}}

AccessNext ==
  \/ \E s \in SessionIds, p \in Principals, now \in Times : SignedIn(s, p, now)
  \/ \E x \in Reports : Grant(x) \/ Withdraw(x) \/ Finish(x)
  \/ \E r \in Requests :
       \/ \E s \in SessionIds, csrf \in BOOLEAN, now \in Times :
            \/ \E op \in {"account", "revokeAll"} :
                 Authenticate(r, op, s, csrf, None, None, "none", now)
            \/ \E op \in {"report", "signedPdf"}, x \in Reports :
                 Authenticate(r, op, s, csrf, x, None, "none", now)
            \/ \E x \in Reports, k \in Keys, a \in Actions :
                 Authenticate(r, "lifecycle", s, csrf, x, k, a, now)
       \/ Deny(r)
       \/ Unavailable(r)
       \/ FindReports(r)
       \/ AuditRead(r)
       \/ WriteRequest(r)
       \/ RevokeAll(r)
  \/ /\ SessionStep \/ Tick({call[r].at : r \in InFlight})
     /\ UNCHANGED <<rowVars, call>>

AccessSpec == AccessInit /\ [][AccessNext]_accessVars

-----------------------------------------------------------------------------
Calls ==
  [step : {"find", "audit", "write", "revoke"},
   op : Operations, session : SessionIds, target : Reports \cup {None},
   key : Keys \cup {None}, action : Actions \cup {"none"}, at : Times,
   found : SUBSET Reports, known : SUBSET SessionIds, withdrawn : SUBSET Reports]

Answers == {"ok", "denied", "conflict", "unavailable", "not implemented"}

\* Type invariant of the rows of the private routes and their requests.
AccessTypeOK ==
  /\ SessionsTypeOK
  /\ entitlement \in [Reports -> {"none", "granted", "revoked"}]
  /\ ready \subseteq Reports
  /\ rows \subseteq [id : Requests, principal : Principals, report : Reports,
                    key : Keys, action : Actions]
  /\ audits \in [Requests -> {"none", "success", "denied"}]
  /\ \A r \in Requests : call[r] \in {NewCall} \cup Calls \cup
                                       [step : {"deny"}, at : Times] \cup
                                       [step : {"answered"}, answer : Answers]

Answered(r, answer) == call[r].step = "answered" /\ call[r].answer = answer

\* The step that answers request r with success.
Serves(r) == r \in InFlight /\ Answered(r, "ok")'

\* A request that comes after a report's entitlement was withdrawn delivers and accepts
\* nothing of it, and no request is served another principal's report, whatever happens
\* between its awaits (read, findMany, createLifecycleRequest).
RevocationStops ==
  [][\A r \in Requests : Serves(r) =>
       LET served == IF call[r].op = "lifecycle" THEN {call[r].target} ELSE call[r].found
       IN /\ served \cap call[r].withdrawn = {}
          /\ \A x \in served : Owner[x] = PrincipalOf(r)]_accessVars

\* docs/authentication.md: "Failed audit persistence prevents successful
\* delivery/mutation": whatever was delivered, refused or accepted is on record as such.
EverythingIsAudited ==
  /\ \A r \in Requests :
       /\ Answered(r, "ok") \/ Answered(r, "not implemented") => audits[r] = "success"
       /\ Answered(r, "denied") \/ Answered(r, "conflict") => audits[r] = "denied"
  /\ \A row \in rows : audits[row.id] = "success"

\* Two accepted requests with one key for one report asked for the same thing and are the
\* same row, however they overlap and whichever answers were lost (createLifecycleRequest).
ReceiptsAgree ==
  [][\A r \in Requests : (Serves(r) /\ call[r].op = "lifecycle") =>
       LET same == {row \in rows' : /\ row.principal = PrincipalOf(r)
                                    /\ row.report = call[r].target
                                    /\ row.key = call[r].key}
       IN Cardinality(same) = 1 /\ \A row \in same : row.action = call[r].action]_accessVars

\* docs/authentication.md: global sign-out "atomically revokes active owner sessions": when
\* it is confirmed, no session its owner had when asking can be used, this one included
\* (revokeAll).
SignedOutEverywhere ==
  [][\A r \in Requests : (Serves(r) /\ call[r].op = "revokeAll") =>
       \A s \in call[r].known : sessions[s].principal = PrincipalOf(r) => ~Active(s, clock)']_accessVars
=============================================================================
