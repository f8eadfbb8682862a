------------------------ MODULE PrivateAccessProofs -------------------------
(***************************************************************************)
(* What the private routes guarantee for any number of accounts, sessions, *)
(* reports, keys and requests.  The properties are about the step that     *)
(* answers; what a request carries to it from its first await (CallOK) and *)
(* that rows are only ever withdrawn (Onward) is what makes them hold      *)
(* whatever happens in between.                                            *)
(***************************************************************************)
EXTENDS PrivateAccess, FiniteSetTheorems, TLAPS

-----------------------------------------------------------------------------
(* The inductive invariant.                                                *)

Refused == [step : {"deny"}, at : Times]
Done == [step : {"answered"}, answer : Answers]

RequestRows == [id : Requests, principal : Principals, report : Reports,
                key : Keys, action : Actions]

AccessTyped ==
  /\ SessionsTypeOK
  /\ entitlement \in [Reports -> {"none", "granted", "revoked"}]
  /\ ready \subseteq Reports
  /\ rows \subseteq RequestRows
  /\ audits \in [Requests -> {"none", "success", "denied"}]
  /\ call \in [Requests -> {NewCall} \cup Calls \cup Refused \cup Done]

Serving == {"find", "audit", "write", "revoke"}

\* The awaits of each operation, and what they need of the request.
OperationOK(r) ==
  /\ call[r].step \in {"find", "audit"} => call[r].op \in Reads
  /\ call[r].step = "find" /\ call[r].op # "account" => call[r].target \in Reports
  /\ call[r].step = "write" =>
       /\ call[r].op = "lifecycle" /\ call[r].target \in Reports
       /\ call[r].key \in Keys /\ call[r].action \in Actions
  /\ call[r].step = "revoke" => call[r].op = "revokeAll"

\* What a request may rely on after each await: its session existed, what it noted of the
\* past is past, and what it found was its owner's and not withdrawn before.
CallOK(r) ==
  /\ OperationOK(r)
  /\ call[r].step \in Serving =>
       /\ Known(call[r].session)
       /\ call[r].at <= clock
       /\ \A x \in call[r].withdrawn : entitlement[x] = "revoked"
       /\ \A s \in call[r].known : Known(s) /\ sessions[s].created <= call[r].at
       /\ \A x \in call[r].found : Owner[x] = PrincipalOf(r) /\ x \notin call[r].withdrawn

\* No session is younger than the clock says.
SessionsPast == \A s \in SessionIds : Known(s) => sessions[s].created <= clock

SameKey(row, other) ==
  row.principal = other.principal /\ row.report = other.report /\ row.key = other.key

\* A key of an account stands for one row of a report, written by a request that is over.
RowsOK ==
  /\ \A row, other \in rows : SameKey(row, other) => row = other
  /\ \A row \in rows : call[row.id].step = "answered"

AccessInv ==
  /\ AccessTyped
  /\ SessionsPast
  /\ \A r \in Requests : CallOK(r)
  /\ RowsOK
  /\ EverythingIsAudited

-----------------------------------------------------------------------------
(* What no step undoes.                                                    *)

\* Time passes, sessions stay who they are and closed, and what was withdrawn stays so.
Onward ==
  /\ clock <= clock'
  /\ \A s \in SessionIds : Known(s) =>
       /\ Known(s)' /\ sessions'[s].principal = sessions[s].principal
       /\ sessions'[s].created = sessions[s].created
       /\ sessions[s].state = "closed" => sessions'[s].state = "closed"
  /\ \A x \in Reports : entitlement[x] = "revoked" => entitlement'[x] = "revoked"

LEMMA TimeTypes ==
  /\ \A t \in Times : t \in Nat
  /\ SessionLife \in Nat /\ RecentAuth \in Nat /\ MaxDelay \in Nat /\ MaxClock \in Nat
BY TimesAreNaturals DEF Times

\* The row of a session.
LEMMA SessionTypes ==
  ASSUME SessionsTypeOK
  PROVE  /\ clock \in Times /\ clock \in Nat
         /\ \A s \in SessionIds : Known(s) =>
              /\ sessions[s] \in SessionRows /\ sessions[s].created \in Times
              /\ sessions[s].created \in Nat /\ sessions[s].principal \in Principals
              /\ sessions[s].state \in {"open", "closed"}
<1>1. clock \in Times /\ clock \in Nat
  BY TimeTypes DEF SessionsTypeOK
<1>2. ASSUME NEW s \in SessionIds, Known(s)
      PROVE  /\ sessions[s] \in SessionRows /\ sessions[s].created \in Times
             /\ sessions[s].principal \in Principals /\ sessions[s].state \in {"open", "closed"}
  BY <1>2 DEF SessionsTypeOK, Known, SessionRows
<1> QED
  BY <1>1, <1>2, TimeTypes

\* The fields of a request that is being served.
LEMMA CallTypes ==
  ASSUME AccessTyped, NEW r \in Requests
  PROVE  /\ call[r].step \in Serving =>
              /\ call[r] \in Calls
              /\ call[r].session \in SessionIds /\ call[r].at \in Times /\ call[r].at \in Nat
              /\ call[r].found \subseteq Reports /\ call[r].known \subseteq SessionIds
              /\ call[r].withdrawn \subseteq Reports
         /\ call[r].step = "deny" => call[r] \in Refused /\ call[r].at \in Times
         /\ call[r].step \in {"new", "deny", "answered"} \cup Serving
<1>1. call[r] \in {NewCall} \cup Calls \cup Refused \cup Done
  BY DEF AccessTyped
<1>2. CASE call[r] \in Calls
  BY <1>2, TimeTypes DEF Calls, Serving
<1>3. CASE call[r] \in Refused
  BY <1>3, TimeTypes DEF Refused, Serving
<1>4. CASE call[r] \in Done
  BY <1>4 DEF Done, Serving
<1>5. CASE call[r] = NewCall
  BY <1>5 DEF NewCall, Serving
<1> QED
  BY <1>1, <1>2, <1>3, <1>4, <1>5

\* A request that waits can rely on the same as before.
LEMMA WaitingCall ==
  ASSUME AccessTyped, AccessTyped', NEW r \in Requests, CallOK(r), Onward, call'[r] = call[r]
  PROVE  CallOK(r)'
<1>1. OperationOK(r)'
  BY DEF CallOK, OperationOK
<1>2. ASSUME call[r].step \in Serving
      PROVE  /\ sessions'[call[r].session] # None
             /\ sessions'[call[r].session].principal = sessions[call[r].session].principal
             /\ call[r].at <= clock'
             /\ \A x \in call[r].withdrawn : entitlement'[x] = "revoked"
             /\ \A s \in call[r].known : Known(s)' /\ sessions'[s].created <= call[r].at
             /\ \A x \in call[r].found : Owner[x] = PrincipalOf(r) /\ x \notin call[r].withdrawn
  <2>1. /\ call[r].session \in SessionIds /\ call[r].at \in Nat
        /\ call[r].known \subseteq SessionIds /\ call[r].withdrawn \subseteq Reports
    BY <1>2, CallTypes
  <2>2. clock \in Nat /\ clock' \in Nat
    BY TimeTypes DEF AccessTyped, SessionsTypeOK
  <2>3. call[r].at <= clock'
    BY <1>2, <2>1, <2>2 DEF CallOK, Onward
  <2>4. \A s \in call[r].known : Known(s)' /\ sessions'[s].created <= call[r].at
    BY <1>2, <2>1 DEF CallOK, Onward
  <2> QED
    BY <1>2, <2>1, <2>3, <2>4 DEF CallOK, Onward, Known
<1> QED
  BY <1>1, <1>2 DEF CallOK, Known, PrincipalOf

\* The rows of the other parts move; no request does.
LEMMA RowsMove ==
  ASSUME AccessInv, Onward, SessionsTypeOK', SessionsPast',
         entitlement' \in [Reports -> {"none", "granted", "revoked"}], ready' \subseteq Reports,
         UNCHANGED <<rows, audits, call>>
  PROVE  AccessInv'
<1>1. AccessTyped'
  BY DEF AccessInv, AccessTyped
<1>2. \A r \in Requests : CallOK(r)'
  BY <1>1, WaitingCall DEF AccessInv
<1>3. RowsOK' /\ EverythingIsAudited'
  BY DEF AccessInv, RowsOK, SameKey, EverythingIsAudited, Answered
<1> QED
  BY <1>1, <1>2, <1>3 DEF AccessInv

\* One request moves, with its audit row and the row it may have written.
LEMMA CallMoves ==
  ASSUME AccessInv, Onward, SessionsTypeOK', SessionsPast', UNCHANGED <<entitlement, ready>>,
         NEW r \in Requests, call[r].step # "answered",
         NEW k \in {NewCall} \cup Calls \cup Refused \cup Done, call' = [call EXCEPT ![r] = k],
         CallOK(r)',
         NEW audit \in {"none", "success", "denied"}, audits' = [audits EXCEPT ![r] = audit],
         k.step = "answered" =>
           /\ k.answer \in {"ok", "not implemented"} => audit = "success"
           /\ k.answer \in {"denied", "conflict"} => audit = "denied",
         rows' \subseteq RequestRows,
         \A row \in rows' : row \in rows \/ (row.id = r /\ k.step = "answered" /\ audit = "success"),
         \A row, other \in rows' : SameKey(row, other) => row = other
  PROVE  AccessInv'
<1>1. /\ call'[r] = k /\ audits'[r] = audit
      /\ \A q \in Requests \ {r} : call'[q] = call[q] /\ audits'[q] = audits[q]
  BY DEF AccessInv, AccessTyped
<1>2. AccessTyped'
  BY DEF AccessInv, AccessTyped
<1>3. \A q \in Requests : CallOK(q)'
  BY <1>1, <1>2, WaitingCall DEF AccessInv
<1>4. ASSUME NEW row \in rows'
      PROVE  call'[row.id].step = "answered" /\ audits'[row.id] = "success"
  <2>1. CASE row \in rows
    <3>1. row.id \in Requests /\ call[row.id].step = "answered" /\ audits[row.id] = "success"
      BY <2>1 DEF AccessInv, AccessTyped, RequestRows, RowsOK, EverythingIsAudited
    <3>2. row.id # r
      BY <3>1
    <3> QED
      BY <1>1, <3>1, <3>2
  <2>2. CASE row.id = r /\ k.step = "answered" /\ audit = "success"
    BY <1>1, <2>2
  <2> QED
    BY <2>1, <2>2
<1>5. RowsOK'
  BY <1>4 DEF RowsOK, SameKey
<1>6. ASSUME NEW q \in Requests
      PROVE  /\ (Answered(q, "ok") \/ Answered(q, "not implemented"))' => audits'[q] = "success"
             /\ (Answered(q, "denied") \/ Answered(q, "conflict"))' => audits'[q] = "denied"
  <2>1. CASE q = r
    BY <1>1, <2>1 DEF Answered
  <2>2. CASE q # r
    BY <1>1, <2>2 DEF Answered, AccessInv, EverythingIsAudited
  <2> QED
    BY <2>1, <2>2
<1>7. EverythingIsAudited'
  BY <1>4, <1>6 DEF EverythingIsAudited
<1> QED
  BY <1>2, <1>3, <1>5, <1>7 DEF AccessInv

\* A request that is answered, or refused, relies on nothing.
LEMMA RestingCall ==
  ASSUME NEW r \in Requests, call'[r].step \in {"answered", "deny"}
  PROVE  CallOK(r)'
BY DEF CallOK, OperationOK, Serving

\* Closing sessions.
LEMMA Closing ==
  ASSUME AccessInv, NEW S \in SUBSET SessionIds, \A s \in S : Known(s), Close(S),
         UNCHANGED <<clock, entitlement>>
  PROVE  /\ Onward /\ SessionsTypeOK' /\ SessionsPast'
         /\ \A s \in S : sessions'[s].state = "closed"
<1>1. \A s \in SessionIds :
        sessions'[s] = IF s \in S THEN [sessions[s] EXCEPT !.state = "closed"] ELSE sessions[s]
  BY DEF Close
<1>2. SessionsTypeOK /\ clock \in Nat
  BY SessionTypes DEF AccessInv, AccessTyped
<1>3. ASSUME NEW s \in S
      PROVE  /\ sessions'[s] \in SessionRows /\ sessions'[s].state = "closed"
             /\ sessions'[s].principal = sessions[s].principal
             /\ sessions'[s].created = sessions[s].created
  <2>1. sessions[s] \in SessionRows /\ sessions'[s] = [sessions[s] EXCEPT !.state = "closed"]
    BY <1>1, <1>2, SessionTypes
  <2> QED
    BY <2>1 DEF SessionRows
<1>4. SessionsTypeOK'
  BY <1>1, <1>2, <1>3 DEF SessionsTypeOK, Close
<1>5. ASSUME NEW s \in SessionIds, Known(s)
      PROVE  /\ sessions'[s] # None /\ sessions'[s].principal = sessions[s].principal
             /\ sessions'[s].created = sessions[s].created
             /\ sessions[s].state = "closed" => sessions'[s].state = "closed"
  <2>1. CASE s \in S
    BY <1>3, <2>1, NoneIsNoSession
  <2>2. CASE s \notin S
    BY <1>1, <1>5, <2>2 DEF Known
  <2> QED
    BY <2>1, <2>2
<1>6. SessionsPast'
  BY <1>1, <1>3 DEF AccessInv, SessionsPast, Known
<1>7. Onward
  BY <1>2, <1>5 DEF Onward, Known
<1> QED
  BY <1>3, <1>4, <1>6, <1>7

-----------------------------------------------------------------------------
(* The steps.                                                              *)

LEMMA SignedInInv ==
  ASSUME AccessInv, NEW s \in SessionIds, NEW p \in Principals, NEW now \in Times,
         SignedIn(s, p, now)
  PROVE  AccessInv'
<1> DEFINE row == [principal |-> p, created |-> now, state |-> "open"]
<1>1. /\ ~Known(s) /\ sessions' = [sessions EXCEPT ![s] = row] /\ now <= clock
      /\ UNCHANGED <<clock, rowVars, call>>
  BY DEF SignedIn, OpenSession
<1>2. row \in SessionRows /\ row.created = now
  BY DEF SessionRows
<1> HIDE DEF row
<1>3. SessionsTypeOK /\ clock \in Nat
  BY SessionTypes DEF AccessInv, AccessTyped
<1>4. SessionsTypeOK'
  BY <1>1, <1>2, <1>3 DEF SessionsTypeOK
<1>5. sessions'[s] = row /\ \A t \in SessionIds \ {s} : sessions'[t] = sessions[t]
  BY <1>1, <1>3 DEF SessionsTypeOK
<1>6. SessionsPast'
  BY <1>1, <1>2, <1>5 DEF AccessInv, SessionsPast, Known
<1>7. Onward
  BY <1>1, <1>3, <1>5 DEF Onward, Known, rowVars
<1>8. UNCHANGED <<entitlement, ready, rows, audits, call>>
  BY <1>1 DEF rowVars
<1> QED
  BY <1>4, <1>6, <1>7, <1>8, RowsMove DEF AccessInv, AccessTyped

LEMMA SessionsKept ==
  ASSUME AccessInv, UNCHANGED <<sessionVars, entitlement>>
  PROVE  Onward /\ SessionsTypeOK' /\ SessionsPast'
<1>1. UNCHANGED <<clock, sessions, entitlement>> /\ clock \in Nat
  BY SessionTypes DEF sessionVars, AccessInv, AccessTyped
<1>2. SessionsTypeOK'
  BY <1>1 DEF AccessInv, AccessTyped, SessionsTypeOK
<1>3. SessionsPast' /\ Onward
  BY <1>1 DEF AccessInv, SessionsPast, Known, Onward
<1> QED
  BY <1>2, <1>3

LEMMA EntitlementInv ==
  ASSUME AccessInv, NEW x \in Reports, Grant(x) \/ Withdraw(x) \/ Finish(x)
  PROVE  AccessInv'
<1>1. UNCHANGED <<sessionVars, rows, audits, call>> /\ UNCHANGED <<clock, sessions>>
  BY DEF Grant, Withdraw, Finish, sessionVars
<1>2. entitlement' \in [Reports -> {"none", "granted", "revoked"}] /\ ready' \subseteq Reports
  BY DEF Grant, Withdraw, Finish, AccessInv, AccessTyped
<1>3. \A y \in Reports : entitlement[y] = "revoked" => entitlement'[y] = "revoked"
  BY DEF Grant, Withdraw, Finish, AccessInv, AccessTyped
<1>4. SessionsTypeOK' /\ SessionsPast' /\ clock \in Nat
  BY <1>1, SessionTypes DEF AccessInv, AccessTyped, SessionsTypeOK, SessionsPast, Known
<1>5. Onward
  BY <1>1, <1>3, <1>4 DEF Onward, Known
<1> QED
  BY <1>1, <1>2, <1>4, <1>5, RowsMove

LEMMA SessionStepInv ==
  ASSUME AccessInv, SessionStep, UNCHANGED <<rowVars, call>>
  PROVE  AccessInv'
<1>1. PICK S \in SUBSET SessionIds :
        (\A s \in S : Known(s)) /\ Close(S) /\ UNCHANGED clock
  <2>1. ASSUME NEW s \in SessionIds, Logout(s)
        PROVE  \E S \in SUBSET SessionIds : (\A t \in S : Known(t)) /\ Close(S) /\ UNCHANGED clock
    <3>1. {s} \in SUBSET SessionIds /\ (\A t \in {s} : Known(t)) /\ Close({s}) /\ UNCHANGED clock
      BY <2>1 DEF Logout, Active
    <3> QED
      BY <3>1
  <2>2. ASSUME NEW S \in SUBSET SessionIds, PurgeSessions(S)
        PROVE  (\A t \in S : Known(t)) /\ Close(S) /\ UNCHANGED clock
    BY <2>2 DEF PurgeSessions
  <2> QED
    BY <2>1, <2>2 DEF SessionStep
<1>2. UNCHANGED <<entitlement, ready, rows, audits, call>>
  BY DEF rowVars
<1>3. Onward /\ SessionsTypeOK' /\ SessionsPast'
  BY <1>1, <1>2, Closing
<1> QED
  BY <1>2, <1>3, RowsMove DEF AccessInv, AccessTyped

LEMMA TickInv ==
  ASSUME AccessInv, NEW sampled, Tick(sampled), UNCHANGED <<rowVars, call>>
  PROVE  AccessInv'
<1>1. /\ clock < MaxClock /\ clock' = clock + 1 /\ UNCHANGED sessions
      /\ UNCHANGED <<entitlement, ready, rows, audits, call>>
  BY DEF Tick, rowVars
<1>2. SessionsTypeOK /\ clock \in Nat
  BY SessionTypes DEF AccessInv, AccessTyped
<1>3. clock' \in Times /\ clock <= clock'
  BY <1>1, <1>2, TimeTypes DEF Times
<1>4. SessionsTypeOK'
  BY <1>1, <1>2, <1>3 DEF SessionsTypeOK
<1>5. ASSUME NEW s \in SessionIds, Known(s)
      PROVE  sessions[s].created <= clock'
  BY <1>1, <1>2, <1>5, SessionTypes DEF AccessInv, SessionsPast
<1>6. SessionsPast'
  BY <1>1, <1>5 DEF SessionsPast, Known
<1>7. Onward
  BY <1>1, <1>3 DEF Onward, Known
<1> QED
  BY <1>1, <1>4, <1>6, <1>7, RowsMove DEF AccessInv, AccessTyped

\* A request moves without a new audit row or a new row.
LEMMA QuietMove ==
  ASSUME AccessInv, UNCHANGED <<sessionVars, rowVars>>, NEW r \in Requests,
         call[r].step # "answered", NEW k \in {NewCall} \cup Calls \cup Refused \cup Done,
         call' = [call EXCEPT ![r] = k], CallOK(r)',
         k.step = "answered" => k.answer \notin {"ok", "not implemented", "denied", "conflict"}
  PROVE  AccessInv'
<1>1. UNCHANGED <<entitlement, ready, rows, audits>>
  BY DEF rowVars
<1>2. Onward /\ SessionsTypeOK' /\ SessionsPast'
  BY <1>1, SessionsKept
<1>3. PICK audit \in {"none", "success", "denied"} : audit = audits[r]
  BY DEF AccessInv, AccessTyped
<1>4. audits' = [audits EXCEPT ![r] = audit]
  BY <1>1, <1>3 DEF AccessInv, AccessTyped
<1>5. rows' \subseteq RequestRows /\ \A row, other \in rows' : SameKey(row, other) => row = other
  BY <1>1 DEF AccessInv, AccessTyped, RowsOK
<1> QED
  BY <1>1, <1>2, <1>4, <1>5, CallMoves

\* A request begins: its session is verified.
LEMMA AuthenticateInv ==
  ASSUME AccessInv, NEW r \in Requests, NEW op \in Operations, NEW s \in SessionIds,
         NEW csrf \in BOOLEAN, NEW x \in Reports \cup {None}, NEW key \in Keys \cup {None},
         NEW action \in Actions \cup {"none"}, NEW now \in Times,
         op \in {"report", "signedPdf"} => x \in Reports,
         op = "lifecycle" => x \in Reports /\ key \in Keys /\ action \in Actions,
         Authenticate(r, op, s, csrf, x, key, action, now)
  PROVE  AccessInv'
<1>1. call[r] = NewCall /\ Known(s) /\ UNCHANGED <<sessionVars, rowVars>>
  BY DEF Authenticate
<1>2. call[r].step # "answered"
  BY <1>1 DEF NewCall
<1>3. UNCHANGED <<clock, sessions, entitlement>> /\ clock \in Times /\ clock \in Nat
  BY <1>1, SessionTypes DEF sessionVars, rowVars, AccessInv, AccessTyped
<1> DEFINE known == IF op = "revokeAll" THEN {t \in SessionIds : Known(t)} ELSE {}
           withdrawn == {y \in Reports : entitlement[y] = "revoked"}
           first == FirstStep(op)
<1>4. /\ first \in {"find", "write", "revoke"}
      /\ first = "find" <=> op \in Reads
      /\ first = "write" <=> op = "lifecycle"
      /\ first = "revoke" <=> op = "revokeAll"
  BY DEF FirstStep, Operations, Reads
<1>5. \A t \in known : t \in SessionIds /\ Known(t)
  OBVIOUS
<1>6. \A y \in withdrawn : y \in Reports /\ entitlement[y] = "revoked"
  OBVIOUS
<1> HIDE DEF known, withdrawn, first
<1> DEFINE k == [step |-> first, op |-> op, session |-> s, target |-> x, key |-> key,
                 action |-> action, at |-> clock, found |-> {}, known |-> known,
                 withdrawn |-> withdrawn]
           denied == [step |-> "deny", at |-> clock]
<1>7. call' = [call EXCEPT ![r] = k] \/ call' = [call EXCEPT ![r] = denied]
  BY DEF Authenticate, known, withdrawn, first
<1>8. CASE call' = [call EXCEPT ![r] = k]
  <2>1. k \in Calls
    BY <1>3, <1>4, <1>5, <1>6 DEF Calls
  <2>2. /\ k.step = first /\ k.op = op /\ k.session = s /\ k.target = x /\ k.key = key
        /\ k.action = action /\ k.at = clock /\ k.found = {} /\ k.known = known
        /\ k.withdrawn = withdrawn
    OBVIOUS
  <2> HIDE DEF k
  <2>3. call'[r] = k
    BY <1>8 DEF AccessInv, AccessTyped
  <2>4. OperationOK(r)'
    BY <1>4, <2>2, <2>3 DEF OperationOK, Operations, Reads
  <2>5. \A t \in known : Known(t)' /\ sessions'[t].created <= clock
    BY <1>3, <1>5 DEF AccessInv, SessionsPast, Known
  <2>6. CallOK(r)'
    BY <1>1, <1>3, <1>6, <2>2, <2>3, <2>4, <2>5 DEF CallOK, Known
  <2>7. k.step # "answered"
    BY <1>4, <2>2
  <2> QED
    BY <1>1, <1>2, <1>8, <2>1, <2>6, <2>7, QuietMove
<1>9. CASE call' = [call EXCEPT ![r] = denied]
  <2>1. denied \in Refused /\ denied.step = "deny"
    BY <1>3 DEF Refused
  <2> HIDE DEF denied
  <2>2. CallOK(r)'
    BY <1>9, <2>1, RestingCall DEF AccessInv, AccessTyped
  <2> QED
    BY <1>1, <1>2, <1>9, <2>1, <2>2, QuietMove
<1> QED
  BY <1>7, <1>8, <1>9

\* What an answer makes of a request.
LEMMA AnswerMoves ==
  ASSUME AccessInv, NEW r \in Requests, NEW a \in Answers, Answer(r, a)
  PROVE  \E k \in Done : /\ k.step = "answered" /\ k.answer = a
                         /\ call' = [call EXCEPT ![r] = k] /\ call'[r] = k /\ CallOK(r)'
<1> DEFINE k == [step |-> "answered", answer |-> a]
<1>1. k \in Done /\ k.step = "answered" /\ k.answer = a
  BY DEF Done
<1>2. call' = [call EXCEPT ![r] = k]
  BY DEF Answer
<1> HIDE DEF k
<1>3. call'[r] = k
  BY <1>2 DEF AccessInv, AccessTyped
<1>4. CallOK(r)'
  BY <1>1, <1>3, RestingCall
<1> QED
  BY <1>1, <1>2, <1>3, <1>4

\* A request is answered, on record as what it was, and may leave its row.
LEMMA AnswerInv ==
  ASSUME AccessInv, Onward, SessionsTypeOK', SessionsPast', UNCHANGED <<entitlement, ready>>,
         NEW r \in Requests, call[r].step # "answered", NEW a \in Answers, Answer(r, a),
         NEW audit \in {"success", "denied"}, audits' = [audits EXCEPT ![r] = audit],
         a \in {"ok", "not implemented"} => audit = "success",
         a \in {"denied", "conflict"} => audit = "denied",
         rows' \subseteq RequestRows,
         \A row \in rows' : row \in rows \/ (row.id = r /\ audit = "success"),
         \A row, other \in rows' : SameKey(row, other) => row = other
  PROVE  AccessInv'
<1>1. PICK k \in Done : /\ k.step = "answered" /\ k.answer = a
                        /\ call' = [call EXCEPT ![r] = k] /\ call'[r] = k /\ CallOK(r)'
  BY AnswerMoves, Zenon
<1>2. k \in {NewCall} \cup Calls \cup Refused \cup Done /\ audit \in {"none", "success", "denied"}
  OBVIOUS
<1> QED
  BY <1>1, <1>2, CallMoves

\* An answer that leaves the rows of the sessions and the requests alone.
LEMMA ReadAnswerInv ==
  ASSUME AccessInv, UNCHANGED <<sessionVars, entitlement, ready, rows>>,
         NEW r \in Requests, call[r].step # "answered", NEW a \in Answers, Answer(r, a),
         NEW audit \in {"success", "denied"}, audits' = [audits EXCEPT ![r] = audit],
         a \in {"ok", "not implemented"} => audit = "success",
         a \in {"denied", "conflict"} => audit = "denied"
  PROVE  AccessInv'
<1>1. Onward /\ SessionsTypeOK' /\ SessionsPast'
  BY SessionsKept
<1>2. rows' \subseteq RequestRows /\ \A row, other \in rows' : SameKey(row, other) => row = other
  BY DEF AccessInv, AccessTyped, RowsOK
<1> QED
  BY <1>1, <1>2, AnswerInv

LEMMA DenyInv ==
  ASSUME AccessInv, NEW r \in Requests, Deny(r)
  PROVE  AccessInv'
<1>1. PICK a \in {"denied", "unavailable"} : Answer(r, a)
  BY DEF Deny
<1>2. a \in Answers
  BY DEF Answers
<1>3. UNCHANGED <<sessionVars, entitlement, ready, rows>>
  BY DEF Deny
<1> QED
  BY <1>1, <1>2, <1>3, ReadAnswerInv DEF Deny

LEMMA UnavailableInv ==
  ASSUME AccessInv, NEW r \in Requests, Unavailable(r)
  PROVE  AccessInv'
<1>1. "unavailable" \in Answers
  BY DEF Answers
<1>2. PICK k \in Done : /\ k.step = "answered" /\ k.answer = "unavailable"
                        /\ call' = [call EXCEPT ![r] = k] /\ CallOK(r)'
  BY <1>1, AnswerMoves DEF Unavailable
<1>3. UNCHANGED <<sessionVars, rowVars>> /\ call[r].step # "answered"
  BY DEF Unavailable
<1> QED
  BY <1>2, <1>3, QuietMove

LEMMA AuditReadInv ==
  ASSUME AccessInv, NEW r \in Requests, AuditRead(r)
  PROVE  AccessInv'
<1>1. PICK a \in {"ok", "not implemented", "unavailable"} : Answer(r, a)
  BY DEF AuditRead
<1>2. a \in Answers
  BY DEF Answers
<1>3. UNCHANGED <<sessionVars, entitlement, ready, rows>>
  BY DEF AuditRead
<1> QED
  BY <1>1, <1>2, <1>3, ReadAnswerInv DEF AuditRead

\* The join finds only live entitlements of the account.
LEMMA FindReportsInv ==
  ASSUME AccessInv, NEW r \in Requests, FindReports(r)
  PROVE  AccessInv'
<1>1. /\ call[r].step = "find" /\ UNCHANGED <<sessionVars, rowVars>>
      /\ UNCHANGED <<clock, sessions, entitlement>>
  BY DEF FindReports, sessionVars, rowVars
<1>2. call[r].step # "answered" /\ call[r].step \in Serving
  BY <1>1 DEF Serving
<1>3. /\ call[r] \in Calls /\ call[r].at \in Times /\ CallOK(r)
      /\ call[r].op \in Reads /\ call[r].withdrawn \subseteq Reports
      /\ call[r].op # "account" => call[r].target \in Reports
  BY <1>1, <1>2, CallTypes DEF AccessInv, CallOK, OperationOK
<1>4. PICK found \in SUBSET Reports :
        /\ \A x \in found : Entitled(PrincipalOf(r), x)
        /\ \/ call' = [call EXCEPT ![r] = [step |-> "deny", at |-> call[r].at]]
           \/ call' = [call EXCEPT ![r].step = "audit", ![r].found = found]
  <2> DEFINE wanted == IF call[r].op = "account" THEN Reports ELSE {call[r].target}
             seen == {x \in wanted : Entitled(PrincipalOf(r), x)}
  <2>1. seen \in SUBSET Reports /\ \A x \in seen : Entitled(PrincipalOf(r), x)
    BY <1>3
  <2>2. \/ call' = [call EXCEPT ![r] = [step |-> "deny", at |-> call[r].at]]
        \/ call' = [call EXCEPT ![r].step = "audit", ![r].found = seen]
    BY DEF FindReports
  <2> HIDE DEF seen
  <2> QED
    BY <2>1, <2>2
<1>5. CASE call' = [call EXCEPT ![r] = [step |-> "deny", at |-> call[r].at]]
  <2> DEFINE denied == [step |-> "deny", at |-> call[r].at]
  <2>1. denied \in Refused /\ denied.step = "deny"
    BY <1>3 DEF Refused
  <2>2. call' = [call EXCEPT ![r] = denied]
    BY <1>5
  <2> HIDE DEF denied
  <2>3. CallOK(r)'
    BY <2>1, <2>2, RestingCall DEF AccessInv, AccessTyped
  <2> QED
    BY <1>1, <1>2, <2>1, <2>2, <2>3, QuietMove
<1>6. CASE call' = [call EXCEPT ![r].step = "audit", ![r].found = found]
  <2> DEFINE k == [call[r] EXCEPT !.step = "audit", !.found = found]
  <2>1. call' = [call EXCEPT ![r] = k]
    BY <1>6
  <2>2. /\ k \in Calls
        /\ k.step = "audit" /\ k.op = call[r].op /\ k.session = call[r].session
        /\ k.at = call[r].at /\ k.found = found /\ k.known = call[r].known
        /\ k.withdrawn = call[r].withdrawn
    BY <1>3 DEF Calls
  <2> HIDE DEF k
  <2>3. call'[r] = k
    BY <2>1 DEF AccessInv, AccessTyped
  <2>4. OperationOK(r)'
    BY <1>3, <2>2, <2>3 DEF OperationOK
  <2>5. \A x \in found : Owner[x] = PrincipalOf(r) /\ x \notin call[r].withdrawn
    BY <1>2, <1>3, <1>4 DEF Entitled, CallOK
  <2>6. CallOK(r)'
    BY <1>1, <1>2, <1>3, <2>2, <2>3, <2>4, <2>5 DEF CallOK, Known, PrincipalOf
  <2>7. k.step # "answered"
    BY <2>2
  <2> QED
    BY <1>1, <1>2, <2>1, <2>2, <2>6, <2>7, QuietMove
<1> QED
  BY <1>4, <1>5, <1>6

\* A row is written only for a key that has none.
LEMMA WriteRequestInv ==
  ASSUME AccessInv, NEW r \in Requests, WriteRequest(r)
  PROVE  AccessInv'
<1>1. /\ call[r].step = "write" /\ UNCHANGED <<sessionVars, entitlement, ready>>
      /\ call[r].step # "answered" /\ call[r].step \in Serving
  BY DEF WriteRequest, Serving
<1>2. /\ call[r].target \in Reports /\ call[r].key \in Keys /\ call[r].action \in Actions
      /\ Known(call[r].session) /\ call[r].session \in SessionIds
  BY <1>1, CallTypes DEF AccessInv, CallOK, OperationOK
<1>3. PrincipalOf(r) \in Principals
  BY <1>2, SessionTypes DEF AccessInv, AccessTyped, PrincipalOf
<1>4. Outcome(r) \in {"ok", "denied", "conflict"}
  BY DEF Outcome
<1>5. PICK a \in {Outcome(r), "unavailable"} : Answer(r, a)
  BY DEF WriteRequest
<1>6. a \in Answers /\ a \in {"ok", "denied", "conflict", "unavailable"}
  BY <1>4, <1>5 DEF Answers
<1>7. PICK audit \in {"success", "denied"} :
        /\ audits' = [audits EXCEPT ![r] = audit]
        /\ audit = "success" <=> Outcome(r) = "ok"
  BY DEF WriteRequest
<1>8. a = "ok" => audit = "success"
  BY <1>5, <1>7
<1>9. a \in {"denied", "conflict"} => audit = "denied"
  BY <1>5, <1>7
<1> DEFINE row == [id |-> r, principal |-> PrincipalOf(r), report |-> call[r].target,
                   key |-> call[r].key, action |-> call[r].action]
<1>10. /\ row \in RequestRows /\ row.id = r /\ row.principal = PrincipalOf(r)
       /\ row.report = call[r].target /\ row.key = call[r].key
  BY <1>2, <1>3 DEF RequestRows
<1>11. \/ rows' = rows
       \/ /\ rows' = rows \cup {row} /\ Outcome(r) = "ok"
          /\ RowsFor(PrincipalOf(r), call[r].target, call[r].key) = {}
  BY DEF WriteRequest
<1> HIDE DEF row
<1>12. rows' \subseteq RequestRows
  BY <1>10, <1>11 DEF AccessInv, AccessTyped
<1>13. \A other \in rows' : other \in rows \/ (other.id = r /\ audit = "success")
  BY <1>7, <1>10, <1>11
<1>14. \A one, other \in rows' : SameKey(one, other) => one = other
  <2>1. CASE rows' = rows
    BY <2>1 DEF AccessInv, RowsOK
  <2>2. CASE rows' = rows \cup {row} /\ RowsFor(PrincipalOf(r), call[r].target, call[r].key) = {}
    <3>1. \A other \in rows : ~SameKey(row, other) /\ ~SameKey(other, row)
      BY <1>10, <2>2 DEF RowsFor, SameKey
    <3> QED
      BY <2>2, <3>1 DEF AccessInv, RowsOK
  <2> QED
    BY <1>11, <2>1, <2>2
<1>15. Onward /\ SessionsTypeOK' /\ SessionsPast'
  BY <1>1, SessionsKept
<1> QED
  BY <1>1, <1>5, <1>6, <1>7, <1>8, <1>9, <1>12, <1>13, <1>14, <1>15, AnswerInv

LEMMA RevokeAllInv ==
  ASSUME AccessInv, NEW r \in Requests, RevokeAll(r)
  PROVE  AccessInv'
<1>1. PICK now \in call[r].at .. clock : RevokeSessions(PrincipalOf(r), now)
  BY DEF RevokeAll
<1> DEFINE S == {s \in SessionIds : Active(s, now) /\ sessions[s].principal = PrincipalOf(r)}
<1>2. Close(S)
  BY <1>1 DEF RevokeSessions
<1>3. S \in SUBSET SessionIds /\ \A s \in S : Known(s)
  BY DEF Active
<1>4. /\ UNCHANGED <<clock, entitlement>> /\ UNCHANGED <<entitlement, ready>> /\ rows' = rows
      /\ call[r].step # "answered" /\ audits' = [audits EXCEPT ![r] = "success"]
  BY DEF RevokeAll
<1> HIDE DEF S
<1>5. Onward /\ SessionsTypeOK' /\ SessionsPast'
  BY <1>2, <1>3, <1>4, Closing
<1>6. PICK a \in {"ok", "unavailable"} : Answer(r, a)
  BY DEF RevokeAll
<1>7. a \in Answers
  BY DEF Answers
<1>8. rows' \subseteq RequestRows /\ \A row, other \in rows' : SameKey(row, other) => row = other
  BY <1>4 DEF AccessInv, AccessTyped, RowsOK
<1> QED
  BY <1>4, <1>5, <1>6, <1>7, <1>8, AnswerInv

-----------------------------------------------------------------------------
(* Every step.                                                             *)

LEMMA AccessInitInv ==
  ASSUME AccessInit
  PROVE  AccessInv
<1>1. /\ clock = 0 /\ sessions = [s \in SessionIds |-> None] /\ ready = {} /\ rows = {}
      /\ entitlement = [x \in Reports |-> "none"] /\ audits = [r \in Requests |-> "none"]
      /\ call = [r \in Requests |-> NewCall]
  BY DEF AccessInit, SessionsInit
<1>2. 0 \in Times
  BY TimeTypes DEF Times
<1>3. AccessTyped
  BY <1>1, <1>2 DEF AccessTyped, SessionsTypeOK
<1>4. \A r \in Requests : call[r].step = "new"
  BY <1>1 DEF NewCall
<1>5. \A r \in Requests : CallOK(r)
  BY <1>4 DEF CallOK, OperationOK, Serving
<1>6. SessionsPast
  BY <1>1 DEF SessionsPast, Known
<1>7. RowsOK /\ EverythingIsAudited
  BY <1>1, <1>4 DEF RowsOK, EverythingIsAudited, Answered
<1> QED
  BY <1>3, <1>5, <1>6, <1>7 DEF AccessInv

\* What a request does between its first await and its answer.
Proceeds(r) ==
  Deny(r) \/ Unavailable(r) \/ FindReports(r) \/ AuditRead(r) \/ WriteRequest(r) \/ RevokeAll(r)

Begins(r) ==
  \E op \in Operations, s \in SessionIds, csrf \in BOOLEAN, x \in Reports \cup {None},
     key \in Keys \cup {None}, action \in Actions \cup {"none"}, now \in Times :
    /\ op \in {"report", "signedPdf"} => x \in Reports
    /\ op = "lifecycle" => x \in Reports /\ key \in Keys /\ action \in Actions
    /\ Authenticate(r, op, s, csrf, x, key, action, now)

\* The steps of AccessNext.
LEMMA StepCases ==
  ASSUME AccessNext
  PROVE  \/ \E s \in SessionIds, p \in Principals, now \in Times : SignedIn(s, p, now)
         \/ \E x \in Reports : Grant(x) \/ Withdraw(x) \/ Finish(x)
         \/ \E r \in Requests : Begins(r) \/ Proceeds(r)
         \/ /\ SessionStep \/ Tick({call[r].at : r \in InFlight})
            /\ UNCHANGED <<rowVars, call>>
<1>1. ASSUME NEW r \in Requests, NEW s \in SessionIds, NEW csrf \in BOOLEAN, NEW now \in Times,
             NEW op \in {"account", "revokeAll"},
             Authenticate(r, op, s, csrf, None, None, "none", now)
      PROVE  Begins(r)
  <2>1. op \in Operations /\ op \notin {"report", "signedPdf", "lifecycle"}
    BY DEF Operations, Reads
  <2>2. None \in Reports \cup {None} /\ None \in Keys \cup {None} /\ "none" \in Actions \cup {"none"}
    OBVIOUS
  <2> QED
    BY <1>1, <2>1, <2>2 DEF Begins
<1>2. ASSUME NEW r \in Requests, NEW s \in SessionIds, NEW csrf \in BOOLEAN, NEW now \in Times,
             NEW op \in {"report", "signedPdf"}, NEW x \in Reports,
             Authenticate(r, op, s, csrf, x, None, "none", now)
      PROVE  Begins(r)
  <2>1. op \in Operations /\ op # "lifecycle"
    BY DEF Operations, Reads
  <2>2. x \in Reports \cup {None} /\ None \in Keys \cup {None} /\ "none" \in Actions \cup {"none"}
    OBVIOUS
  <2> QED
    BY <1>2, <2>1, <2>2 DEF Begins
<1>3. ASSUME NEW r \in Requests, NEW s \in SessionIds, NEW csrf \in BOOLEAN, NEW now \in Times,
             NEW x \in Reports, NEW key \in Keys, NEW action \in Actions,
             Authenticate(r, "lifecycle", s, csrf, x, key, action, now)
      PROVE  Begins(r)
  <2>1. "lifecycle" \in Operations
    BY DEF Operations
  <2>2. x \in Reports \cup {None} /\ key \in Keys \cup {None} /\ action \in Actions \cup {"none"}
    OBVIOUS
  <2> QED
    BY <1>3, <2>1, <2>2 DEF Begins
<1> QED
  BY <1>1, <1>2, <1>3 DEF AccessNext, Proceeds

LEMMA BeginsInv ==
  ASSUME AccessInv, NEW r \in Requests, Begins(r)
  PROVE  AccessInv'
BY AuthenticateInv DEF Begins

LEMMA ProceedsInv ==
  ASSUME AccessInv, NEW r \in Requests, Proceeds(r)
  PROVE  AccessInv'
BY DenyInv, UnavailableInv, FindReportsInv, AuditReadInv, WriteRequestInv, RevokeAllInv DEF Proceeds

LEMMA StutterInv ==
  ASSUME AccessInv, UNCHANGED accessVars
  PROVE  AccessInv'
<1>1. UNCHANGED <<sessionVars, entitlement>> /\ UNCHANGED <<entitlement, ready, rows, audits, call>>
  BY DEF accessVars
<1>2. Onward /\ SessionsTypeOK' /\ SessionsPast'
  BY <1>1, SessionsKept
<1> QED
  BY <1>1, <1>2, RowsMove DEF AccessInv, AccessTyped

\* Everything a request relies on holds throughout (private-access.ts).
THEOREM AccessInvariant == AccessSpec => []AccessInv
<1>1. AccessInit => AccessInv
  BY AccessInitInv
<1>2. AccessInv /\ [AccessNext]_accessVars => AccessInv'
  BY StepCases, SignedInInv, EntitlementInv, BeginsInv, ProceedsInv, SessionStepInv, TickInv,
     StutterInv
<1> QED
  BY <1>1, <1>2, PTL DEF AccessSpec

\* Whatever was delivered, refused or accepted is on record as such (private-access.ts and
\* createLifecycleRequest).
THEOREM EverythingIsOnRecord == AccessSpec => []EverythingIsAudited
<1>1. AccessInv => EverythingIsAudited
  BY DEF AccessInv
<1> QED
  BY <1>1, AccessInvariant, PTL

\* The rows keep their types whatever the handlers do.
THEOREM AccessTypes == AccessSpec => []AccessTypeOK
<1>1. AccessInv => AccessTypeOK
  BY DEF AccessInv, AccessTyped, AccessTypeOK, RequestRows, Refused, Done
<1> QED
  BY <1>1, AccessInvariant, PTL

-----------------------------------------------------------------------------
(* The step that serves a request.                                         *)

\* A request is only moved by its own steps.
LEMMA OthersRest ==
  ASSUME AccessInv, NEW q \in Requests, NEW r \in Requests, q # r, Begins(q) \/ Proceeds(q)
  PROVE  call'[r] = call[r]
<1>1. PICK k : call' = [call EXCEPT ![q] = k]
  <2>1. ASSUME NEW op, NEW s, NEW csrf, NEW x, NEW key, NEW action, NEW now,
               Authenticate(q, op, s, csrf, x, key, action, now)
        PROVE  \E k : call' = [call EXCEPT ![q] = k]
    BY <2>1 DEF Authenticate
  <2>2. ASSUME Begins(q) PROVE \E k : call' = [call EXCEPT ![q] = k]
    BY <2>1, <2>2 DEF Begins
  <2>3. ASSUME NEW a, Answer(q, a) PROVE \E k : call' = [call EXCEPT ![q] = k]
    BY <2>3 DEF Answer
  <2>4. ASSUME FindReports(q) PROVE \E k : call' = [call EXCEPT ![q] = k]
    BY <2>4 DEF FindReports
  <2>5. ASSUME Deny(q) \/ Unavailable(q) \/ AuditRead(q) \/ WriteRequest(q) \/ RevokeAll(q)
        PROVE  \E k : call' = [call EXCEPT ![q] = k]
    BY <2>3, <2>5 DEF Deny, Unavailable, AuditRead, WriteRequest, RevokeAll
  <2> QED
    BY <2>2, <2>4, <2>5 DEF Proceeds
<1> QED
  BY <1>1 DEF AccessInv, AccessTyped

\* A request is served by one of the three steps that put it on record.
LEMMA ServedBy ==
  ASSUME AccessInv, AccessNext, NEW r \in Requests, Serves(r)
  PROVE  \/ AuditRead(r) /\ call[r].op \in Reads
         \/ WriteRequest(r) /\ Outcome(r) = "ok" /\ call[r].op = "lifecycle"
         \/ RevokeAll(r) /\ call[r].op = "revokeAll"
<1>1. /\ call[r].step \notin {"new", "answered"}
      /\ call'[r].step = "answered" /\ call'[r].answer = "ok"
  BY DEF Serves, InFlight, Answered
<1>2. call' # call
  BY <1>1
<1>3. Proceeds(r)
  <2>1. ~Begins(r)
    BY <1>1 DEF Begins, Authenticate, NewCall
  <2>2. \E q \in Requests : Begins(q) \/ Proceeds(q)
    BY <1>2, StepCases DEF SignedIn, Grant, Withdraw, Finish
  <2> QED
    BY <1>1, <2>1, <2>2, OthersRest
<1>4. ASSUME NEW a, Answer(r, a) PROVE a = "ok"
  BY <1>1, <1>4 DEF Answer, AccessInv, AccessTyped
<1>5. ~Deny(r) /\ ~Unavailable(r)
  BY <1>4 DEF Deny, Unavailable
<1>6. ~FindReports(r)
  <2> SUFFICES ASSUME FindReports(r) PROVE FALSE
    OBVIOUS
  <2>1. call[r] \in Calls
    BY CallTypes DEF FindReports, Serving, AccessInv
  <2>2. PICK found : \/ call' = [call EXCEPT ![r] = [step |-> "deny", at |-> call[r].at]]
                     \/ call' = [call EXCEPT ![r].step = "audit", ![r].found = found]
    BY DEF FindReports
  <2>3. call'[r].step \in {"deny", "audit"}
    BY <2>1, <2>2 DEF AccessInv, AccessTyped, Calls
  <2> QED
    BY <1>1, <2>3
<1>7. CallOK(r)
  BY DEF AccessInv
<1>8. CASE AuditRead(r)
  BY <1>7, <1>8 DEF AuditRead, CallOK, OperationOK
<1>9. CASE WriteRequest(r)
  BY <1>4, <1>7, <1>9 DEF WriteRequest, CallOK, OperationOK
<1>10. CASE RevokeAll(r)
  BY <1>7, <1>10 DEF RevokeAll, CallOK, OperationOK
<1> QED
  BY <1>3, <1>5, <1>6, <1>8, <1>9, <1>10 DEF Proceeds

\* What a request may serve.
LEMMA ServedIsOwned ==
  ASSUME AccessInv, AccessNext, NEW r \in Requests, Serves(r),
         NEW x \in IF call[r].op = "lifecycle" THEN {call[r].target} ELSE call[r].found
  PROVE  x \notin call[r].withdrawn /\ Owner[x] = PrincipalOf(r)
<1>1. CallOK(r)
  BY DEF AccessInv
<1>2. CASE WriteRequest(r) /\ Outcome(r) = "ok" /\ call[r].op = "lifecycle"
  <2>1. x = call[r].target /\ Entitled(PrincipalOf(r), x)
    BY <1>2 DEF Outcome
  <2>2. call[r].step \in Serving
    BY <1>2 DEF WriteRequest, Serving
  <2> QED
    BY <1>1, <2>1, <2>2 DEF Entitled, CallOK
<1>3. CASE \/ AuditRead(r) /\ call[r].op \in Reads
           \/ RevokeAll(r) /\ call[r].op = "revokeAll"
  <2>1. call[r].op # "lifecycle" /\ call[r].step \in Serving
    BY <1>3 DEF Reads, AuditRead, RevokeAll, Serving
  <2> QED
    BY <1>1, <2>1 DEF CallOK
<1>4. \/ WriteRequest(r) /\ Outcome(r) = "ok" /\ call[r].op = "lifecycle"
      \/ AuditRead(r) /\ call[r].op \in Reads
      \/ RevokeAll(r) /\ call[r].op = "revokeAll"
  BY ServedBy
<1> QED
  BY <1>2, <1>3, <1>4

\* No request delivers or accepts anything of a report that was withdrawn before it came,
\* or of another account's (findMany and createLifecycleRequest).
THEOREM RevocationHolds == AccessSpec => RevocationStops
<1>1. AccessInv /\ [AccessNext]_accessVars =>
        [\A r \in Requests : Serves(r) =>
           LET served == IF call[r].op = "lifecycle" THEN {call[r].target} ELSE call[r].found
           IN /\ served \cap call[r].withdrawn = {}
              /\ \A x \in served : Owner[x] = PrincipalOf(r)]_accessVars
  BY ServedIsOwned
<1> QED
  BY <1>1, AccessInvariant, PTL DEF AccessSpec, RevocationStops

\* The rows with the key of a request that is accepted: its own, or the one it replays.
LEMMA OneReceipt ==
  ASSUME AccessInv, NEW r \in Requests, WriteRequest(r), Outcome(r) = "ok",
         NEW same, same = {row \in rows' : /\ row.principal = PrincipalOf(r)
                                           /\ row.report = call[r].target
                                           /\ row.key = call[r].key}
  PROVE  Cardinality(same) = 1 /\ \A row \in same : row.action = call[r].action
<1> DEFINE before == RowsFor(PrincipalOf(r), call[r].target, call[r].key)
           new == [id |-> r, principal |-> PrincipalOf(r), report |-> call[r].target,
                   key |-> call[r].key, action |-> call[r].action]
<1>1. /\ new.principal = PrincipalOf(r) /\ new.report = call[r].target
      /\ new.key = call[r].key /\ new.action = call[r].action
  OBVIOUS
<1>2. rows' = IF before = {} THEN rows \cup {new} ELSE rows
  BY DEF WriteRequest
<1>3. \A row \in before : row.action = call[r].action
  BY DEF Outcome
<1>4. before = {row \in rows : /\ row.principal = PrincipalOf(r) /\ row.report = call[r].target
                               /\ row.key = call[r].key}
  BY DEF RowsFor
<1> HIDE DEF before, new
<1>5. PICK row : same = {row} /\ row.action = call[r].action
  <2>1. CASE before = {}
    <3>1. same = {new}
      BY <1>1, <1>2, <1>4, <2>1
    <3> QED
      BY <1>1, <3>1
  <2>2. CASE before # {}
    <3>1. PICK row \in before : TRUE
      BY <2>2
    <3>2. same = before
      BY <1>2, <1>4, <2>2
    <3>3. \A other \in before : other = row
      BY <1>4, <3>1 DEF AccessInv, RowsOK, SameKey
    <3>4. same = {row}
      BY <3>1, <3>2, <3>3
    <3> QED
      BY <1>3, <3>1, <3>4
  <2> QED
    BY <2>1, <2>2
<1> QED
  BY <1>5, FS_Singleton

\* Two accepted requests with one key are the same request (createLifecycleRequest).
THEOREM ReceiptsAreOne == AccessSpec => ReceiptsAgree
<1>1. AccessInv /\ [AccessNext]_accessVars =>
        [\A r \in Requests : (Serves(r) /\ call[r].op = "lifecycle") =>
           LET same == {row \in rows' : /\ row.principal = PrincipalOf(r)
                                        /\ row.report = call[r].target
                                        /\ row.key = call[r].key}
           IN Cardinality(same) = 1 /\ \A row \in same : row.action = call[r].action]_accessVars
  <2> SUFFICES ASSUME AccessInv, AccessNext, NEW r \in Requests, Serves(r),
                      call[r].op = "lifecycle",
                      NEW same, same = {row \in rows' : /\ row.principal = PrincipalOf(r)
                                                        /\ row.report = call[r].target
                                                        /\ row.key = call[r].key}
               PROVE  Cardinality(same) = 1 /\ \A row \in same : row.action = call[r].action
    OBVIOUS
  <2>1. WriteRequest(r) /\ Outcome(r) = "ok"
    BY ServedBy DEF Reads
  <2> QED
    BY <2>1, OneReceipt
<1> QED
  BY <1>1, AccessInvariant, PTL DEF AccessSpec, ReceiptsAgree

\* A session its owner had when asking is closed by the sign-out, or was over before.
LEMMA SessionEnds ==
  ASSUME AccessInv, NEW r \in Requests, RevokeAll(r), NEW s \in call[r].known,
         sessions[s].principal = PrincipalOf(r)
  PROVE  ~Active(s, clock)'
<1>1. PICK now \in call[r].at .. clock : RevokeSessions(PrincipalOf(r), now)
  BY DEF RevokeAll
<1>2. call[r].step \in Serving /\ UNCHANGED <<clock, entitlement>>
  BY DEF RevokeAll, Serving
<1>3. /\ call[r].at \in Nat /\ clock \in Nat /\ s \in SessionIds
      /\ Known(s) /\ sessions[s].created <= call[r].at
  BY <1>2, CallTypes, SessionTypes DEF AccessInv, AccessTyped, CallOK
<1>4. sessions[s].created \in Nat /\ sessions[s].state \in {"open", "closed"}
  BY <1>3, SessionTypes DEF AccessInv, AccessTyped
<1> DEFINE S == {t \in SessionIds : Active(t, now) /\ sessions[t].principal = PrincipalOf(r)}
<1>5. S \in SUBSET SessionIds /\ (\A t \in S : Known(t)) /\ Close(S)
  BY <1>1 DEF Active, RevokeSessions
<1>6. s \in S <=> Active(s, now)
  BY <1>3
<1> HIDE DEF S
<1>7. Onward /\ \A t \in S : sessions'[t].state = "closed"
  BY <1>2, <1>5, Closing
<1>8. CASE s \in S
  BY <1>7, <1>8 DEF Active
<1>9. CASE sessions[s].state = "closed"
  BY <1>3, <1>7, <1>9 DEF Onward, Active
<1>10. CASE s \notin S /\ sessions[s].state = "open"
  <2>1. sessions[s].created <= now /\ now \in Nat /\ now <= clock
    BY <1>1, <1>3, <1>4
  <2>2. ~(now < sessions[s].created + SessionLife)
    BY <1>3, <1>6, <1>10, <2>1 DEF Active
  <2>3. ~(clock < sessions[s].created + SessionLife)
    BY <1>3, <1>4, <2>1, <2>2, TimeTypes
  <2>4. sessions'[s].created = sessions[s].created
    BY <1>3, <1>7 DEF Onward
  <2> QED
    BY <1>2, <2>3, <2>4 DEF Active
<1> QED
  BY <1>4, <1>8, <1>9, <1>10

\* A confirmed sign-out everywhere leaves no session of its owner (revokeAllSessions).
THEOREM SignOutReachesAll == AccessSpec => SignedOutEverywhere
<1>1. AccessInv /\ [AccessNext]_accessVars =>
        [\A r \in Requests : (Serves(r) /\ call[r].op = "revokeAll") =>
           \A s \in call[r].known :
             sessions[s].principal = PrincipalOf(r) => ~Active(s, clock)']_accessVars
  <2> SUFFICES ASSUME AccessInv, AccessNext, NEW r \in Requests, Serves(r),
                      call[r].op = "revokeAll", NEW s \in call[r].known,
                      sessions[s].principal = PrincipalOf(r)
               PROVE  ~Active(s, clock)'
    OBVIOUS
  <2>1. RevokeAll(r)
    BY ServedBy DEF Reads
  <2> QED
    BY <2>1, SessionEnds
<1> QED
  BY <1>1, AccessInvariant, PTL DEF AccessSpec, SignedOutEverywhere
=============================================================================
