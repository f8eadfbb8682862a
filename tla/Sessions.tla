------------------------------ MODULE Sessions ------------------------------
(***************************************************************************)
(* The sessions table: opened by redeeming a link, verified by every       *)
(* private request, revoked by logout or sign-out everywhere, deleted by   *)
(* maintenance once expired.                                               *)
(*                                                                         *)
(* One clock serves every process.  A handler samples it before its first  *)
(* statement, so the "now" of a statement is never ahead of the clock and  *)
(* may be behind it, by MaxDelay at most (statement and connection         *)
(* timeouts bound it in the code).                                         *)
(***************************************************************************)
EXTENDS Naturals, FiniteSets

CONSTANTS Principals,   \* accounts; one per email (principals.email_lookup_hmac is unique)
          SessionIds,
          None,
          SessionLife,  \* SESSION_MS, 24 hours
          RecentAuth,   \* recentAuthWindowMs, 15 minutes
          MaxDelay,     \* bound of the time between a request's clock sample and its statement
          MaxClock      \* bound of the clock

ASSUME TimesAreNaturals ==
  /\ SessionLife \in Nat \ {0} /\ RecentAuth \in Nat
  /\ MaxDelay \in Nat \ {0} /\ MaxClock \in Nat

VARIABLES
  clock,
  sessions  \* sessions rows by id.  A "closed" row is revoked or deleted: nothing reads
            \* it again, and ids are never reused

sessionVars == <<clock, sessions>>

Times == 0 .. MaxClock

SessionRows == [principal : Principals, created : Times,
                state : {"open", "closed"}]

ASSUME NoneIsNoSession == None \notin SessionRows

SessionsInit ==
  /\ clock = 0
  /\ sessions = [s \in SessionIds |-> None]

Known(s) == sessions[s] # None

\* The WHERE clause shared by verification, logout and sign-out everywhere.
Active(s, now) ==
  /\ Known(s)
  /\ sessions[s].state = "open"
  /\ sessions[s].created <= now
  /\ now < sessions[s].created + SessionLife

\* isRecent: the sign-in that opened the session is no older than the window.
IsRecent(s, now) ==
  /\ sessions[s].created <= now
  /\ now - sessions[s].created <= RecentAuth

OpenSession(s, p, now) ==
  /\ ~Known(s)
  /\ sessions' = [sessions EXCEPT ![s] = [principal |-> p, created |-> now, state |-> "open"]]

Close(S) ==
  sessions' = [s \in SessionIds |->
                 IF s \in S THEN [sessions[s] EXCEPT !.state = "closed"] ELSE sessions[s]]

\* revokePostgresSession: token and synchronizer token match in the statement itself.
Logout(s) ==
  /\ Active(s, clock)
  /\ Close({s})
  /\ UNCHANGED clock

\* Mutant: sessions opened at the very instant of the request are missed.
RevokeSessions_Strict(p, now) ==
  Close({s \in SessionIds : /\ Active(s, now)
                            /\ sessions[s].principal = p
                            /\ sessions[s].created < now})

\* revokeAllSessions: every session of the account that is active at "now".
RevokeSessions(p, now) ==
  Close({s \in SessionIds : Active(s, now) /\ sessions[s].principal = p})

\* purgeExpiredSessions: a bounded SKIP LOCKED batch of the expired rows.
PurgeSessions(S) ==
  /\ S # {}
  /\ \A s \in S : /\ Known(s) /\ sessions[s].state = "open"
                  /\ sessions[s].created + SessionLife <= clock
  /\ Close(S)
  /\ UNCHANGED clock

\* "sampled" holds the clock samples of the requests in flight.
Tick(sampled) ==
  /\ clock < MaxClock
  /\ \A now \in sampled : clock < now + MaxDelay
  /\ clock' = clock + 1
  /\ UNCHANGED sessions

SessionStep ==
  \/ \E s \in SessionIds : Logout(s)
  \/ \E S \in SUBSET SessionIds : PurgeSessions(S)

SessionsTypeOK ==
  /\ clock \in Times
  /\ sessions \in [SessionIds -> SessionRows \cup {None}]
=============================================================================
