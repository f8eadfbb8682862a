---------------------------- MODULE RateLimiter -----------------------------
(***************************************************************************)
(* The fixed-window budget of one key in shared_rate_limits                *)
(* (packages/database/src/rate-limiter.ts), consumed by the statements of  *)
(* several web processes and purged by maintenance.                        *)
(*                                                                         *)
(* consume() is one upsert.  It samples clock_timestamp() in its first CTE *)
(* and may then wait for the row: Sample and Consume are two steps, and    *)
(* another process may reset, use up or purge the window in between.       *)
(* Times are relative: an age is how long ago a moment was, capped where   *)
(* nothing compares it any more.                                           *)
(***************************************************************************)
EXTENDS Naturals, FiniteSets, FiniteSetsExt

CONSTANTS Limit,     \* requests per window (60 for the payment routes)
          Window,    \* windowMs
          MaxAge,    \* MAX_AGE_MS, 24 hours
          MaxDelay,  \* bound of the wait between the sample and the row lock
          Statements, \* consume statements in flight
          Remembered  \* bound of the age of what the history keeps

ASSUME LimiterBounds ==
  /\ {Limit, Window} \subseteq Nat \ {0}
  /\ {MaxDelay, Remembered} \subseteq Nat /\ MaxDelay <= Remembered
  /\ MaxAge \in Nat /\ MaxAge >= Window + 2 * MaxDelay

VARIABLES
  bucket,   \* the row: count, age of window_started_at, age of updated_at; NoRow
  sampled,  \* the age of the sample of each statement in flight; Absent
  granted   \* history: the requests allowed of late, each with the age of its sample, the
            \* age of the window it was counted in, its count there, and how many were like it

limiterVars == <<bucket, sampled, granted>>

Horizon == MaxAge + MaxDelay
Absent == Horizon + 1
NoRow == [count |-> 0, started |-> Absent, updated |-> Absent]
Aged(age) == IF age < Horizon THEN age + 1 ELSE age

LimiterTypeOK ==
  /\ bucket \in [count : 0 .. Limit + 1, started : 0 .. Absent, updated : 0 .. Absent]
  /\ sampled \in [Statements -> 0 .. Absent]
  /\ \A g \in granted : /\ g.count \in 1 .. Limit /\ g.window \in 0 .. Remembered + Window
                         /\ g.age \in 0 .. Remembered

LimiterInit ==
  /\ bucket = NoRow
  /\ sampled = [s \in Statements |-> Absent]
  /\ granted = {}

Sample(s) ==
  /\ sampled[s] = Absent
  /\ sampled' = [sampled EXCEPT ![s] = 0]
  /\ UNCHANGED <<bucket, granted>>

\* window_started_at + windowMs <= sampled_at
WindowOver(sample) == bucket.started >= sample + Window

\* Mutant: a window that is over keeps its start and gets a new count.
Written_KeepsStart(sample) ==
  IF bucket = NoRow THEN [count |-> 1, started |-> sample, updated |-> sample]
  ELSE [count |-> IF WindowOver(sample) THEN 1 ELSE Min({bucket.count + 1, Limit + 1}),
        started |-> bucket.started, updated |-> sample]

\* The row an upsert leaves: a new window, or one more request of the current
\* one; a refused request keeps the count at limit + 1.
Written(sample) ==
  IF bucket = NoRow \/ WindowOver(sample)
  THEN [count |-> 1, started |-> sample, updated |-> sample]
  ELSE [count |-> Min({bucket.count + 1, Limit + 1}),
        started |-> bucket.started, updated |-> sample]

\* A request that was counted in a window with a sample of that age.
Grant(row, sample) ==
  [count |-> row.count, window |-> row.started, age |-> sample,
   like |-> Cardinality({g \in granted : /\ g.count = row.count /\ g.window = row.started
                                         /\ g.age = sample})]

Consume(s, allowed) ==
  /\ sampled[s] # Absent
  /\ bucket' = Written(sampled[s])
  /\ allowed = (bucket'.count <= Limit)
  /\ granted' = IF allowed THEN granted \cup {Grant(bucket', sampled[s])} ELSE granted
  /\ sampled' = [sampled EXCEPT ![s] = Absent]

\* purgeExpired deletes a row nobody has used for a day.
PurgeExpired ==
  /\ bucket # NoRow /\ bucket.updated >= MaxAge
  /\ bucket' = NoRow
  /\ UNCHANGED <<sampled, granted>>

Older(g) == [count |-> g.count, window |-> g.window + 1, age |-> g.age + 1, like |-> g.like]

\* Time passes; a statement does not wait for the row longer than MaxDelay.
LimiterTick ==
  /\ \A s \in Statements : sampled[s] # Absent => sampled[s] < MaxDelay
  /\ bucket' = IF bucket = NoRow THEN NoRow
               ELSE [bucket EXCEPT !.started = Aged(@), !.updated = Aged(@)]
  /\ sampled' = [s \in Statements |-> IF sampled[s] = Absent THEN Absent ELSE sampled[s] + 1]
  /\ granted' = {Older(g) : g \in {g \in granted : g.age < Remembered}}

LimiterNext ==
  \/ \E s \in Statements : Sample(s) \/ \E allowed \in BOOLEAN : Consume(s, allowed)
  \/ PurgeExpired
  \/ LimiterTick

LimiterSpec == LimiterInit /\ [][LimiterNext]_limiterVars

-----------------------------------------------------------------------------
(* Properties.                                                             *)

\* The windows that requests sampled within so many ticks can have been counted in: one
\* more than fit into that time and the wait of a statement for the row.
Windows(ticks) == 1 + (ticks + MaxDelay + Window - 1) \div Window

\* Within any span of time all processes together are allowed at most one budget for each
\* window it can touch, however statements wait for each other and whenever the bucket is
\* purged: two within a window less the wait, a third where waiting statements sampled
\* before the next reset.  A statement that waited as long as a purged bucket was kept
\* would break it: LimiterBounds.
WindowBudget ==
  \A from, to \in 0 .. Remembered :
    from <= to => Cardinality({g \in granted : g.age \in from .. to}) <= Windows(to - from) * Limit
=============================================================================
