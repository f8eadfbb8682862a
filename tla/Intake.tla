------------------------------- MODULE Intake -------------------------------
(***************************************************************************)
(* What filling in an intake promises, without versions, clocks, awaits,   *)
(* lost answers or retries: a page is opened, changed and completed        *)
(* atomically, each change is made to the page it was asked for, and of    *)
(* the changes asked for on one page only one is ever made.                *)
(*                                                                         *)
(* Drafts implements this specification (ImplementsIntake).                *)
(***************************************************************************)
CONSTANTS Keys, Calls, Sections, Values, None

VARIABLES
  page,   \* of each key, how far it is and what it was answered with
  change  \* what is asked to be done to a page, or None

intakeVars == <<page, change>>

Answers == [Sections -> Values \cup {None}]
Blank == [x \in Sections |-> None]

IntakeInit ==
  /\ page = [k \in Keys |-> [stage |-> "none", answers |-> Blank]]
  /\ change = [c \in Calls |-> None]

\* Pages are written; what was asked of them before is void.
Write(written, next) ==
  /\ page' = [k \in Keys |-> IF k \in written THEN next[k] ELSE page[k]]
  /\ change' = [c \in Calls |->
                  IF change[c] # None /\ change[c].key \in written THEN None ELSE change[c]]

Open(k) ==
  /\ page[k].stage = "none"
  /\ Write({k}, [key \in {k} |-> [stage |-> "draft", answers |-> Blank]])

\* A change is asked for: some sections are answered anew, or all of them for good.
Ask(c, k, stage, given) ==
  /\ page[k].stage = "draft" /\ change[c] = None
  /\ stage = "complete" => \A x \in Sections : given[x] # None
  /\ change' = [change EXCEPT ![c] =
       [key |-> k, stage |-> stage,
        answers |-> [x \in Sections |-> IF given[x] = None THEN page[k].answers[x] ELSE given[x]]]]
  /\ UNCHANGED page

\* It is made, to the page as it was when it was asked for.
Make(c) ==
  /\ change[c] # None
  /\ Write({change[c].key},
           [key \in {change[c].key} |-> [stage |-> change[c].stage, answers |-> change[c].answers]])

\* It is refused, or fails.
Drop(c) ==
  /\ change[c] # None
  /\ change' = [change EXCEPT ![c] = None]
  /\ UNCHANGED page

\* A completed intake is bought with what it was completed with.
Buy(k) ==
  /\ page[k].stage = "complete"
  /\ Write({k}, [key \in {k} |-> [page[k] EXCEPT !.stage = "bought"]])

\* Pages that were not bought are erased for good.
Erase(keys) ==
  /\ keys # {} /\ \A k \in keys : page[k].stage \in {"draft", "complete"}
  /\ Write(keys, [k \in keys |-> [stage |-> "erased", answers |-> Blank]])

IntakeNext ==
  \/ \E k \in Keys : Open(k) \/ Buy(k)
  \/ \E c \in Calls : \/ Make(c) \/ Drop(c)
                      \/ \E k \in Keys, stage \in {"draft", "complete"}, given \in Answers :
                           Ask(c, k, stage, given)
  \/ \E keys \in SUBSET Keys : Erase(keys)

IntakeSpec == IntakeInit /\ [][IntakeNext]_intakeVars
=============================================================================
