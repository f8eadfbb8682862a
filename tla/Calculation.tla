---------------------------- MODULE Calculation -----------------------------
(***************************************************************************)
(* The life of one calculation: a request goes to the engine as it is, or  *)
(* an intake is completed on some day and its preview read on later days.  *)
(***************************************************************************)
EXTENDS CalculationBundle

CONSTANTS Requests,  \* requests made to the engine itself
          Intakes,   \* answers sent to complete()
          Days       \* the days that pass, in order

VARIABLES
  asked,     \* the request or the intake; calcDay is the day it is
  calcDay,
  bundle,    \* what was calculated; NoBundle before
  snapshot,  \* what complete() keeps; NoSnapshot before, or when it refused
  previewed  \* the preview last read; NoPreview before

calculationVars == <<asked, calcDay, bundle, snapshot, previewed>>
NoBundle == <<>>
NoSnapshot == <<>>
NoPreview == <<>>

CalculationInit ==
  /\ asked \in {<<"request", r>> : r \in Requests} \cup {<<"intake", i>> : i \in Intakes}
  /\ calcDay \in DOMAIN Days
  /\ bundle = NoBundle /\ snapshot = NoSnapshot /\ previewed = NoPreview

Today == Days[calcDay]

CalculateRequest ==
  /\ asked[1] = "request" /\ bundle = NoBundle
  /\ bundle' = calculateBundle([asked[2] EXCEPT !.asOfDate = Today])
  /\ UNCHANGED <<asked, calcDay, snapshot, previewed>>

CompleteIntake ==
  /\ asked[1] = "intake" /\ bundle = NoBundle
  /\ IntakeAccepted(asked[2], Today)
  /\ bundle' = calculateBundle(calculationRequest(asked[2], Today))
  /\ snapshot' = IF bundle'.failed THEN NoSnapshot ELSE [asOfDate |-> Today, input |-> asked[2]]
  /\ UNCHANGED <<asked, calcDay, previewed>>

ReadPreview ==
  /\ snapshot # NoSnapshot
  /\ previewed' = preview(snapshot, Today)
  /\ UNCHANGED <<asked, calcDay, bundle, snapshot>>

DayPasses ==
  /\ snapshot # NoSnapshot
  /\ calcDay < Len(Days)
  /\ calcDay' = calcDay + 1
  /\ UNCHANGED <<asked, bundle, snapshot, previewed>>

CalculationNext == CalculateRequest \/ CompleteIntake \/ ReadPreview \/ DayPasses
CalculationSpec == CalculationInit /\ [][CalculationNext]_calculationVars

-----------------------------------------------------------------------------
(* Properties.                                                             *)

Calculated == bundle # NoBundle /\ ~bundle.failed
TraceOf(id) == CHOOSE t \in Range(bundle.traces) : t.id = id

\* The digit sum by place value, as a reader with a pencil adds it.
DigitSum(n) == (n % 10) + ((n \div 10) % 10) + ((n \div 100) % 10) + ((n \div 1000) % 10)

\* The metrics whose reduction stops at a master number.
KeepsMasters(id) ==
  \/ id.profile = "western_digit_sum_v1"
  \/ id.profile = "western_decoz_v1" /\ id.metric \notin Range(PersonalMonth) \cup {"personal_year"}

\* A reduction names every number between its input and its output, each the
\* digit sum of the one before, and did not pass a number it had to stop at.
Reduces(t) ==
  LET chain == t.inputs \o t.intermediates
      stops == (1 .. 9) \cup (IF KeepsMasters(t.id) THEN Masters ELSE {})
  IN /\ t.output = Last(chain)
     /\ \A i \in 1 .. Len(chain) - 1 : chain[i + 1] = DigitSum(chain[i]) /\ chain[i] \notin stops
     /\ t.output = 0 => t.inputs = <<0>>
     /\ t.output \in stops \cup {0}
     /\ t.output % 9 = t.inputs[1] % 9

\* A calculated bundle passes the validation of its readers, and its traces replay:
\* reductions step by step, sums from the outputs of the reductions they follow,
\* and every number with a derivation is the output of its last trace.
BundleIsReplayable ==
  Calculated =>
    /\ validateBundle(bundle)
    /\ \A t \in Range(bundle.traces) : t.operation = "reduce" => Reduces(t)
    /\ \A f \in Range(bundle.facts) :
         LET traces == [i \in DOMAIN f.traces |-> TraceOf(f.traces[i])]
             reductions == SelectSeq(traces, LAMBDA t : t.operation = "reduce")
         IN /\ reductions # <<>> => f.root = Last(reductions).output
            /\ \A i \in DOMAIN traces : traces[i].operation = "sum" =>
                 /\ traces[i].inputs = [k \in 1 .. Len(reductions) - 1 |-> reductions[k].output]
                 /\ traces[i].output = Total(traces[i].inputs)
                 /\ Last(reductions).inputs = <<traces[i].output>>

\* The letters of a name that belong to a metric, summed over the whole name.
LetterTotal(text, subset, ys) ==
  LET of == {i \in DOMAIN text : text[i] \in Letters
                                 /\ (subset = "all" \/ ClassOf(text[i], i, ys) = subset)}
  IN FoldFunctionOnSet(LAMBDA a, b : a + b, 0, [i \in DOMAIN text |-> IF i \in of THEN WESTERN[text[i]] ELSE 0], of)

\* The two ways an accepted intake can still not be calculated: nobody born on 29
\* February has a Johari year outside leap years, and a word of marks has no number.
NoBirthdayThisYear(input) == ~ProjectedYearExists(input.dateOfBirth, Today.year)
WordOfMarks(input) ==
  \E n \in Range(input.names) : \E t \in Range(Tokens(CalculationText(n))) : Range(t.word) \subseteq {Mark}

\* An accepted intake is calculated, with nothing missing: the only warnings are the
\* standing one of Johari's and that a name has no vowel or no consonant; and the
\* customer's classification of each Y decides on which side it counts.
AcceptedIsCalculated ==
  (asked[1] = "intake" /\ bundle # NoBundle) =>
    IF bundle.failed
    THEN NoBirthdayThisYear(asked[2]) \/ WordOfMarks(asked[2])
    ELSE /\ \A w \in Range(bundle.warnings) :
              w.code \in {"JOHARI_PREDAWN_BOUNDARY_EXCLUDED", "NAME_METRIC_NOT_APPLICABLE"}
         /\ LET name == findName(asked[2].names, {"birth_full"})[1]
                birth == calculationRequest(asked[2], Today).names[1]
            IN \A subset \in {"vowel", "consonant"} :
                 LET metric == IF subset = "vowel" THEN "soul_urge" ELSE "personality"
                     facts == SelectSeq(bundle.facts, LAMBDA f : f.metric = metric)
                     expected == LetterTotal(birth.spelling, subset, birth.ys)
                 IN IF facts = <<>> THEN expected = 0
                    ELSE facts[1].root % 9 = expected % 9

\* The preview of a completed intake does not change, whatever the day it is read on.
PreviewIsStable == [][previewed # NoPreview => previewed' = previewed]_calculationVars
=============================================================================
