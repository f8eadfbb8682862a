-------------------------- MODULE CalculationBundle -------------------------
(***************************************************************************)
(* calculateBundle of packages/numerology: the facts, traces and warnings  *)
(* of the selected profiles, the validation every reader of a bundle       *)
(* applies, and the way an intake becomes a calculation                    *)
(* (packages/contracts/src/report-intent.ts,                               *)
(* packages/application/src/report-intent-commands.ts).                    *)
(*                                                                         *)
(* A profile is the sequence of what it adds to the bundle: facts with     *)
(* their traces, warnings, or Failure where the code throws.  Identifiers  *)
(* are records of their parts; policy ids, messages and display tokens are *)
(* left out.                                                               *)
(***************************************************************************)
EXTENDS Numbers

NoText == <<>>
ProfileIds == <<"western_decoz_v1", "western_digit_sum_v1", "western_balliett_1908_v1",
                "cheiro_1926_v1", "indian_johari_1990_v1", "loshu_raw_dob_v1",
                "loshu_indian_augmented_v1">>

-----------------------------------------------------------------------------
(* Names: identity.ts and bundle-input.ts.                                 *)

Within(text, places) ==
  IF places = {} THEN NoText ELSE SubSeq(text, Min(places), Max(places))
Trim(text) == Within(text, {i \in DOMAIN text : text[i] # Space})
\* normalizeEngineSpacing: one space between words, none around them.
Spaced(text, kept) == Trim([k \in DOMAIN kept |-> text[kept[k]]])
normalizeEngineSpacing(text) ==
  Spaced(text, SelectSeq([i \in DOMAIN text |-> i],
                         LAMBDA i : text[i] # Space \/ (i > 1 /\ text[i - 1] # Space)))
Blank(text) == Range(text) \subseteq {Space}
LatinScript(text) == Range(text) \subseteq LatinText

\* normalizeName: a name is read in its own Latin letters unless a spelling is given.
\* A spelling is confirmed by its transliteration record ("none", "given", "confirmed").
normalizeName(name) ==
  [kind |-> name.kind, ys |-> name.ys, latin |-> LatinScript(name.value),
   confirmed |-> name.transliteration = "confirmed",
   text |-> normalizeEngineSpacing(IF name.spelling # NoText THEN name.spelling
                                   ELSE IF LatinScript(name.value) THEN name.value ELSE NoText)]
NameAccepted(name) ==
  /\ ~Blank(name.value)
  /\ name.spelling # NoText => ~Blank(name.spelling)

BirthKinds == {"birth_full", "birth_legal", "engine_latin"}
PopularKinds == {"popular", "usual", "nickname", "professional", "stage",
                 "current_full", "current_legal", "engine_latin"}

\* findName: the first name of one of the kinds; <<>> if there is none.
FirstNormalized(found) == IF found = <<>> THEN <<>> ELSE <<normalizeName(Head(found))>>
findName(names, kinds) == FirstNormalized(SelectSeq(names, LAMBDA n : n.kind \in kinds))

\* latinReadinessWarning and calculationTextForName: why a name is not calculated with.
NameProblem(found) ==
  CASE found = <<>> -> "MISSING_NAME_USE"
    [] found # <<>> /\ found[1].text = NoText -> "ENGINE_LATIN_NAME_REQUIRED"
    [] OTHER ->
         IF ~found[1].latin /\ ~found[1].confirmed
         THEN "ENGINE_TRANSLITERATION_CONFIRMATION_REQUIRED"
         ELSE IF mapLetters(found[1].text, WESTERN).unsupported
         THEN "UNSUPPORTED_NAME_CHARACTER" ELSE "none"

-----------------------------------------------------------------------------
(* What a profile adds: bundle-facts.ts.                                   *)

Failure == [type |-> "failure"]
Warning(profile, code) == [type |-> "warning", profile |-> profile, code |-> code]
Trace(op, inputs, steps, output) ==
  [operation |-> op, inputs |-> inputs, intermediates |-> steps, output |-> output]
reduceTrace(r) == Trace("reduce", <<r.compound>>, Tail(r.steps), r.root)
Fact(profile, metric, root, debts, traces) ==
  [type |-> "fact", profile |-> profile, metric |-> metric, root |-> root, debts |-> debts,
   traces |-> traces]

addNumberFact(profile, metric, r) == Fact(profile, metric, r.root, r.debts, <<reduceTrace(r)>>)
\* The debts of simpleNumberResult and of Balliett's date are not looked for.
addSimpleFact(profile, metric, r) == Fact(profile, metric, r.root, {}, <<reduceTrace(r)>>)

\* addDateReductionFact and addNameFact: each component, their sum, its reduction.
ComponentTraces(r) ==
  [i \in DOMAIN r.parts |-> reduceTrace(r.parts[i])]
  \o <<Trace("sum", r.outputs, <<>>, r.compound), reduceTrace(r)>>

NameDebts(r) == r.debts \cup UNION {r.parts[i].debts : i \in DOMAIN r.parts}
addNameFact(profile, metric, r) == Fact(profile, metric, r.root, NameDebts(r), ComponentTraces(r))

addLoShuFact(profile, grid) ==
  <<Fact(profile, "grid", 0, {},
         <<Trace("count_digits", <<>>, grid.occurrences, Len(grid.occurrences))>>)>>

-----------------------------------------------------------------------------
(* bundle-profiles.ts                                                      *)

\* soul_urge and personality: skipped with a warning when no letter is theirs.
OptionalName(profile, metric, r) ==
  IF Applicable(r) THEN <<addNameFact(profile, metric, r)>>
  ELSE <<Warning(profile, "NAME_METRIC_NOT_APPLICABLE")>>

\* The warnings come before the facts of both metrics.
WarningsFirst(entries) ==
  SelectSeq(entries, LAMBDA e : e.type = "warning")
  \o SelectSeq(entries, LAMBDA e : e.type # "warning")

Listed(profile, metric, values) ==
  Fact(profile, metric, 0, {}, <<Trace("map_letters", <<>>, SetToSortSeq(values, <), 0)>>)
Difference(profile, metric, difference) ==
  Fact(profile, metric, difference, {}, <<Trace("difference", <<difference>>, <<>>, difference)>>)
Bridge(profile, metric, a, b) == Difference(profile, metric, Absolute(a.root - b.root))

\* soul_urge and personality, when every Y has a class.
ClassifiedEntries(profile, soulUrge, personality) ==
  WarningsFirst(OptionalName(profile, "soul_urge", soulUrge)
                \o OptionalName(profile, "personality", personality))
BridgeEntries(profile, lifePath, expression, soulUrge, personality) ==
  IF Applicable(soulUrge) /\ Applicable(personality)
  THEN <<Bridge(profile, "bridge_life_path_expression", lifePath, expression),
         Bridge(profile, "bridge_soul_personality", soulUrge, personality)>>
  ELSE <<>>

\* The part of the Decoz profile that reads the birth name.
NameFacts(profile, name, classified, lifePath, expression, soulUrge, personality) ==
  <<addNameFact(profile, "expression", expression)>>
  \o (IF classified THEN ClassifiedEntries(profile, soulUrge, personality)
      ELSE <<Warning(profile, "WESTERN_Y_CLASSIFICATION_REQUIRED")>>)
  \o <<Listed(profile, "karmic_lessons", westernKarmicLessons(name.text)),
       Listed(profile, "hidden_passion", westernHiddenPassion(name.text)),
       addNumberFact(profile, "maturity", westernMaturity(lifePath, expression))>>
  \o (IF classified THEN BridgeEntries(profile, lifePath, expression, soulUrge, personality)
      ELSE <<>>)
WesternNameEntries(profile, name, lifePath, classified) ==
  IF WordsSupported(name.text) /\ (classified => YsFound(name.text, name.ys))
  THEN NameFacts(profile, name, classified, lifePath,
                 westernNameMetric(name.text, "all", Masters, name.ys),
                 westernNameMetric(name.text, "vowel", Masters, name.ys),
                 westernNameMetric(name.text, "consonant", Masters, name.ys))
  ELSE <<Failure>>

\* A name with a problem leaves a warning, another one what the profile makes of it.
IfUsable(profile, found, problem, entries(_)) ==
  IF problem # "none" THEN <<Warning(profile, problem)>> ELSE entries(found[1])
WhenFound(profile, found, entries(_)) == IfUsable(profile, found, NameProblem(found), entries)
WithName(profile, request, kinds, entries(_)) ==
  WhenFound(profile, findName(request.names, kinds), entries)

PersonalMonth == <<"personal_month_1", "personal_month_2", "personal_month_3", "personal_month_4",
                   "personal_month_5", "personal_month_6", "personal_month_7", "personal_month_8",
                   "personal_month_9", "personal_month_10", "personal_month_11", "personal_month_12">>
DateFact(profile, metric, r, debts) == Fact(profile, metric, r.root, debts, ComponentTraces(r))
WesternEntries(profile, request, date, year, lifePath) ==
  <<DateFact(profile, "life_path", lifePath, lifePath.debts),
    addNumberFact(profile, "birthday", westernBirthday(date)),
    addNumberFact(profile, "attitude", westernAttitude(date))>>
  \o WithName(profile, request, BirthKinds, LAMBDA name :
       WesternNameEntries(profile, name, lifePath, UnclassifiedYs(name.text, name.ys) = {}))
  \o <<addNumberFact(profile, "personal_year", westernPersonalYear(date, year))>>
  \o [m \in 1 .. 12 |->
       addNumberFact(profile, PersonalMonth[m], westernPersonalMonth(date, year, m))]
addWesternProfile(request) ==
  WesternEntries("western_decoz_v1", request, request.civilDate, request.asOfDate.year,
                 westernLifePath(request.civilDate))

addBalliettProfile(request) ==
  LET profile == "western_balliett_1908_v1"
  IN <<DateFact(profile, "birth_date", balliettBirthDate(request.civilDate), {})>>
     \o WithName(profile, request, BirthKinds, LAMBDA name :
          IF WordsSupported(name.text)
          THEN <<addNameFact(profile, "name", westernNameMetric(name.text, "all", {}, name.ys))>>
          ELSE <<Failure>>)

LettersTrace(r) == Trace("map_letters", <<>>, r.values, Total(r.values))
CheiroDates(profile, metrics) ==
  <<addSimpleFact(profile, "birth_number", metrics.birth),
    addSimpleFact(profile, "month_number", metrics.month),
    addSimpleFact(profile, "year_number", metrics.year)>>
CheiroNameFact(profile, r) ==
  Fact(profile, "name_number", r.root, {}, <<LettersTrace(r)>> \o ComponentTraces(r))
addCheiroProfile(request) ==
  LET profile == "cheiro_1926_v1"
  IN CheiroDates(profile, cheiroDateMetrics(request.civilDate))
     \o WithName(profile, request, PopularKinds, LAMBDA name :
          IF WordsSupported(name.text) THEN <<CheiroNameFact(profile, cheiroName(name.text))>>
          ELSE <<Failure>>)

\* planetForRoot throws for anything but 1 .. 9.
PlanetFact(profile, metric, r, traces) ==
  IF r.root \in DOMAIN Planets THEN Fact(profile, metric, r.root, {}, traces) ELSE Failure

JohariNameFact(profile, r) ==
  PlanetFact(profile, "name_number", r, <<LettersTrace(r), reduceTrace(r)>>)
JohariNumberFact(profile, metric, r) == PlanetFact(profile, metric, r, <<reduceTrace(r)>>)
addJohariProfile(request) ==
  LET profile == "indian_johari_1990_v1"
      date == request.civilDate
      year == request.asOfDate.year
  IN <<Warning(profile, "JOHARI_PREDAWN_BOUNDARY_EXCLUDED"),
       JohariNumberFact(profile, "psychic_number", psychic(date)),
       JohariNumberFact(profile, "destiny_number", destiny(date))>>
     \o (IF ProjectedYearExists(date, year)
         THEN <<addSimpleFact(profile, "projected_year", johariProjectedYear(date, year))>>
         ELSE <<Failure>>)
     \o WithName(profile, request, PopularKinds, LAMBDA name :
          IF Supported(name.text) THEN <<JohariNameFact(profile, johariNameNumber(name.text))>>
          ELSE <<Failure>>)

ProfileEntries(profile, request) ==
  CASE profile = "western_decoz_v1" -> addWesternProfile(request)
    [] profile = "western_digit_sum_v1" ->
         <<addNumberFact(profile, "life_path", westernDigitSumLifePath(request.civilDate))>>
    [] profile = "western_balliett_1908_v1" -> addBalliettProfile(request)
    [] profile = "cheiro_1926_v1" -> addCheiroProfile(request)
    [] profile = "indian_johari_1990_v1" -> addJohariProfile(request)
    [] profile = "loshu_raw_dob_v1" -> addLoShuFact(profile, loShuRawGrid(request.civilDate))
    [] profile = "loshu_indian_augmented_v1" ->
         addLoShuFact(profile, loShuAugmentedGrid(request.civilDate))

-----------------------------------------------------------------------------
(* bundle-builder.ts, bundle.ts                                            *)

\* Traces and warnings are numbered through the whole bundle; a fact names its traces.
AddEntry(b, e) ==
  CASE e.type = "fact" ->
         LET id(k) == [profile |-> e.profile, metric |-> e.metric, number |-> Len(b.traces) + k]
         IN [b EXCEPT !.traces = @ \o [k \in DOMAIN e.traces |-> e.traces[k] @@ [id |-> id(k)]],
                      !.facts = Append(@, [e EXCEPT !.traces = [k \in DOMAIN e.traces |-> id(k)]])]
    [] e.type = "warning" -> [b EXCEPT !.warnings = Append(@, e @@ [id |-> Len(b.warnings) + 1])]
    [] OTHER -> [b EXCEPT !.failed = TRUE]

EmptyBundle == [facts |-> <<>>, traces |-> <<>>, warnings |-> <<>>, failed |-> FALSE]
Failed == [EmptyBundle EXCEPT !.failed = TRUE]

\* The age on a day, a birthday on 29 February being reached on 1 March in other years.
AgeOn(birth, day) ==
  day.year - birth.year
    - (IF day.month < birth.month \/ (day.month = birth.month /\ day.day < birth.day)
       THEN 1 ELSE 0)

assertRequest(request) ==
  /\ RealDate(request.civilDate) /\ RealDate(request.asOfDate)
  /\ ~After(request.civilDate, request.asOfDate)
  /\ AgeOn(request.civilDate, request.asOfDate) >= 18
  /\ request.profiles # <<>> /\ IsInjective(request.profiles)

\* A profile that throws leaves no bundle.
Complete(bundle) ==
  IF bundle.failed THEN Failed
  ELSE [facts |-> bundle.facts, traces |-> bundle.traces, warnings |-> bundle.warnings, failed |-> FALSE]
calculateBundle(request) ==
  IF ~assertRequest(request) \/ \E i \in DOMAIN request.names : ~NameAccepted(request.names[i])
  THEN Failed
  ELSE Complete(FoldLeft(AddEntry, EmptyBundle,
         FlattenSeq([p \in DOMAIN request.profiles |->
           ProfileEntries(request.profiles[p], request)])))

\* validateBundle: ids are unique, facts name traces of the bundle, numbers are
\* non-negative, profiles are known.
validateBundle(bundle) ==
  LET ids(things) == [i \in DOMAIN things |-> things[i].id]
      factIds == [i \in DOMAIN bundle.facts |-> <<bundle.facts[i].profile, bundle.facts[i].metric>>]
  IN /\ ~bundle.failed
     /\ IsInjective(ids(bundle.traces)) /\ IsInjective(ids(bundle.warnings)) /\ IsInjective(factIds)
     /\ \A t \in Range(bundle.traces) : t.output >= 0 /\ \A n \in Range(t.intermediates) : n >= 0
     /\ \A f \in Range(bundle.facts) :
          /\ f.root >= 0 /\ f.profile \in Range(ProfileIds)
          /\ Range(f.traces) \subseteq Range(ids(bundle.traces))

-----------------------------------------------------------------------------
(* From an intake to a calculation.  An answered name has the text shown    *)
(* (value), the spelling to calculate with and whether it was confirmed,    *)
(* and the classes of its Ys.                                               *)

IntakeKinds == {"birth_full", "current_full", "popular", "report_display"}

\* assertSafeName: a name in another script needs a confirmed spelling in Latin letters;
\* so does a spelling that is given although the name is Latin.
SafeName(name) ==
  /\ ~Blank(name.value) /\ name.kind \in IntakeKinds
  /\ ~LatinScript(name.value) \/ name.spelling # NoText =>
       /\ name.spelling # NoText /\ name.confirmed
       /\ LatinScript(name.spelling)

\* Mutant: ages are counted in calendar years.
normalizeReportIntentInput_Years(input, today) ==
  /\ RealDate(input.dateOfBirth) /\ input.dateOfBirth.year >= 100
  /\ ~After(input.dateOfBirth, today)
  /\ today.year - input.dateOfBirth.year >= 18
  /\ Len(input.names) \in 2 .. 5
  /\ \A n \in Range(input.names) : SafeName(n)

\* normalizeReportIntentInput accepts an intake (Date.UTC moves the years before 100).
normalizeReportIntentInput(input, today) ==
  /\ RealDate(input.dateOfBirth) /\ input.dateOfBirth.year >= 100
  /\ ~After(input.dateOfBirth, today)
  /\ AgeOn(input.dateOfBirth, today) >= 18
  /\ Len(input.names) \in 2 .. 5
  /\ \A n \in Range(input.names) : SafeName(n)

assertRequiredNameViews(input) ==
  LET kinds == {n.kind : n \in Range(input.names)}
  IN "birth_full" \in kinds /\ kinds \cap {"popular", "current_full"} # {}

\* What calculationRequest calculates with, and when it refuses to.
CalculationText(name) ==
  normalizeEngineSpacing(IF name.spelling # NoText THEN name.spelling ELSE name.value)
Spelled(name) ==
  /\ Range(CalculationText(name)) \subseteq Letters \cup {Space, Mark}
  /\ CalculationText(name) # NoText
  /\ UnclassifiedYs(CalculationText(name), name.ys) = {}
calculationRequest(input, today) ==
  [civilDate |-> input.dateOfBirth, asOfDate |-> today, profiles |-> ProfileIds,
   names |-> [i \in DOMAIN input.names |->
     LET name == input.names[i] IN
     [kind |-> name.kind, value |-> name.value, spelling |-> CalculationText(name), ys |-> name.ys,
      transliteration |-> IF name.spelling # NoText THEN "confirmed" ELSE "none"]]]

IntakeAccepted(input, today) ==
  /\ normalizeReportIntentInput(input, today)
  /\ assertRequiredNameViews(input)
  /\ \A n \in Range(input.names) : Spelled(n)

RootOf(facts) == IF facts = <<>> THEN "missing" ELSE Head(facts).root
\* The numbers a preview shows.
Shown(bundle) ==
  [m \in {"life_path", "expression", "personal_year"} |->
    RootOf(SelectSeq(bundle.facts, LAMBDA f : f.metric = m))]

\* Mutant: the preview is calculated for the day it is read.
preview_Today(snapshot, today) ==
  Shown(calculateBundle(calculationRequest(snapshot.input, today)))
\* complete() keeps the day with the answers; preview() calculates with that day.
preview(snapshot, today) ==
  Shown(calculateBundle(calculationRequest(snapshot.input, snapshot.asOfDate)))
=============================================================================
