------------------------------ MODULE Doctrine ------------------------------
(***************************************************************************)
(* The doctrine of packages/doctrine: which authored releases compile, the *)
(* index of the compiled rules, and the evidence the registry resolves for *)
(* the facts of a calculation.                                             *)
(*                                                                         *)
(* Identifiers are numbers, so that they have the order compareText gives  *)
(* them.  Prose is a value: what a text says is "safe" or not, hashes are  *)
(* "right", "wrong" or absent.  Arrays that the compiler sorts and whose   *)
(* duplicates it refuses are sequences, the others sets.                   *)
(***************************************************************************)
EXTENDS Integers, Sequences, FiniteSets, SequencesExt, FiniteSetsExt, Functions, TLC

\* The elements of a set in the order of Before(_, _), in which no two are equal.
InOrder(S, Before(_, _)) ==
  LET place == [x \in S |-> 1 + Cardinality({y \in S : Before(y, x)})]
  IN [i \in 1 .. Cardinality(S) |-> CHOOSE x \in S : place[x] = i]

\* What is at the given places of a sequence, in their order.
Ascending(places) == InOrder(places, LAMBDA i, j : i < j)
AtPlaces(s, places) ==
  LET order == Ascending(places) IN [k \in DOMAIN order |-> s[order[k]]]

Missing == -1        \* a number a fact does not have
AnyRoot == -1        \* the index key "*"
Always == 9999       \* valid_to of a rule that has none; valid_from is 0 then

\* PROFILE_MANIFESTS: the metrics of the profiles, as far as instances use them.
Metrics ==
  [western_decoz |-> {"life_path", "birthday", "expression", "personal_year",
                     "personal_month.01", "personal_month.02"},
   western_digit_sum |-> {"life_path"},
   western_balliett |-> {"birth_date", "name"},
   cheiro |-> {"birth_number", "name_number"},
   johari |-> {"psychic_number", "destiny_number", "name_number"},
   loshu_raw |-> {"grid"},
   loshu_augmented |-> {"grid"}]

-----------------------------------------------------------------------------
(* conditions.ts                                                           *)

AllowedOps(path) ==
  CASE path \in {"root", "compound", "master"} -> {"eq", "gte"}
    [] path = "tokens" -> {"contains"}
    [] path \in {"profile", "metric"} -> {"eq"}
    [] OTHER -> {}

evaluateCondition(c, fact) ==
  CASE c.op = "eq" -> fact[c.path] = c.value
    [] c.op = "contains" -> c.value \in fact[c.path]
    [] c.op = "gte" -> fact[c.path] >= c.value
evaluateTrigger(trigger, fact) == \A c \in Range(trigger) : evaluateCondition(c, fact)

\* parseTrigger and validateTrigger: conditions differ, do not contradict each other
\* and stay with the profile and the metric of the rule.
TriggerCompiles(rule) ==
  LET equalities == {c \in Range(rule.trigger) : c.op = "eq"} IN
  /\ rule.trigger # <<>>
  /\ \A c \in Range(rule.trigger) : c.op \in AllowedOps(c.path)
  /\ IsInjective(rule.trigger)
  /\ \A c, d \in equalities : c.path = d.path => c.value = d.value
  /\ \A c \in equalities : c.path = "profile" => c.value = rule.profile
  /\ \A c \in equalities : c.path = "metric" => rule.metric \in {"none", c.value}

-----------------------------------------------------------------------------
(* compiler.ts and semantic-validation.ts.                                 *)

Ids(things) == [i \in DOMAIN things |-> things[i].id]
IdSet(things) == Range(Ids(things))

RuleCompiles(rule, input) ==
  /\ rule.profile \in DOMAIN Metrics
  /\ rule.metric = "none" \/ rule.metric \in Metrics[rule.profile]
  /\ rule.locale \in input.locales
  /\ rule.sources \subseteq IdSet(input.sources)
  /\ rule.contradictions \subseteq IdSet(input.contradictions)
  /\ rule.from <= rule.to
  /\ rule.hash # "wrong"
  /\ rule.status = "active" =>
       /\ rule.metric # "none" /\ rule.review = "approved" /\ rule.reviewers >= 2
       /\ rule.claims # {} /\ rule.sources # {} /\ rule.hash = "right"
  /\ TriggerCompiles(rule)

BindingOf(input, id) == CHOOSE b \in Range(input.bindings) : b.id = id

\* What following the suppressions leads to in n steps.
Suppressed(input, from) ==
  UNION {BindingOf(input, id).suppresses : id \in from \cap IdSet(input.bindings)}
SuppressedAfter(input, id) ==
  LET after[n \in Nat] == IF n = 0 THEN {id} ELSE Suppressed(input, after[n - 1]) IN after

\* suppressionCycles: a rule is on a cycle when following its suppressions, which are
\* as many as there are rules at most, leads back to it.
SuppressionCycle(input) ==
  LET ids == IdSet(input.bindings)
  IN \E n \in 1 .. Cardinality(ids), id \in ids : id \in SuppressedAfter(input, id)[n]

\* semanticDiagnostics is empty.
Compiles(input) ==
  /\ \A field \in {"rules", "sources", "actions", "bindings", "contradictions"} :
       IsInjective(Ids(input[field]))
  /\ IdSet(input.rules) = IdSet(input.bindings)
  /\ \A rule \in Range(input.rules) : RuleCompiles(rule, input)
  /\ \A b \in Range(input.bindings) :
       /\ b.actions \subseteq IdSet(input.actions) /\ Cardinality(b.actions) <= 5
       /\ b.suppresses \subseteq IdSet(input.rules) \ {b.id}
  /\ \A action \in Range(input.actions) : input.locales \subseteq action.locales
  /\ ~SuppressionCycle(input)

\* normalizeAuthoringRelease and withComputedRuleContentHash.
ById(things) == InOrder(Range(things), LAMBDA a, b : a.id < b.id)
normalizedForCompilation(input) ==
  [input EXCEPT !.rules = ById([i \in DOMAIN @ |-> [@[i] EXCEPT !.hash = "right"]]),
                !.sources = ById(@), !.actions = ById(@), !.bindings = ById(@),
                !.contradictions = ById(@)]

\* buildDoctrineIndex: a rule is filed under the root its first equality asks for.
IndexedRoot(rule) ==
  LET asks == {i \in DOMAIN rule.trigger : rule.trigger[i].op = "eq" /\ rule.trigger[i].path = "root"}
  IN IF asks = {} THEN AnyRoot ELSE rule.trigger[Min(asks)].value
buildDoctrineIndex(rules) ==
  {[profile |-> r.profile, metric |-> r.metric, root |-> IndexedRoot(r), id |-> r.id] :
     r \in {r \in Range(rules) : r.metric # "none"}}
indexRuleIds(index, fact) ==
  {e.id : e \in {e \in index : e.profile = fact.profile /\ e.metric = fact.metric
                               /\ e.root \in {fact.root, AnyRoot}}}

Indexed(release) == [authored |-> release, index |-> buildDoctrineIndex(release.rules)]
compileDoctrine(input) == Indexed(normalizedForCompilation(input))
\* validateCompiledDoctrine: a compiled release is its own recompilation.
validateCompiledDoctrine(release) ==
  Compiles(release.authored) /\ release = compileDoctrine(release.authored)

-----------------------------------------------------------------------------
(* registry.ts: resolve().                                                 *)

ConfidenceRank == [high |-> 0, medium |-> 1, low |-> 2, unresolved |-> 3]
compareCandidates(a, b) ==
  LET ra == ConfidenceRank[a.rule.confidence]
      rb == ConfidenceRank[b.rule.confidence]
  IN \/ ra < rb
     \/ ra = rb /\ a.rule.id < b.rule.id
     \/ ra = rb /\ a.rule.id = b.rule.id /\ a.fact.id < b.fact.id

\* Every rule of the locale with every fact that fires it.
Candidates(release, facts, locale) ==
  LET rules == Range(release.authored.rules)
      fired(f) == {r \in rules : /\ r.id \in indexRuleIds(release.index, f)
                                 /\ r.locale = locale /\ evaluateTrigger(r.trigger, f)}
  IN InOrder(
       UNION {{[fact |-> f, rule |-> r, binding |-> BindingOf(release.authored, r.id)] :
                 r \in fired(f)} : f \in facts}, compareCandidates)

\* omissionCode, "none" for an eligible candidate.
omissionCode(c, release, asOfDate) ==
  LET rule == c.rule
      sources == {s \in Range(release.authored.sources) : s.id \in rule.sources}
      actions == {a \in Range(release.authored.actions) : a.id \in c.binding.actions}
  IN CASE rule.status # "active" -> "INVALID_STATUS"
       [] ~(asOfDate \in rule.from .. rule.to) -> "OUTSIDE_VALIDITY"
       [] rule.confidence = "low" -> "LOW_CONFIDENCE"
       [] rule.confidence = "unresolved" -> "UNRESOLVED_CONFIDENCE"
       [] ~c.binding.safe \/ ~rule.safe -> "UNSAFE_RULE"
       [] \E s \in sources : s.status # "active" -> "BLOCKED_SOURCE"
       [] \E a \in actions : a.status # "active" -> "BLOCKED_ACTION"
       [] \E a \in actions : ~a.safe -> "UNSAFE_RULE"
       [] OTHER -> "none"

\* Mutant: a suppressor counts although it is suppressed itself.
selectedSuppressor_First(eligible) ==
  [id \in {c.rule.id : c \in Range(eligible)} |->
     LET by == {i \in DOMAIN eligible : id \in eligible[i].binding.suppresses}
     IN IF by = {} THEN <<>> ELSE <<eligible[Min(by)]>>]

\* selectedSuppressor: the first eligible candidate that suppresses a rule and is not
\* suppressed itself, <<>> when there is none.  There are no cycles.
selectedSuppressor(eligible) ==
  LET suppressor[id \in {c.rule.id : c \in Range(eligible)}] ==
        LET by == {i \in DOMAIN eligible : /\ id \in eligible[i].binding.suppresses
                                           /\ suppressor[eligible[i].rule.id] = <<>>}
        IN IF by = {} THEN <<>> ELSE <<eligible[Min(by)]>>
  IN suppressor

\* toEvidence: what a report is planned from.
toEvidence(c, release) ==
  [fact |-> c.fact.id, profile |-> c.fact.profile, metric |-> c.fact.metric,
   traces |-> c.fact.traces, rule |-> c.rule.id, status |-> c.rule.status,
   review |-> c.rule.review, confidence |-> c.rule.confidence, class |-> c.rule.class,
   timing |-> c.rule.timing, strengths |-> c.rule.strengths, tensions |-> c.rule.tensions,
   claims |-> c.rule.claims, sources |-> c.rule.sources, section |-> c.binding.section,
   actions |-> c.binding.actions,
   resolvedActions |-> {a \in Range(release.authored.actions) : a.id \in c.binding.actions}]

\* What became of a candidate.
OutcomeOf(c, suppressor) ==
  LET told(outcome, reason, by) ==
        [fact |-> c.fact.id, rule |-> c.rule.id, outcome |-> outcome, reason |-> reason, by |-> by]
  IN IF c.code # "none" THEN told("omitted", c.code, 0)
     ELSE IF suppressor[c.rule.id] # <<>>
     THEN told("suppressed", "none", suppressor[c.rule.id][1].rule.id)
     ELSE told("selected", "none", 0)
Suppression(c, by) ==
  [fact |-> c.fact.id, rule |-> c.rule.id, byFact |-> by.fact.id, byRule |-> by.rule.id]

SettledWith(release, facts, all, eligible, suppressor) ==
  LET contradictions == release.authored.contradictions
      free == AtPlaces(eligible, {i \in DOMAIN eligible : suppressor[eligible[i].rule.id] = <<>>})
  IN [evidence |-> [i \in DOMAIN free |-> toEvidence(free[i], release)],
      suppressions |->
        {Suppression(c, suppressor[c.rule.id][1]) :
           c \in {c \in Range(eligible) : suppressor[c.rule.id] # <<>>}},
      traces |-> [i \in DOMAIN all |-> OutcomeOf(all[i], suppressor)],
      warnings |-> AtPlaces(contradictions,
                     {i \in DOMAIN contradictions :
                        {contradictions[i].a, contradictions[i].b}
                          \subseteq {f.profile : f \in facts}})]
SettledFor(release, facts, all, eligible) ==
  SettledWith(release, facts, all, eligible, selectedSuppressor(eligible))
Settled(release, facts, all) ==
  SettledFor(release, facts, all, AtPlaces(all, {i \in DOMAIN all : all[i].code = "none"}))
Judged(all, release, asOfDate) ==
  [i \in DOMAIN all |-> [fact |-> all[i].fact, rule |-> all[i].rule, binding |-> all[i].binding,
                         code |-> omissionCode(all[i], release, asOfDate)]]
resolve(release, facts, locale, asOfDate) ==
  Settled(release, facts, Judged(Candidates(release, facts, locale), release, asOfDate))
=============================================================================
