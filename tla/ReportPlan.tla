----------------------------- MODULE ReportPlan -----------------------------
(***************************************************************************)
(* The report planner of packages/report: which claims, actions and        *)
(* sections a report is written from, given the facts of a calculation and *)
(* the evidence the doctrine resolved for them.                            *)
(*                                                                         *)
(* A text is a record [id, sentences, tail, length, numbers]: how many     *)
(* sentences end in a terminator, whether words follow the last of them,   *)
(* how long it is, and how many numbers of its facts it shows.             *)
(***************************************************************************)
EXTENDS Doctrine

\* editorial.ts: the sections of a report in their order, and their words.
ReportSectionKeys ==
  <<"cover_reading_guide", "input_methods", "core_overview", "life_path",
    "birthday_psychic_comparison", "western_name_layers", "current_name_comparison",
    "name_change_comparison", "lo_shu_raw_grid", "lo_shu_augmented_comparison",
    "repeated_strengths", "growth_edges", "work_money", "relationships",
    "personal_year", "personal_months", "actions", "methodology_appendix">>
SectionBudget(key) ==
  CASE key = "cover_reading_guide" -> 300
    [] key = "life_path" -> 180
    [] key \in {"input_methods", "lo_shu_raw_grid", "lo_shu_augmented_comparison",
                "personal_year"} -> 400
    [] key \in {"work_money", "relationships"} -> 450
    [] key = "growth_edges" -> 480
    [] key \in {"personal_months", "methodology_appendix"} -> 600
    [] OTHER -> 500

\* Formula variants of one tradition are one independent family.
Family(profile) ==
  CASE profile \in {"western_decoz", "western_digit_sum"} -> "modern_western"
    [] profile = "western_balliett" -> "historical_western"
    [] profile \in {"loshu_raw", "loshu_augmented"} -> "lo_shu"
    [] OTHER -> profile

\* DEFAULT_PLANNER_POLICY; a share is a fraction.
DefaultPolicy == [maxActions |-> 5, maxClaimsPerTheme |-> 3, maxRoot |-> <<1, 4>>,
                  maxTiming |-> <<1, 5>>, minimumFamilies |-> 3]
AtMost(part, whole, share) == part * share[2] <= whole * share[1]

\* The elements of a set in the order of Before(_, _), at most n of a sequence, and the
\* elements of s at the indices that Keep(_) accepts.
SortedSeq(S, Before(_, _)) == SortSeq(FoldSet(LAMBDA x, s : Append(s, x), <<>>, S), Before)
UpTo(n, s) == SubSeq(s, 1, Min({n, Len(s)}))
At(s, places) == [k \in DOMAIN places |-> s[places[k]]]
Filtered(s, Keep(_)) == At(s, SelectSeq([i \in DOMAIN s |-> i], Keep))
TotalOf(s, Weight(_)) == FoldLeft(LAMBDA sum, x : sum + Weight(x), 0, s)
Passed(before, s) == [s |-> s, done |-> s = before]
\* A loop that removes an element of s at a time, until there is none to remove.
Repeat(Pass(_), s) ==
  FoldLeft(LAMBDA r, x : IF r.done THEN r ELSE Passed(r.s, Pass(r.s)),
           [s |-> s, done |-> FALSE], s).s

-----------------------------------------------------------------------------
(* evidence.ts: what the planner asks of the evidence it is given.         *)

assertResolvedEvidenceBoundary(facts, resolved) ==
  LET evidence == resolved.evidence
      keys == {<<e.fact, e.rule>> : e \in Range(evidence)}
      selected == {<<t.fact, t.rule>> : t \in {t \in Range(resolved.traces) : t.outcome = "selected"}}
  IN /\ \A e \in Range(evidence) :
          /\ \E f \in facts : /\ f.id = e.fact /\ f.profile = e.profile
                              /\ f.metric = e.metric /\ f.traces = e.traces
          /\ e.status = "active" /\ e.review = "approved"
          /\ e.claims # {} /\ e.sources # {} /\ e.section \in Range(ReportSectionKeys)
          /\ e.actions = {a.id : a \in e.resolvedActions}
     /\ Cardinality(keys) = Len(evidence)
     /\ keys = selected
     /\ \A s \in resolved.suppressions :
          /\ <<s.fact, s.rule>> \notin keys
          /\ <<s.byFact, s.byRule>> \in keys
          /\ \E t \in Range(resolved.traces) :
               t.fact = s.fact /\ t.rule = s.rule /\ t.outcome = "suppressed" /\ t.by = s.byRule

-----------------------------------------------------------------------------
(* ranking.ts and contradictions.ts: the candidates.                       *)

\* candidateRank: the best score first, mandatory claims before optional ones of their
\* score, then by theme, rule, fact and text.
RankKey(c) == <<0 - c.score, IF c.mandatory THEN 0 ELSE 1, c.theme, Min(c.rules), Min(c.facts), c.text.id>>
candidateRank(a, b) ==
  \E i \in 1 .. 6 : /\ RankKey(a)[i] < RankKey(b)[i]
                    /\ \A j \in 1 .. i - 1 : RankKey(a)[j] = RankKey(b)[j]
Ranked(candidates) == SortSeq(candidates, candidateRank)

ClaimClassScore == [A |-> 70, B |-> 60, C |-> 50, D |-> 40, E |-> 30, F |-> 20, G |-> 10]
ConfidenceScore == [high |-> 20, medium |-> 10, low |-> 0, unresolved |-> 0 - 100]
CoreMetrics == {"birthday", "destiny_number", "expression", "life_path", "name_number", "psychic_number"}

themeEntries(e) == (e.strengths \X {"strength"}) \cup (e.tensions \X {"tension"})
familiesByTheme(evidence, theme) ==
  {Family(e.profile) : e \in {e \in Range(evidence) : theme \in e.strengths \cup e.tensions}}
scoreFor(e, support) ==
  ClaimClassScore[e.class] + ConfidenceScore[e.confidence] + 12 * (support - 1)
    + (IF e.metric \in CoreMetrics THEN 8 ELSE 0)
    + (IF e.actions # {} THEN 6 ELSE 0) + (IF e.timing THEN 5 ELSE 0)

FactById(facts, id) == CHOOSE f \in facts : f.id = id

\* One claim for each text of a rule under each of its themes.  A tension that has no
\* action is left out.
claimCandidates(evidence, facts) ==
  LET claim(e, entry, text) ==
        [id |-> <<e.fact, e.rule, entry, text.id>>, text |-> text, theme |-> entry[1],
         valence |-> entry[2], relationship |-> "unique_signal", contradictions |-> {},
         score |-> scoreFor(e, Cardinality(familiesByTheme(evidence, entry[1]))),
         mandatory |-> FALSE, timing |-> e.timing, words |-> IF e.timing THEN 70 ELSE 80,
         root |-> FactById(facts, e.fact).root, section |-> e.section,
         confidence |-> e.confidence, rules |-> {e.rule}, facts |-> {e.fact},
         traces |-> e.traces, profiles |-> {e.profile}, families |-> {Family(e.profile)},
         sources |-> e.sources, actions |-> e.resolvedActions]
      entries(e) == {entry \in themeEntries(e) : entry[2] = "strength" \/ e.actions # {}}
  IN UNION {{claim(e, x[1], x[2]) : x \in entries(e) \X e.claims} : e \in Range(evidence)}
buildClaimCandidates(evidence, facts) ==
  SortedSeq(claimCandidates(evidence, facts), candidateRank)

\* A disagreement between two schools is a claim when both have evidence; nothing
\* removes it.  Its text is composed of two sentences.
ContradictionTheme(w) == 1000 + w.id
contradictionCandidates(warnings, evidence) ==
  LET of(profile) == {e \in Range(evidence) : e.profile = profile}
      claim(w) ==
        LET support == of(w.a) \cup of(w.b)
            weakest == CHOOSE e \in support :
              \A f \in support : ConfidenceRank[f.confidence] <= ConfidenceRank[e.confidence]
        IN [id |-> <<w.id>>,
            text |-> [id |-> ContradictionTheme(w), sentences |-> 2, tail |-> FALSE,
                      length |-> w.length, numbers |-> w.numbers],
            theme |-> ContradictionTheme(w), valence |-> "contextual",
            relationship |-> "contradiction", contradictions |-> {w.id}, score |-> 0,
            mandatory |-> TRUE, timing |-> FALSE, words |-> 0, root |-> 0,
            section |-> "methodology_appendix", confidence |-> weakest.confidence,
            rules |-> {e.rule : e \in support}, facts |-> {e.fact : e \in support},
            traces |-> UNION {e.traces : e \in support},
            profiles |-> {e.profile : e \in support},
            families |-> {Family(e.profile) : e \in support},
            sources |-> UNION {e.sources : e \in support}, actions |-> {}]
  IN {claim(w) : w \in {w \in Range(warnings) : of(w.a) # {} /\ of(w.b) # {}}}
buildContradictionCandidates(warnings, evidence) ==
  SortedSeq(contradictionCandidates(warnings, evidence), candidateRank)

\* At most max claims of a theme, the best ones.
CapThemes(s, max) ==
  Filtered(s, LAMBDA i : Cardinality({j \in 1 .. i - 1 : s[j].theme = s[i].theme}) < max)
enforceThemeClaimCap(candidates, max) == CapThemes(Ranked(candidates), max)

IsTension(c) == c.valence = "tension"
\* In a run of tensions, whatever follows the second of them.
ThirdTension(s, i) == i > 2 /\ \A j \in i - 2 .. i : IsTension(s[j])
balanceClaimValence(s) == Filtered(s, LAMBDA i : ~ThirdTension(s, i))

-----------------------------------------------------------------------------
(* selection.ts                                                            *)

enforceTensionActionCapacity(candidates, max) ==
  FoldLeft(LAMBDA r, c :
             LET reserved == r.reserved \cup {a.id : a \in c.actions}
             IN IF ~IsTension(c) THEN [r EXCEPT !.kept = Append(@, c)]
                ELSE IF Cardinality(reserved) > max THEN r
                ELSE [kept |-> Append(r.kept, c), reserved |-> reserved],
           [kept |-> <<>>, reserved |-> {}], candidates).kept

WordTotal(s) == TotalOf(s, LAMBDA c : c.words)
InSection(s, key) == SelectSeq(s, LAMBDA c : c.section = key)
selectUnderSectionBudgets(candidates, mandatory) ==
  FoldLeft(LAMBDA s, c :
             IF WordTotal(InSection(s, c.section)) + c.words <= SectionBudget(c.section)
             THEN Append(s, c) ELSE s,
           mandatory, Ranked(candidates))

\* removeLowestRanked of the optional claims that Of(_) accepts.
RemoveLast(s, removable) == IF removable = {} THEN s ELSE RemoveAt(s, Max(removable))
removeLowestRanked(s, Of(_)) == RemoveLast(s, {i \in DOMAIN s : Of(s[i]) /\ ~s[i].mandatory})

TimingWords(s) == WordTotal(SelectSeq(s, LAMBDA c : c.timing))
enforceTimingShare(candidates, share) ==
  Repeat(LAMBDA s : IF AtMost(TimingWords(s), WordTotal(s), share) THEN s
                    ELSE removeLowestRanked(s, LAMBDA c : c.timing),
         candidates)

RootWords(s, root) == WordTotal(SelectSeq(s, LAMBDA c : c.root = root))
RootsOf(s) == {c.root : c \in Range(s)} \ {0}
\* The root with the most words, the lower one of two.
WorstRoot(words, roots) ==
  CHOOSE r \in roots : \A q \in roots : words[q] < words[r] \/ (words[q] = words[r] /\ r <= q)
RemoveOver(s, words, roots) ==
  IF roots = {} THEN s ELSE removeLowestRanked(s, LAMBDA c : c.root = WorstRoot(words, roots))
RootShares(s) == [r \in RootsOf(s) |-> RootWords(s, r)]
RootPass(s, words, total, share) ==
  RemoveOver(s, words, {r \in DOMAIN words : ~AtMost(words[r], total, share)})
enforceRootShare(candidates, share) ==
  Repeat(LAMBDA s : RootPass(s, RootShares(s), WordTotal(s), share), candidates)

\* What is left before the shares are enforced.
Budgeted(optional, mandatory, policy) ==
  selectUnderSectionBudgets(
    enforceTensionActionCapacity(
      balanceClaimValence(enforceThemeClaimCap(optional, policy.maxClaimsPerTheme)),
      policy.maxActions),
    mandatory)
EnforceShares(s, policy) ==
  enforceRootShare(enforceTimingShare(s, policy.maxTiming), policy.maxRoot)

\* Mutant: each share is enforced once.
selectClaims_OnePass(optional, mandatory, policy) ==
  Ranked(EnforceShares(Budgeted(optional, mandatory, policy), policy))

\* The two shares have one denominator, so each is enforced until neither removes a claim.
selectClaims(optional, mandatory, policy) ==
  Ranked(Repeat(LAMBDA s : EnforceShares(s, policy), Budgeted(optional, mandatory, policy)))

-----------------------------------------------------------------------------
(* actions.ts, sections.ts, serialization.ts.                              *)

\* The actions of the selected claims, those of tensions first.
buildPlannedActions(claims, max) ==
  LET with(a) == {c \in Range(claims) : a \in c.actions}
      planned(a) == [id |-> a.id, instructions |-> a.instructions,
                     tension |-> \E c \in with(a) : IsTension(c),
                     claims |-> {c.id : c \in with(a)},
                     rules |-> UNION {c.rules : c \in with(a)},
                     sources |-> UNION {c.sources : c \in with(a)}]
  IN UpTo(max, SortedSeq({planned(a) : a \in UNION {c.actions : c \in Range(claims)}},
             LAMBDA p, q : IF p.tension = q.tension THEN p.id < q.id ELSE p.tension))

MonthMetrics == {"personal_month.01", "personal_month.02"}
reservedFactsForSection(key, facts) ==
  LET metrics ==
        CASE key = "core_overview" -> CoreMetrics
          [] key = "life_path" -> {"life_path"}
          [] key = "birthday_psychic_comparison" -> {"birthday", "destiny_number", "psychic_number"}
          [] key = "current_name_comparison" -> {"name_number"}
          [] key \in {"lo_shu_raw_grid", "lo_shu_augmented_comparison"} -> {"grid"}
          [] key = "personal_year" -> {"personal_year"}
          [] key = "personal_months" -> MonthMetrics
          [] key = "methodology_appendix" -> {f.metric : f \in facts}
          [] OTHER -> {}
  IN {f.id : f \in {f \in facts : f.metric \in metrics}}
buildSections(claims, facts) ==
  [key \in Range(ReportSectionKeys) |->
     [claims |-> {c.id : c \in Range(InSection(claims, key))},
      facts |-> reservedFactsForSection(key, facts), budget |-> SectionBudget(key)]]

planStatistics(claims) ==
  [families |-> Cardinality(UNION {c.families : c \in Range(claims)}),
   timing |-> TimingWords(claims), total |-> WordTotal(claims),
   roots |-> RootShares(claims)]

-----------------------------------------------------------------------------
(* validation.ts: the diagnostics of a plan.                               *)

\* The codes of the checks that find a fault.
Diagnostics(checks) == {code \in DOMAIN checks : checks[code]}

validateReportPlan(plan) ==
  LET claims == plan.claims
      policy == plan.policy
      ofTheme(c) == {i \in DOMAIN claims : claims[i].theme = c.theme
                                           /\ claims[i].relationship # "contradiction"}
      sharesHold == /\ AtMost(plan.statistics.timing, plan.statistics.total, policy.maxTiming)
                    /\ \A r \in DOMAIN plan.statistics.roots :
                         AtMost(plan.statistics.roots[r], plan.statistics.total, policy.maxRoot)
  IN Diagnostics([
        PLAN_CLAIM_PROVENANCE |->
          \/ Cardinality({c.id : c \in Range(claims)}) < Len(claims)
          \/ \E c \in Range(claims) : {} \in {c.facts, c.rules, c.sources, c.traces},
        PLAN_NEGATIVE_BALANCE |-> \E i \in DOMAIN claims : ThirdTension(claims, i),
        PLAN_THEME_CLAIM_LIMIT |->
          \E c \in Range(claims) : Cardinality(ofTheme(c)) > policy.maxClaimsPerTheme,
        PLAN_SECTION_CLAIM_LINK |->
          \E key \in DOMAIN plan.sections :
            plan.sections[key].claims # {c.id : c \in Range(InSection(claims, key))},
        PLAN_SECTION_WORD_BUDGET |->
          \E key \in DOMAIN plan.sections :
            WordTotal(InSection(claims, key)) > plan.sections[key].budget,
        PLAN_ACTION_LIMIT |-> Len(plan.actions) > policy.maxActions,
        PLAN_ACTION_INVALID |->
          \E a \in Range(plan.actions) : {} \in {a.claims, a.rules, a.sources, a.instructions},
        PLAN_TENSION_WITHOUT_ACTION |->
          \E c \in Range(claims) :
            IsTension(c) /\ \A a \in Range(plan.actions) : c.id \notin a.claims,
        PLAN_BALANCE_LIMIT |-> plan.statistics.total > 0 /\ ~sharesHold])

PlanOf(claims, facts, policy) ==
  [claims |-> claims, actions |-> buildPlannedActions(claims, policy.maxActions),
   sections |-> buildSections(claims, facts), statistics |-> planStatistics(claims),
   policy |-> policy]
Checked(plan, facts, resolved) ==
  [plan |-> plan, errors |->
     IF ~assertResolvedEvidenceBoundary(facts, resolved) THEN {"EVIDENCE_INVALID"}
     ELSE IF plan.statistics.families < plan.policy.minimumFamilies
     THEN {"INSUFFICIENT_INDEPENDENT_PROFILE_FAMILIES"}
     ELSE validateReportPlan(plan)]
\* planReport: a plan, and the errors it is refused for.
planReport(facts, resolved, policy) ==
  Checked(PlanOf(selectClaims(buildClaimCandidates(resolved.evidence, facts),
                              buildContradictionCandidates(resolved.warnings, resolved.evidence),
                              policy),
                 facts, policy),
          facts, resolved)
=============================================================================
