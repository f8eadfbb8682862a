-------------------------- MODULE MCReportPipeline --------------------------
(***************************************************************************)
(* One calculation of three schools and two grids, and releases that       *)
(* differ in how many texts their rules have, in their tensions and timing *)
(* rules, and in one further way.                                          *)
(***************************************************************************)
EXTENDS ReportPipeline

FactOf(id, profile, metric, root) ==
  [id |-> id, profile |-> profile, metric |-> metric, root |-> root, compound |-> Missing,
   master |-> Missing, tokens |-> {root}, traces |-> {id}]
MCFacts ==
  {FactOf(1, "western_decoz", "life_path", 1), FactOf(2, "western_decoz", "birthday", 2),
   FactOf(3, "western_decoz", "expression", 3), FactOf(4, "western_decoz", "personal_month.01", 4),
   FactOf(5, "cheiro", "birth_number", 5), FactOf(6, "cheiro", "name_number", 6),
   FactOf(7, "johari", "psychic_number", 7), FactOf(8, "johari", "destiny_number", 8),
   FactOf(9, "johari", "name_number", 9), FactOf(10, "loshu_raw", "grid", 0),
   FactOf(11, "loshu_augmented", "grid", 0)}

\* The texts of a rule, of one sentence each.
Text(id, length, numbers) ==
  [id |-> id, sentences |-> 1, tail |-> FALSE, length |-> length, numbers |-> numbers]
TextsOf(id, n) == {Text(10 * id + k, 100, 1) : k \in 1 .. n}
Rule(id, f, texts, strengths, tensions) ==
  LET fact == FactById(MCFacts, f) IN
  [id |-> id, profile |-> fact.profile, metric |-> fact.metric, locale |-> "en",
   trigger |-> <<[op |-> "eq", path |-> "root", value |-> fact.root]>>,
   status |-> "active", review |-> "approved", reviewers |-> 2, confidence |-> "high",
   from |-> 0, to |-> Always, safe |-> TRUE, claims |-> TextsOf(id, texts), sources |-> {1},
   contradictions |-> {}, hash |-> "right", class |-> "B", timing |-> FALSE,
   strengths |-> strengths, tensions |-> tensions]
Strong(id, n) == Rule(id, id, n, {id}, {})
Tense(id, f) == Rule(id, f, 1, {}, {id})
Bind(id, section, actions) ==
  [id |-> id, actions |-> actions, safe |-> TRUE, section |-> section, suppresses |-> {}]

\* k and m: the texts of the first two rules; t: the timing texts; n: the tensions;
\* wide: the rules of the second half of the facts.
RulesOf(x) ==
  <<Strong(1, x.k), Strong(2, x.m), Strong(3, 1), Strong(5, 1), Strong(7, 1)>>
    \o (IF x.t = 0 THEN <<>> ELSE <<[Strong(4, x.t) EXCEPT !.timing = TRUE]>>)
    \o SubSeq(<<Tense(21, 2), Tense(22, 3), Tense(24, 7)>>, 1, x.n)
    \o (IF ~x.wide THEN <<>>
        ELSE <<Strong(11, 2), Strong(10, 2), Strong(9, 2), Strong(8, 2), Strong(6, 2)>>)
BindingsOf(rules) ==
  LET section == [id \in 1 .. 24 |->
        IF id > 20 THEN "growth_edges"
        ELSE <<"core_overview", "repeated_strengths", "western_name_layers", "personal_months",
               "work_money", "name_change_comparison", "relationships", "life_path",
               "current_name_comparison", "lo_shu_raw_grid", "lo_shu_augmented_comparison">>
             [IF id > 11 THEN 1 ELSE id]]
      actions == [id \in 1 .. 24 |->
        IF id > 20 THEN {id - 20} ELSE IF id \in {1, 2, 3, 5, 6} THEN {id} ELSE {}]
  IN [i \in DOMAIN rules |-> Bind(rules[i].id, section[rules[i].id], actions[rules[i].id])]
Added(r, rule, binding) ==
  [r EXCEPT !.rules = Append(@, rule), !.bindings = Append(@, binding)]

Source(id, status) == [id |-> id, status |-> status]
\* The instructions of the third and the fourth action just fit together, those of the
\* third and the fifth do not.
Action(id) == [id |-> id, status |-> "active", safe |-> TRUE, locales |-> {"en"},
               instructions |-> {Text(900 + id, IF id = 4 THEN 199 ELSE 200, 0)}]
Disagreement(id, a, b) == [id |-> id, a |-> a, b |-> b, length |-> 300, numbers |-> 8]
ReleaseOf(x) ==
  [rules |-> RulesOf(x), sources |-> <<Source(2, "blocked"), Source(1, "active")>>,
   actions |-> [i \in 1 .. 6 |-> Action(i)], bindings |-> BindingsOf(RulesOf(x)),
   contradictions |-> <<>>, locales |-> {"en"}]

\* The one further way: a release as it is, or with a change to its third rule, to the
\* sentences of the first two, to who suppresses whom, to the schools' disagreements or to
\* its locale, with a claim that ranks between two tensions in a section another rule fills,
\* or with more of something than a report holds (wordy, numbered, lengthy, sourced, shared).
Changed(r, v) ==
  CASE v = "gte" -> [r EXCEPT !.rules[3].trigger =
                       <<[op |-> "gte", path |-> "root", value |-> 2]>> \o @]
    [] v = "draft" -> [r EXCEPT !.rules[3].status = "draft", !.rules[3].hash = "none"]
    [] v = "expired" -> [r EXCEPT !.rules[3].to = 1]
    [] v = "blocked" -> [r EXCEPT !.rules[3].sources = {1, 2}]
    [] v = "long" -> [r EXCEPT !.rules[3].claims = {[Text(31, 600, 8) EXCEPT !.tail = TRUE]}]
    [] v = "wordy" -> [r EXCEPT !.rules[3].claims = {Text(31, 601, 1)}]
    [] v = "numbered" -> [r EXCEPT !.rules[3].claims = {Text(31, 100, 9)}]
    [] v = "actions" -> [r EXCEPT !.bindings[3].actions = {3, 4}]
    [] v = "lengthy" -> [r EXCEPT !.bindings[3].actions = {3, 5}]
    [] v = "shared" -> [r EXCEPT !.bindings = [i \in DOMAIN @ |-> [@[i] EXCEPT !.actions = {1}]]]
    [] v = "sourced" -> [r EXCEPT !.sources = [i \in 1 .. 24 |-> Source(i, "active")],
                                  !.rules = [i \in DOMAIN @ |-> [@[i] EXCEPT !.sources = {i}]]]
    [] v = "chain" -> [r EXCEPT !.bindings[5].suppresses = {5}, !.bindings[4].suppresses = {3}]
    [] v = "cycle" -> [r EXCEPT !.bindings[5].suppresses = {5}, !.bindings[4].suppresses = {7}]
    [] v = "schools" -> [r EXCEPT !.contradictions =
                           <<Disagreement(2, "western_decoz", "johari"),
                             Disagreement(1, "cheiro", "johari")>>]
    [] v = "prose" -> [r EXCEPT !.rules = [i \in DOMAIN @ |-> IF i > 2 THEN @[i] ELSE
                         [@[i] EXCEPT !.claims = {[t EXCEPT !.sentences = 2] : t \in @}]]]
    [] v = "foreign" -> [r EXCEPT !.locales = {"hi"},
                           !.rules = [i \in DOMAIN @ |-> [@[i] EXCEPT !.locale = "hi"]],
                           !.actions = [i \in DOMAIN @ |-> [@[i] EXCEPT !.locales = {"hi"}]]]
    [] v = "crowded" -> Added([r EXCEPT !.bindings[1].section = "life_path"],
                              Rule(23, 8, 1, {23}, {}), Bind(23, "life_path", {6}))
    [] OTHER -> r
Variants == {"plain", "gte", "draft", "expired", "blocked", "long", "actions", "chain",
             "cycle", "schools", "prose", "crowded", "wordy", "numbered", "lengthy", "shared",
             "sourced", "foreign"}
Shapes == [k : 1 .. 4, m : {1, 4}, t : {0, 3}, n : 0 .. 3, wide : BOOLEAN]
MCReleases == {Changed(ReleaseOf(x), v) : x \in Shapes, v \in Variants}
=============================================================================
