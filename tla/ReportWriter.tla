---------------------------- MODULE ReportWriter ----------------------------
(***************************************************************************)
(* The deterministic writer of packages/report, which turns a plan into a  *)
(* report, and the gates of the verifier that compare a report with its    *)
(* plan, its facts and its evidence.  The two were written apart: the      *)
(* verifier repeats the writer's rules for sentences and actions.          *)
(*                                                                         *)
(* What is written is parsed as a structured report before it is returned, *)
(* and a report the schema has no room for is refused.                     *)
(*                                                                         *)
(* The gates about wording (numbers, length, language, safety, repetition, *)
(* similarity, personal data) are left out.                                *)
(***************************************************************************)
EXTENDS ReportPlan

None == 0

\* A sentence is named by its text and its place; the whole of a text is place 0.
\* sentenceParts: the sentences that end in a terminator; words after the last of them
\* are lost.  A text without any is one part.
sentenceParts(text) ==
  IF text.sentences = 0 THEN <<<<text.id, 0>>>>
  ELSE [i \in 1 .. text.sentences |-> <<text.id, i>>]
IsWhole(text) == text.sentences = 0 \/ (text.sentences = 1 /\ ~text.tail)

\* The instructions of the planned actions of a claim, and the one text they are joined to.
InstructionsOf(plan, claimId) ==
  UNION {a.instructions : a \in {a \in Range(plan.actions) : claimId \in a.claims}}
Joined(instructions) ==
  LET last == CHOOSE i \in instructions : \A j \in instructions : j.id <= i.id
  IN [sentences |-> MapThenSumSet(LAMBDA i : i.sentences, instructions),
      length |-> MapThenSumSet(LAMBDA i : i.length + 1, instructions) - 1,
      tail |-> instructions # {} /\ (last.tail \/ last.sentences = 0)]

writeClaim(c, plan) ==
  [id |-> c.id, theme |-> c.theme, confidence |-> c.confidence,
   contradictions |-> c.contradictions, facts |-> c.facts, rules |-> c.rules,
   sources |-> c.sources, traces |-> c.traces, summary |-> c.text,
   kind |-> IF c.relationship = "contradiction" \/ IsTension(c) THEN "tension" ELSE "finding",
   body |-> sentenceParts(c.text), action |-> InstructionsOf(plan, c.id)]

\* A sentence of a section with its provenance; one of the writer's own may cite a claim, or
\* the sources of the plan.
Sentence(kind, text, whole, claim, facts, rules, sources) ==
  [kind |-> kind, text |-> text, single |-> whole, claim |-> claim,
   facts |-> facts, rules |-> rules, sources |-> sources]
Nothing == [id |-> None, facts |-> {}, rules |-> {}, sources |-> {}]
Own(kind, facts, cited) ==
  Sentence(kind, <<kind>>, TRUE, cited.id, facts, cited.rules, cited.sources)
Block(type, facts, sentences) == [type |-> type, facts |-> facts, sentences |-> sentences]

\* Which of some claims is the first depends on their identifiers, which are hashes.
FirstOf(claims) == IF claims = {} THEN Nothing ELSE CHOOSE c \in claims : TRUE

\* comparisonBlock: the first reserved fact and the first of another profile.
comparisonBlock(reserved, facts, lead) ==
  LET left == Min(reserved)
      others == {id \in reserved : FactById(facts, id).profile # FactById(facts, left).profile}
      pair == {left, Min(others)}
  IN IF reserved = {} THEN {}
     ELSE IF others = {} THEN {}
     ELSE {Block("comparison", pair, {Own("editorial", pair, lead)})}

\* The blocks a section has besides its claims.
specialBlocks(key, section, claims, facts, sources, actions) ==
  LET sourced == [Nothing EXCEPT !.sources = sources]
      lead == FirstOf({c \in claims : c.id \in section.claims})
      card(type, ids) ==
        IF ids = {} THEN {} ELSE {Block(type, {Min(ids)}, {Own("editorial", {Min(ids)}, sourced)})}
      raw == {id \in section.facts : FactById(facts, id).profile = "loshu_raw"}
      supported(a) == FirstOf({c \in claims : c.id \in a.claims})
      instruction(a, i) == Sentence("action", <<i.id, a.id>>, IsWhole(i), supported(a).id,
                                    supported(a).facts, a.rules, a.sources)
  IN CASE key = "cover_reading_guide" -> {Block("prose", {}, {Own("safety", {}, Nothing)})}
       [] key \in {"input_methods", "methodology_appendix"} ->
            {Block("source_note", {}, {Own("method", {}, sourced)})}
       [] key = "core_overview" -> card("number_card", section.facts)
       [] key = "lo_shu_raw_grid" -> card("lo_shu", raw)
       [] key \in {"birthday_psychic_comparison", "lo_shu_augmented_comparison"} ->
            comparisonBlock(section.facts, facts, lead)
       [] key = "personal_months" ->
            IF section.claims = {} \/ section.facts = {} THEN {}
            ELSE {Block("timeline", section.facts,
                        {Own("editorial", {f}, lead) : f \in section.facts})}
       [] key = "actions" ->
            {Block("prose", {}, {Own("safety", {}, Nothing)} \cup
               UNION {{instruction(a, i) : i \in a.instructions} : a \in Range(actions)})}
       [] OTHER -> {}

\* The claims of a section, and editorial sentences up to its words.
writeSection(key, section, claims, facts, sources, actions) ==
  LET of(c) == {Sentence("claim", c.body[i], TRUE, c.id, c.facts, c.rules, c.sources) :
                  i \in DOMAIN c.body}
      written == {c \in claims : c.id \in section.claims}
  IN [claims |-> section.claims,
      blocks |-> specialBlocks(key, section, claims, facts, sources, actions) \cup
                 {Block("prose", {}, {Own("editorial", {}, Nothing)}
                                     \cup UNION {of(c) : c \in written})}]

sourceIds(plan) == UNION {c.sources : c \in Range(plan.claims)}
writeDeterministicReport(plan, facts) ==
  LET claims == [i \in DOMAIN plan.claims |-> writeClaim(plan.claims[i], plan)]
  IN [claims |-> claims,
      sections |-> [key \in DOMAIN plan.sections |->
                      writeSection(key, plan.sections[key], Range(claims), facts,
                                   sourceIds(plan), plan.actions)]]

\* The schema of a report: what a sentence may cite, the sentences of a claim or of the
\* prose of a section, the items of a timeline, the length of a text and of the joined
\* instructions, and the numbers a claim may show.
MaxReferences == 8
MaxParts == 128
MaxItems == 12
MaxSummary == 600
MaxAction == 400
MaxNumbers == 8

ReferencesFit(x) == \A ids \in {x.facts, x.rules, x.sources} : Cardinality(ids) <= MaxReferences
structuredClaimSchema(c) ==
  /\ {} \notin {c.facts, c.rules, c.sources, c.traces}
  /\ ReferencesFit(c) /\ Len(c.body) <= MaxParts
  /\ c.summary.length <= MaxSummary /\ c.summary.numbers <= MaxNumbers
  /\ Joined(c.action).length <= MaxAction
\* All prose of a section is one block of the code.
reportSectionSchema(section) ==
  LET prose == UNION {b.sentences : b \in {b \in section.blocks : b.type = "prose"}} IN
  /\ Cardinality(prose) <= MaxParts
  /\ \A b \in section.blocks :
       /\ \A s \in b.sentences : ReferencesFit(s)
       /\ b.type = "timeline" => Cardinality(b.facts) <= MaxItems
structuredReportSchema(report) ==
  /\ \A c \in Range(report.claims) : structuredClaimSchema(c)
  /\ \A key \in DOMAIN report.sections : reportSectionSchema(report.sections[key])

\* assertWriterBoundary, writeClaims, writeSections and the parse of what they made: the
\* errors a plan is not written for.
WriterErrors(plan, facts) ==
  Diagnostics([
     PLAN_INVALID |-> validateReportPlan(plan) # {},
     WRITER_CLAIM_CARDINALITY |-> ~(Len(plan.claims) \in 12 .. 80),
     WRITER_UNRESOLVED_CLAIM |-> \E c \in Range(plan.claims) : c.confidence = "unresolved",
     WRITER_SOURCE_REQUIRED |-> sourceIds(plan) = {},
     REPORT_SCHEMA |-> ~structuredReportSchema(writeDeterministicReport(plan, facts))])

-----------------------------------------------------------------------------
(* verification/: each gate is the set of its diagnostics.                 *)

PlannedClaim(plan, id) == CHOOSE c \in Range(plan.claims) : c.id = id
IsPlanned(plan, claim) == \E c \in Range(plan.claims) : c.id = claim.id
Blocks(report) == UNION {report.sections[key].blocks : key \in DOMAIN report.sections}

checkFactLinkage(report, facts, plan) ==
  LET ids == {f.id : f \in facts}
      traces == UNION {f.traces : f \in facts}
      reserved == UNION {plan.sections[key].facts : key \in DOMAIN plan.sections}
      linked(c) == LET p == PlannedClaim(plan, c.id)
                   IN IsPlanned(plan, c) /\ c.facts = p.facts /\ c.traces = p.traces
      described(c) == LET p == PlannedClaim(plan, c.id)
                      IN /\ c.theme = p.theme /\ c.confidence = p.confidence
                         /\ c.kind = IF p.relationship = "contradiction" \/ p.valence = "tension"
                                     THEN "tension" ELSE "finding"
  IN Diagnostics([
       REPORT_CLAIM_LINK_MISMATCH |->
         \E c \in Range(report.claims) : ~linked(c) \/ ~described(c),
       REPORT_FACT_UNKNOWN |->
         \E c \in Range(report.claims) : ~(c.facts \subseteq ids /\ c.traces \subseteq traces),
       REPORT_BLOCK_FACT_NOT_RESERVED |->
         \E b \in Blocks(report) : ~(b.facts \subseteq ids \cap reserved)])

\* Every rule of a claim has evidence on one of its facts from one of its sources.
evidenceSupports(evidence, claim) ==
  \A rule \in claim.rules : \E e \in Range(evidence) :
    /\ e.rule = rule /\ e.fact \in claim.facts /\ e.sources \cap claim.sources # {}
    /\ e.status = "active" /\ e.review = "approved"
checkRuleSource(report, evidence, plan) ==
  LET bound(c) == LET p == PlannedClaim(plan, c.id)
                  IN /\ IsPlanned(plan, c)
                     /\ c.rules = p.rules /\ c.sources = p.sources /\ c.summary = p.text
  IN Diagnostics([
       REPORT_CLAIM_RULE_SOURCE_MISMATCH |-> \E c \in Range(report.claims) : ~bound(c),
       REPORT_RULE_SOURCE_UNRESOLVED |->
         \E c \in Range(report.claims) : ~evidenceSupports(evidence, c)])

checkSchoolBoundary(report, facts, plan) ==
  LET profiles(ids) == {f.profile : f \in {f \in facts : f.id \in ids}} IN
  Diagnostics([
    REPORT_PROFILE_BOUNDARY_MISMATCH |->
      \E c \in Range(report.claims) :
        IsPlanned(plan, c) => profiles(c.facts) # PlannedClaim(plan, c.id).profiles,
    REPORT_COMPARISON_PROFILE_BLENDED |->
      \E b \in Blocks(report) : b.type = "comparison" /\ Cardinality(profiles(b.facts)) = 1])

\* A planned contradiction is told with all it rests on, in its own words.
checkContradictions(report, plan) ==
  LET framed(p) == \E c \in Range(report.claims) :
                     /\ c.id = p.id /\ c.kind = "tension" /\ ~p.text.tail
                     /\ c.rules = p.rules /\ c.facts = p.facts /\ c.sources = p.sources
                     /\ c.traces = p.traces /\ c.contradictions = p.contradictions
                     /\ c.body = sentenceParts(p.text)
  IN Diagnostics([
       REPORT_CONTRADICTION_UNFRAMED |->
         \E p \in Range(plan.claims) : p.relationship = "contradiction" /\ ~framed(p)])

BlockTypes == {"prose", "number_card", "comparison", "lo_shu", "timeline", "source_note"}
checkCompleteness(report, plan) ==
  LET told == UNION {b.sentences : b \in report.sections["actions"].blocks}
      instructions == UNION {{<<i.id, a.id>> : i \in a.instructions} : a \in Range(plan.actions)}
  IN Diagnostics([
       REPORT_CLAIM_COVERAGE_INCOMPLETE |->
         {c.id : c \in Range(report.claims)} # {c.id : c \in Range(plan.claims)},
       REPORT_SECTION_ORDER_OR_LINK_MISMATCH |->
         \E key \in DOMAIN plan.sections :
           report.sections[key].claims # plan.sections[key].claims,
       REPORT_BLOCK_TYPE_MISSING |->
         ~(BlockTypes \subseteq {b.type : b \in Blocks(report)}),
       REPORT_ACTION_COVERAGE_INCOMPLETE |->
         Len(plan.actions) # 5 \/ ~(instructions \subseteq {s.text : s \in told}),
       REPORT_METHODOLOGY_APPENDIX_INCOMPLETE |->
         \A b \in report.sections["methodology_appendix"].blocks : b.type # "source_note"])

\* checkProseProvenance: the sentences of the claims are those of the plan and the
\* instructions join to one sentence; the sentences of a section are bound to its claims, to
\* approved copy or to an action.
checkProseProvenance(report, plan) ==
  LET instructions(id) == InstructionsOf(plan, id)
      claimBound(c) == /\ IsPlanned(plan, c)
                       /\ c.body = sentenceParts(PlannedClaim(plan, c.id).text)
                       /\ c.action = instructions(c.id)
      bound(s, key) ==
        LET p == CHOOSE p \in Range(plan.claims) : p.id = s.claim
        IN /\ s.claim \in plan.sections[key].claims
           /\ s.text \in Range(sentenceParts(p.text))
           /\ s.facts = p.facts /\ s.rules = p.rules /\ s.sources = p.sources
      known(s) == \E a \in Range(plan.actions), i \in UNION {x.instructions : x \in Range(plan.actions)} :
                    i \in a.instructions /\ s.text = <<i.id, a.id>>
      sentences(key) == UNION {b.sentences : b \in report.sections[key].blocks}
  IN Diagnostics([
       REPORT_CLAIM_SENTENCE_NOT_BOUND |-> \E c \in Range(report.claims) : ~claimBound(c),
       REPORT_SENTENCE_PROVENANCE_INVALID |->
         \/ \E c \in Range(report.claims) : ~IsWhole(Joined(c.action))
         \/ \E key \in DOMAIN report.sections : \E s \in sentences(key) : ~s.single,
       REPORT_SECTION_SENTENCE_NOT_BOUND |->
         \E key \in DOMAIN report.sections : \E s \in sentences(key) :
           \/ s.kind = "claim" /\ ~bound(s, key)
           \/ s.kind = "action" /\ ~known(s),
       REPORT_BLOCK_FACT_NOT_BOUND |->
         \E b \in Blocks(report) : ~(b.facts \subseteq UNION {s.facts : s \in b.sentences})])

\* checkGenericity: 85 of 100 claims are told in a paragraph that holds the whole text.
checkGenericity(report) ==
  LET specific == {i \in DOMAIN report.claims : IsWhole(report.claims[i].summary)}
  IN Diagnostics([REPORT_SPECIFICITY_BELOW_THRESHOLD |->
                    100 * Cardinality(specific) < 85 * Len(report.claims)])

verifyStructuredReport(report, facts, evidence, plan) ==
  checkFactLinkage(report, facts, plan) \cup checkRuleSource(report, evidence, plan)
    \cup checkSchoolBoundary(report, facts, plan) \cup checkContradictions(report, plan)
    \cup checkCompleteness(report, plan) \cup checkProseProvenance(report, plan)
    \cup checkGenericity(report)
=============================================================================
