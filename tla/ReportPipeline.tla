--------------------------- MODULE ReportPipeline ---------------------------
(***************************************************************************)
(* A report from its doctrine to its verification: a release is compiled,  *)
(* its rules are resolved for the facts of a calculation on a day, and the *)
(* evidence is planned, written and verified.  Every stage checks what the *)
(* one before gave it and refuses it when it does not hold.                *)
(***************************************************************************)
EXTENDS ReportWriter

CONSTANTS
  Releases,    \* the releases that are authored
  Facts,       \* the facts of the calculation
  ReportDays,        \* the days a report is made for
  ReportLocale \* the locale of the report

\* What the parsers of the two accept: identifiers that have an order, and every field.
ASSUME FactsAreABundle ==
  /\ IsFiniteSet(Facts)
  /\ \A f \in Facts : f.id \in Int /\ f.metric # "none"
  /\ \A f, g \in Facts : f.id = g.id => f = g
ASSUME ReleasesAreParsed ==
  \A r \in Releases :
    /\ {"rules", "sources", "actions", "bindings", "contradictions", "locales"} \subseteq DOMAIN r
    /\ r.rules \in Seq(Range(r.rules)) /\ r.bindings \in Seq(Range(r.bindings))
    /\ \A rule \in Range(r.rules) :
         /\ {"id", "trigger", "confidence", "hash"} \subseteq DOMAIN rule
         /\ rule.id \in Int /\ rule.confidence \in DOMAIN ConfidenceRank
         /\ rule.trigger \in Seq(Range(rule.trigger))
    /\ \A b \in Range(r.bindings) : b.id \in Int /\ b.section \in Range(ReportSectionKeys)

VARIABLES authored, day, stage, release, resolution, planned, report, verdict

pipelineVars == <<authored, day, stage, release, resolution, planned, report, verdict>>
NotYet == <<>>
NotVerified == {"REPORT_NOT_VERIFIED"}

PipelineInit ==
  /\ authored \in Releases
  /\ day \in ReportDays
  /\ stage = "authored"
  /\ release = NotYet /\ resolution = NotYet /\ planned = NotYet
  /\ report = NotYet /\ verdict = NotVerified

\* The next stage is reached, or the report is refused.
Advance(accepted, next) == stage' = IF accepted THEN next ELSE "refused"

CompileRelease ==
  /\ stage = "authored"
  /\ Advance(Compiles(authored), "compiled")
  /\ release' = IF Compiles(authored) THEN compileDoctrine(authored) ELSE NotYet
  /\ UNCHANGED <<authored, day, resolution, planned, report, verdict>>

\* createDoctrineRegistry parses the release again before it resolves.
ResolveEvidence ==
  /\ stage = "compiled"
  /\ LET accepted == validateCompiledDoctrine(release) /\ ReportLocale \in release.authored.locales
     IN /\ Advance(accepted, "resolved")
        /\ resolution' = IF accepted THEN resolve(release, Facts, ReportLocale, day) ELSE NotYet
  /\ UNCHANGED <<authored, day, release, planned, report, verdict>>

PlanReport ==
  /\ stage = "resolved"
  /\ planned' = planReport(Facts, resolution, DefaultPolicy)
  /\ Advance(planned'.errors = {}, "planned")
  /\ UNCHANGED <<authored, day, release, resolution, report, verdict>>

WriteReport ==
  /\ stage = "planned"
  /\ LET accepted == WriterErrors(planned.plan, Facts) = {}
     IN /\ Advance(accepted, "written")
        /\ report' = IF accepted THEN writeDeterministicReport(planned.plan, Facts) ELSE NotYet
  /\ UNCHANGED <<authored, day, release, resolution, planned, verdict>>

VerifyReport ==
  /\ stage = "written"
  /\ verdict' = verifyStructuredReport(report, Facts, resolution.evidence, planned.plan)
  /\ Advance(verdict' = {}, "verified")
  /\ UNCHANGED <<authored, day, release, resolution, planned, report>>

PipelineNext == CompileRelease \/ ResolveEvidence \/ PlanReport \/ WriteReport \/ VerifyReport

PipelineSpec == PipelineInit /\ [][PipelineNext]_pipelineVars

-----------------------------------------------------------------------------
(* Properties.                                                             *)

\* The registry settles every active rule that applies to a fact: nothing the index
\* hides, and it is evidence exactly when it is valid, confident and safe with all its
\* sources and actions, and no rule that is evidence itself suppresses it.
ResolutionIsSettled ==
  resolution # NotYet =>
    LET rules == Range(release.authored.rules)
        applies(r, f) == /\ r.profile = f.profile /\ r.metric = f.metric
                         /\ r.locale = ReportLocale /\ evaluateTrigger(r.trigger, f)
        told == {t.rule : t \in Range(resolution.traces)}
        isEvidence(r) == \E e \in Range(resolution.evidence) : e.rule = r.id
        omitted(r) == \E t \in Range(resolution.traces) : t.rule = r.id /\ t.outcome = "omitted"
        suppressors(r) == {s \in rules : isEvidence(s)
                             /\ r.id \in BindingOf(release.authored, s.id).suppresses}
    IN \A r \in rules, f \in Facts : applies(r, f) =>
         /\ r.id \in told
         /\ isEvidence(r) <=> ~omitted(r) /\ suppressors(r) = {}

\* The registry takes every release that was compiled, unless it is not in the locale.
ReleaseIsTaken ==
  release # NotYet /\ stage # "compiled" =>
    (resolution # NotYet <=> ReportLocale \in release.authored.locales)

\* The planner takes all evidence that is resolved.
EvidenceIsTaken == planned # NotYet => "EVIDENCE_INVALID" \notin planned.errors

\* What it selects are claims of that evidence.
PlanIsSelected ==
  planned # NotYet =>
    planned.plan.claims \in Seq(claimCandidates(resolution.evidence, Facts)
                                \cup contradictionCandidates(resolution.warnings, resolution.evidence))

\* Its own check of the plan fails for a run of three tensions only.
PlanIsBalanced ==
  planned # NotYet => validateReportPlan(planned.plan) \subseteq {"PLAN_NEGATIVE_BALANCE"}

\* The verifier never faults the provenance of what the writer wrote: it misses a kind of
\* block or a fifth action, reads two instructions as two sentences, or finds too many
\* claims of more than one sentence.
VerdictIsExpected ==
  verdict # NotVerified =>
    verdict \subseteq {"REPORT_BLOCK_TYPE_MISSING", "REPORT_ACTION_COVERAGE_INCOMPLETE",
                       "REPORT_SENTENCE_PROVENANCE_INVALID", "REPORT_SPECIFICITY_BELOW_THRESHOLD"}

\* What the schema of a report has room for and the planner does not limit: the sources of a
\* plan, what a disagreement of two schools or an action rests on, the length of a text and of
\* the instructions for a claim, and the numbers a text shows.
FitsReport(plan) ==
  LET claims == Range(plan.claims) IN
  /\ Cardinality(UNION {c.sources : c \in claims}) <= 8
  /\ \A c \in claims : c.relationship = "contradiction" =>
                         Cardinality(c.rules) <= 8 /\ Cardinality(c.facts) <= 8
  /\ \A a \in Range(plan.actions) : Cardinality(a.rules) <= 8
  /\ \A c \in claims : c.text.length <= 600 /\ c.text.numbers <= 8
  /\ \A c \in claims : Joined(InstructionsOf(plan, c.id)).length <= 400

\* Of the plans the planner accepts the writer writes those of twelve to eighty claims that
\* fit a report, and refuses the others.
PlanIsWritten ==
  planned # NotYet /\ planned.errors = {} /\ stage # "planned" =>
    (report # NotYet <=> Len(planned.plan.claims) \in 12 .. 80 /\ FitsReport(planned.plan))

\* Each stage takes what the one before it makes, but for the exceptions the six name (a
\* release without the locale; a plan with a run of three tensions, of fewer than twelve or
\* more than eighty claims, or too large for a report; the four verdicts) and for a plan of
\* fewer than three independent families, which the policy of the planner refuses.
StagesAgree ==
  /\ ReleaseIsTaken /\ EvidenceIsTaken /\ PlanIsSelected
  /\ PlanIsBalanced /\ PlanIsWritten /\ VerdictIsExpected
=============================================================================
