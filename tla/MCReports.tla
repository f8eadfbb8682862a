------------------------------ MODULE MCReports -----------------------------
(***************************************************************************)
(* From the answers to the report: the intake form, the calculation of a   *)
(* completed intake, the way of a report from its doctrine to its          *)
(* verification, and the writing of its two files.  Their variables are    *)
(* apart: part says which of them a behaviour is about, and the others     *)
(* keep one initial state.                                                 *)
(***************************************************************************)
EXTENDS IntakeForm, MCCalculation, MCReportPipeline, PairWrite

CONSTANTS birthName, currentName, Roy, Kay, odia, Yara

\* A birth name in Latin letters with a Y, or in another script; a name in use with a
\* Y at the same place; and a spelling with a Y at another.
MCFields == {birthName, currentName}
MCTexts(f) == IF f = birthName THEN {Roy, odia} ELSE {Kay}
MCYPlaces(t) == CASE t = Yara -> {1} [] t \in {Roy, Kay} -> {3} [] OTHER -> {}

VARIABLE part

reportsVars == <<part, formVars, calculationVars, pipelineVars, pairVars>>

\* The form starts in one state; of the others one is kept where they are not at work.
CalculationIdle ==
  /\ asked = <<"none">> /\ calcDay = 1
  /\ bundle = NoBundle /\ snapshot = NoSnapshot /\ previewed = NoPreview
PipelineIdle ==
  /\ authored = NotYet /\ day = 0 /\ stage = "idle"
  /\ release = NotYet /\ resolution = NotYet /\ planned = NotYet
  /\ report = NotYet /\ verdict = NotVerified

ReportsInit ==
  /\ part \in {"form", "calculation", "pipeline", "files"}
  /\ FormInit
  /\ IF part = "calculation" THEN CalculationInit ELSE CalculationIdle
  /\ IF part = "pipeline" THEN PipelineInit ELSE PipelineIdle
  /\ PairInit /\ (part # "files" => \A e \in Entries : before[e] = "absent")

ReportsNext ==
  \/ /\ part = "form" /\ FormNext
     /\ UNCHANGED <<part, calculationVars, pipelineVars, pairVars>>
  \/ /\ part = "calculation" /\ CalculationNext
     /\ UNCHANGED <<part, formVars, pipelineVars, pairVars>>
  \/ /\ part = "pipeline" /\ PipelineNext
     /\ UNCHANGED <<part, formVars, calculationVars, pairVars>>
  \/ /\ part = "files" /\ PairNext
     /\ UNCHANGED <<part, formVars, calculationVars, pipelineVars>>

ReportsSpec == ReportsInit /\ [][ReportsNext]_reportsVars
=============================================================================
