\* Eight edits and two failures of the form; requests and intakes around leap days,
\* masters and debts; releases of up to thirteen rules for eleven facts.
SPECIFICATION ReportsSpec
CONSTANTS
  Fields <- MCFields
  Texts <- MCTexts
  YPlaces <- MCYPlaces
  Spellings = {Yara}
  NonLatin = {odia}
  Unfilled = Unfilled
  birthName = birthName
  currentName = currentName
  Roy = Roy
  Kay = Kay
  odia = odia
  Yara = Yara
  MaxEdits = 8
  MaxFailures = 2
  Requests <- MCRequests
  Intakes <- MCIntakes
  Days <- MCDays
  Releases <- MCReleases
  Facts <- MCFacts
  ReportDays = {2}
  ReportLocale = "en"
CHECK_DEADLOCK FALSE
INVARIANTS ReviewedIsCalculated CompletedWasAnswered BundleIsReplayable AcceptedIsCalculated ResolutionIsSettled StagesAgree PairIsWhole
PROPERTY PreviewIsStable
