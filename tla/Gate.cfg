SPECIFICATION Spec
CONSTANTS
  Inputs <- MCInputs
  Capacity = 2
  MaxAmount = 3
INVARIANTS TypeOK CleanMeansLocal ReportSurvivesErrors
PROPERTIES CommandEnds
