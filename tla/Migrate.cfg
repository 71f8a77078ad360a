SPECIFICATION Spec
CONSTANTS
  Files = {"a.sql", "b.sql"}
  Contents <- MCContents
  Lists <- MCLists
  MaxVersion = 1
INVARIANTS TypeOK QueriesSurvive ConfigSurvivesOneRun
PROPERTIES SuccessMeansConverted
