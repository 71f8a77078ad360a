SPECIFICATION Spec
CONSTANTS
  Schemas = {1, 2}
  Main = 2
  Bases <- MCBases
  MaxStatements = 4
INVARIANTS TypeOK LookupIsRight LabelsAreRight ConsistentScriptsAreRead
PROPERTIES FingerprintDecidesBareNames
CHECK_DEADLOCK FALSE
