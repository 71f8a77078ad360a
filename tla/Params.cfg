SPECIFICATION Spec
CONSTANTS
  MaxSites = 3
INVARIANTS TypeOK BoundInTextOrder DollarsKeepTheirNumber
CHECK_DEADLOCK FALSE
