SPECIFICATION NullSpec
CONSTANTS
  MaxSources = 1
  MaxDepth = 2
  Dialects = {"postgresql"}
  MaxSize = 4
  MaxQueries = 1
INVARIANTS NullImpliesNullable
CHECK_DEADLOCK FALSE
