SPECIFICATION NullSpec
CONSTANTS
  MaxSources = 3
  MaxDepth = 2
  Dialects = {"postgresql", "mysql"}
  MaxSize = 4
  MaxQueries = 1
INVARIANTS NonNullIsPresent NullableIsReal NullTypeOK NonNullIsSound
CHECK_DEADLOCK FALSE
