SPECIFICATION CheckSpec
CONSTANTS
  none = none
  None = none
  Truncated = truncated
  Unreadable = unreadable
  Version = "0.16.0"
  Versions = {"0.14.0", "0.16.0"}
  Engines = {"postgresql", "pg", "mysql", "oracle"}
  Backends = {"rust-sqlx"}
  Options = {"serde", "bogus"}
  Overrides = {"email as text", "uuid as text"}
  ExecutableEngines = {"sqlite", "duckdb"}
  SchemaFiles = {"schema.sql"}
  QueryFiles = {"queries.sql"}
  OverlayFiles = {}
  Shapes = {"users", "users2"}
  Names = {"GetUser", "GET_user"}
  Kinds = {"byId", "byEmail"}
  Texts = {"id = $1", "id >= $1", "email = $1"}
  Signatures <- MCSignatures
  SchemaContents <- TwoShapes
  QueryContents <- QueriesOneBlock
  Overlays = {"pascal", "snake"}
  Dirs = {"rs"}
  RealDirs = {"rs"}
  Configs <- ConfigsEngines
  Foreign <- AllForeign
  Flags <- PlainFlags
  Analyzes <- MCAnalyzes
  Signature <- MCSignature
  ColumnsOf <- MCColumnsOf
  Supports <- MCSupports
  AppliesOptions <- MCAppliesOptions
  ColumnOf <- MCColumnOf
  Ident <- MCIdent
  EmitsRbs <- MCEmitsRbs
  OutputFilename <- MCOutputFilename
  Escapes <- MCEscapes
  RealDir <- MCRealDir
INVARIANTS CheckTypeOK CleanMeansCurrent GeneratedPasses
