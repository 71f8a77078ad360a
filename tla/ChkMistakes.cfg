SPECIFICATION CheckSpec
CONSTANTS
  none = none
  None = none
  Truncated = truncated
  Unreadable = unreadable
  Version = "0.16.0"
  Versions = {"0.14.0", "0.16.0"}
  Engines = {"postgresql", "pg", "mysql", "oracle"}
  Backends = {"rust-sqlx", "rust-tokio-postgres", "ruby-pg"}
  Options = {"serde", "bogus"}
  Overrides = {"email as text", "uuid as text"}
  ExecutableEngines = {"sqlite", "duckdb"}
  SchemaFiles = {"schema.sql"}
  QueryFiles = {"queries.sql"}
  OverlayFiles = {"overlay.toml"}
  Shapes = {"users", "users2"}
  Names = {"GetUser", "GET_user"}
  Kinds = {"byId", "byEmail"}
  Texts = {"id = $1", "id >= $1", "email = $1"}
  Signatures <- MCSignatures
  SchemaContents <- SchemasMistakes
  QueryContents <- QueriesAll
  Overlays = {"pascal"}
  Dirs = {"rs", "rs2", "rb", "../gen"}
  RealDirs = {"rs", "rs2", "rb", "../gen"}
  Configs <- ConfigsCheckMistakes
  Foreign <- NoForeign
  Flags <- NoFlags
  Analyzes <- MCAnalyzes
  Signature <- MCSignature
  ColumnsOf <- MCColumnsOf
  Supports <- MCSupports
  AppliesOptions <- MCAppliesOptions
  ColumnOf <- MCColumnOf
  Ident <- MCIdent
  EmitsRbs <- MCEmitsRbs
  OutputFilename <- MCOutputFilename
  Escapes <- MCEscapes
  RealDir <- MCRealDir
INVARIANTS CleanMeansUsable ReportMissesNothing
