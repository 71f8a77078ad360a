----------------------------- MODULE Provenance -----------------------------
(***************************************************************************)
(* What `scythe generate' stamps on a generated file and what              *)
(* `scythe check' reads back from it: the inputs of a project, the output  *)
(* files of a target, the header fields and the SC-PRV rules.              *)
(*                                                                         *)
(* Contents are abstract.  A schema file has a shape: what the catalog,    *)
(* its fingerprint and the generated code depend on.  A query has a name,  *)
(* a kind that decides its signature, and a text (the SQL the generated    *)
(* function embeds).                                                       *)
(***************************************************************************)
EXTENDS Naturals, Sequences, FiniteSets

CONSTANTS
  None,               \* an absent option: no overlay, no header field
  Truncated,          \* the body of a file whose writing was cut short
  Unreadable,         \* a scythe.toml that cannot be read or parsed
  Version,            \* the version of this scythe binary
  Versions,           \* every version an artifact on disk may name
  Engines, Backends, Options, Overrides,
  ExecutableEngines,  \* engines schema_source = "execute" supports
  SchemaFiles, QueryFiles, OverlayFiles,
  Shapes,             \* of schema files
  Names, Kinds, Texts, \* of queries
  Signatures,         \* analyzed signatures: parameters and result columns
  SchemaContents,     \* what a schema file may hold
  QueryContents,      \* what a query file may hold
  Overlays,           \* contents of a usable manifest overlay
  Dirs, RealDirs,
  Configs,            \* parsed configurations
  Foreign             \* files on disk before this version of scythe first ran

CONSTANTS
  Analyzes(_, _),       \* does a query analyze under a schema shape
  Signature(_, _),      \* the analyzed signature of a query under a shape
  ColumnsOf(_),         \* columns and parameters an analyzed query mentions
  Supports(_, _),       \* get_backend(backend, engine) succeeds
  AppliesOptions(_, _), \* backend.apply_options(options) succeeds
  ColumnOf(_),          \* the column an override names, or None
  Ident(_, _, _),       \* generated identifier: backend, overlay, query name
  EmitsRbs(_),          \* the backend also emits queries.rbs
  OutputFilename(_),    \* queries.<ext> of a backend
  Escapes(_),           \* the output directory leaves the project root
  RealDir(_)            \* the directory a spelled path denotes

-----------------------------------------------------------------------------
(* Inputs. *)

RBS == "queries.rbs"

\* A schema that is not ok is one load_catalog rejects.
Schema == [ok : BOOLEAN, shape : Shapes]

\* kind tells apart queries that project different columns or relations.
Query == [name : Names, kind : Kinds, text : Texts]

\* stray: SQL above the first annotation.  Every file modelled has some text.
QueryFile == [stray : BOOLEAN, queries : SUBSET Query]

ASSUME ContentsAssumption ==
  /\ SchemaContents \subseteq Schema
  /\ QueryContents \subseteq QueryFile
  /\ IsFiniteSet(Query)

OverlayContents == Overlays \cup {"missing", "invalid"}

Target == [backend : Backends, dir : Dirs, options : Options \cup {None},
           overlay : OverlayFiles \cup {None}]

Block == [engine : Engines, source : {"parse", "execute"},
          schema : SchemaFiles, queries : QueryFiles,
          overrides : SUBSET Overrides,
          resolvable : BOOLEAN, targets : Seq(Target)]

Severities == {"off", "warn", "error"}

Rules == {"SC-PRV01", "SC-PRV02", "SC-PRV03", "SC-PRV04", "SC-PRV05",
          "SC-PRV06", "SC-PRV07", "SC-PRV08", "SC-PRV09", "SC-PRV10",
          "SC-PRV11", "SC-PARSE02"}

Config == [blocks : Seq(Block), severity : [Rules -> Severities]]

ASSUME ConfigsAssumption == Configs \subseteq Config

\* What validate_schema_source accepts.
SchemaSourceValid(block) ==
  block.source = "parse" \/ block.engine \in ExecutableEngines

-----------------------------------------------------------------------------
(* Outputs. *)

FileNames ==
  {OutputFilename(b) : b \in Backends}
    \cup {RBS : b \in {c \in Backends : EmitsRbs(c)}}

Path == [dir : Dirs, name : FileNames]

Locations == RealDirs \X FileNames

MainPath(target) ==
  [dir |-> target.dir, name |-> OutputFilename(target.backend)]

RbsPath(target) == [dir |-> target.dir, name |-> RBS]

Location(path) == <<RealDir(path.dir), path.name>>

\* artifact_paths: every file a target writes.
ArtifactPaths(target) ==
  {MainPath(target)} \cup
    IF EmitsRbs(target.backend) THEN {RbsPath(target)} ELSE {}

Outputs(target) == {Location(p) : p \in ArtifactPaths(target)}

ASSUME PathsAssumption ==
  /\ \A b \in Backends : OutputFilename(b) # RBS
  /\ \A b, c \in Backends :
       EmitsRbs(b) /\ EmitsRbs(c) => OutputFilename(b) = OutputFilename(c)
  /\ \A d \in Dirs : RealDir(d) \in RealDirs

-----------------------------------------------------------------------------
(* Fingerprints and headers. *)

\* Comments and layout of the DDL do not participate.
SchemaFingerprint(schema) == schema.shape

\* Name and analyzed signature of every query, one entry for each; the SQL
\* text does not participate.
QueriesFingerprint(shape, queries) ==
  LET line(q) == <<q.name, Signature(shape, q)>>
      count(q) == Cardinality({r \in queries : line(r) = line(q)})
  IN {<<line(q), count(q)>> : q \in queries}

OptionsFingerprint(options, overlay) ==
  [options |-> options, overlay |-> overlay]

QueryTags == SUBSET ((Names \X Signatures) \X Nat)

OptionTags == [options : Options \cup {None},
               overlay : OverlayContents \cup {None}]

Header == [version : Versions \cup {None}, backend : Backends \cup {None},
           engine : Engines \cup {None}, schema : Shapes \cup {None},
           queries : QueryTags \cup {None}, options : OptionTags \cup {None}]

HeaderFields == {"version", "backend", "engine", "schema", "queries", "options"}

\* Absent from headers that predate them, so not part of completeness.
OptionalFields == {"queries", "options"}

IsComplete(header) ==
  \A f \in HeaderFields \ OptionalFields : header[f] # None

\* Everything the text of a generated file is a function of.
Body == [schema : Shapes, queries : SUBSET Query,
         engine : Engines, backend : Backends,
         options : Options \cup {None}, overlay : Overlays \cup {None},
         overrides : SUBSET Overrides]

FileStates ==
  [kind : {"absent", "unreadable", "headerless"}]
    \cup [kind : {"file"}, header : Header, body : Body \cup {Truncated}]

AbsentFile == [kind |-> "absent"]
HeaderlessFile == [kind |-> "headerless"]

GeneratedFile(header, body) ==
  [kind |-> "file", header |-> header, body |-> body]

ASSUME VersionAssumption == Version \in Versions

ASSUME DistinctAssumption ==
  /\ None \notin Locations \cup OptionTags
  /\ None \notin Versions \cup Backends \cup Engines \cup Shapes
  /\ {"missing", "invalid"} \cap (Overlays \cup {None}) = {}
  /\ \A s \in Shapes, Q \in SUBSET Query : QueriesFingerprint(s, Q) # None
  /\ Truncated \notin Body

ASSUME ForeignAssumption ==
  /\ Foreign \subseteq FileStates
  /\ \A f \in Foreign : f.kind = "file" => f.header.version # Version

ASSUME SignatureAssumption ==
  \A s \in Shapes, q \in Query : Signature(s, q) \in Signatures

-----------------------------------------------------------------------------
(* What a header promises about the body beneath it. *)

\* A file this binary finished: not a foreign one and not a torn one.
Intact(file) ==
  /\ file.kind = "file"
  /\ file.body # Truncated
  /\ file.header.version = Version

HeaderTells(header, body) ==
  /\ header.schema = body.schema
  /\ header.queries = QueriesFingerprint(body.schema, body.queries)
  /\ header.engine = body.engine
  /\ header.backend = body.backend

-----------------------------------------------------------------------------
(* Verification of one artifact. *)

RuleOf == [schema  |-> "SC-PRV01", version |-> "SC-PRV02",
           backend |-> "SC-PRV03", engine  |-> "SC-PRV04",
           queries |-> "SC-PRV08", options |-> "SC-PRV11"]

\* Mutant: the optional fields are never compared.
DriftedRequired(header, expected) ==
  {f \in HeaderFields \ OptionalFields : header[f] # expected[f]}

Drifted(header, expected) ==
  {f \in HeaderFields : /\ header[f] # expected[f]
                        /\ ~(f \in OptionalFields /\ header[f] = None)}

VerifyArtifact(file, expected) ==
  CASE file.kind = "absent"     -> {}
    [] file.kind = "unreadable" -> {"SC-PRV07"}
    [] file.kind = "headerless" -> {"SC-PRV05"}
    [] file.kind = "file" ->
         IF IsComplete(file.header)
         THEN {RuleOf[f] : f \in Drifted(file.header, expected)}
         ELSE {"SC-PRV06"}

=============================================================================
