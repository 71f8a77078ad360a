----------------------------- MODULE MCProject -----------------------------
(***************************************************************************)
(* A small project for TLC: one relation that comes in two shapes, four    *)
(* queries, one manifest overlay and five backends: rust-sqlx and          *)
(* rust-tokio-postgres both write queries.rs, ruby-pg, ruby-mysql2 and     *)
(* ruby-trilogy write queries.rb and queries.rbs.                          *)
(***************************************************************************)
EXTENDS Provenance, TLC

CONSTANT none

-----------------------------------------------------------------------------
(* Queries: under shape "users2" the column `email' is gone. *)

GetUser  == [name |-> "GetUser", kind |-> "byId", text |-> "id = $1"]
GetUser2 == [name |-> "GetUser", kind |-> "byId", text |-> "id >= $1"]
GET_user == [name |-> "GET_user", kind |-> "byEmail", text |-> "email = $1"]

MCAnalyzes(shape, q) == q.kind = "byEmail" => shape = "users"
MCSignature(shape, q) == <<q.kind, shape>>
MCSignatures == {"byId", "byEmail"} \X {"users", "users2"}
MCColumnsOf(q) ==
  IF q.kind = "byEmail" THEN {"users.id", "users.email"} ELSE {"users.id"}

\* An override without a `column' applies by db_type.
MCColumnOf(o) == IF o = "email as text" THEN "users.email" ELSE none

\* rust-sqlx keeps the two names apart, ruby-pg's snake case folds them.
MCIdent(backend, overlay, name) ==
  IF backend = "ruby-pg" /\ overlay # "pascal" THEN "get_user" ELSE name

MCAppliesOptions(backend, options) == options # "bogus"
MySqlBackends == {"ruby-mysql2", "ruby-trilogy"}
RubyBackends == {"ruby-pg"} \cup MySqlBackends
MCSupports(backend, engine) ==
  IF backend \in MySqlBackends THEN engine = "mysql"
                               ELSE engine \in {"postgresql", "pg"}
MCEmitsRbs(backend) == backend \in RubyBackends
MCOutputFilename(backend) ==
  IF backend \in RubyBackends THEN "queries.rb" ELSE "queries.rs"
MCEscapes(dir) == dir = "../gen"
MCRealDir(dir) == IF dir = "./rs" THEN "rs" ELSE dir

-----------------------------------------------------------------------------
(* Contents. *)

Users  == [ok |-> TRUE, shape |-> "users"]
Users2 == [ok |-> TRUE, shape |-> "users2"]
BrokenSchema == [Users EXCEPT !.ok = FALSE]

File(qs) == [stray |-> FALSE, queries |-> qs]
Stray == [stray |-> TRUE, queries |-> {GetUser}]

-----------------------------------------------------------------------------
(* Configurations. *)

T(backend, dir, options, overlay) ==
  [backend |-> backend, dir |-> dir, options |-> options, overlay |-> overlay]

B(engine, targets) ==
  [engine |-> engine, source |-> "parse", schema |-> "schema.sql",
   queries |-> "queries.sql", overrides |-> {}, resolvable |-> TRUE,
   targets |-> targets]

DefaultSeverity ==
  [r \in Rules |->
     IF r \in {"SC-PRV02", "SC-PRV05", "SC-PRV06", "SC-PRV07"}
     THEN "warn" ELSE "error"]

C(blocks) == [blocks |-> blocks, severity |-> DefaultSeverity]

Sqlx  == T("rust-sqlx", "rs", none, none)
Tokio == T("rust-tokio-postgres", "rs2", "serde", none)
Ruby  == T("ruby-pg", "rb", none, "overlay.toml")

Single(t) == C(<<B("postgresql", <<t>>)>>)

JustSqlx == Single(Sqlx)
JustRuby == Single(Ruby)
SqlxOnPg == C(<<B("pg", <<Sqlx>>)>>)
SqlxAndRuby == C(<<B("postgresql", <<Sqlx, Ruby>>)>>)
TwoBlocks == C(<<B("postgresql", <<Sqlx>>), B("pg", <<Tokio>>)>>)
\* Two backends, one output file: in one block and in two blocks.
Colliding == C(<<B("postgresql", <<Sqlx, [Tokio EXCEPT !.dir = "rs"]>>)>>)
CollidingRubies ==
  C(<<B("mysql", <<T("ruby-mysql2", "rs", none, none),
                   T("ruby-trilogy", "rs", none, none)>>)>>)
CollidingBlocks ==
  C(<<B("postgresql", <<Sqlx>>), B("pg", <<[Tokio EXCEPT !.dir = "rs"]>>)>>)
Overriding ==
  C(<<[B("postgresql", <<Sqlx>>) EXCEPT !.overrides =
         {"email as text", "uuid as text"}]>>)
\* One mistake each.
NoBlocks == C(<<>>)
NoTargets == C(<<B("postgresql", <<>>)>>)
Legacy == C(<<[B("postgresql", <<>>) EXCEPT !.resolvable = FALSE]>>)
Executing == C(<<[B("postgresql", <<Sqlx>>) EXCEPT !.source = "execute"]>>)
WrongEngine == C(<<B("oracle", <<Sqlx>>)>>)
Bogus == Single([Sqlx EXCEPT !.options = "bogus"])
Escaping == Single([Sqlx EXCEPT !.dir = "../gen"])
\* Two mistakes in one block, and one in the block behind it.
Mistaken ==
  C(<<B("postgresql", <<[Sqlx EXCEPT !.options = "bogus"],
                         [Tokio EXCEPT !.dir = "../gen"]>>), B("oracle", <<Ruby>>)>>)
\* A project that does not want to hear of queries that fail to analyze.
Tolerant == [JustSqlx EXCEPT !.severity["SC-PARSE02"] = "off"]

\* Written by a scythe that predates the queries and options fields.
OldFile ==
  GeneratedFile(
    [version |-> "0.14.0", backend |-> "rust-sqlx", engine |-> "postgresql",
     schema |-> "users", queries |-> none, options |-> none],
    [schema |-> "users", queries |-> {GetUser}, engine |-> "postgresql",
     backend |-> "rust-sqlx", options |-> none, overlay |-> none,
     overrides |-> {}])

\* A header cut in the middle, and a directory where the file should be.
CutHeader == [OldFile EXCEPT !.header.schema = none]
Directory == [kind |-> "unreadable"]

-----------------------------------------------------------------------------
(* What the runs choose from. *)

OnlyUsers == {Users}
TwoShapes == {Users, Users2}
SchemasOneBlock == {Users, BrokenSchema}
SchemasMistakes == {Users, Users2, BrokenSchema}

Files(S) == {File(qs) : qs \in S}
OneQuery == Files({{GetUser}})
QueriesOneBlock == Files({{GetUser}, {GetUser, GET_user}})
QueriesTwoBlocks == Files({{GetUser}, {GetUser, GetUser2}})
QueriesText == Files({{GetUser}, {GetUser2}})
QueriesAll == Files({{}, {GetUser, GetUser2}, {GetUser, GET_user}})
                \cup {Stray}

ConfigsOneBlock == {SqlxAndRuby}
\* Beside TwoBlocks, mistakes generate refuses before it writes a byte.
ConfigsTwoBlocks == {TwoBlocks, NoBlocks, Legacy, Escaping, Colliding,
                     CollidingRubies}
ConfigsCheckMistakes == {NoBlocks, NoTargets, Legacy, Executing, WrongEngine,
                         Bogus, Escaping, Mistaken, TwoBlocks, Tolerant,
                         JustRuby}
ConfigsSqlx == {JustSqlx}
ConfigsRuby == {JustRuby}
ConfigsEngines == {JustSqlx, SqlxOnPg}
ConfigsColliding == {Colliding}
ConfigsCollidingBlocks == {CollidingBlocks}

NoForeign == {}
AllForeign == {OldFile, CutHeader, HeaderlessFile, Directory}

Flag(a, v) == [allow |-> a, validate |-> v]
NoFlags == {}   \* generate is never run
PlainFlags == {Flag(FALSE, FALSE)}
ValidateFlags == {Flag(FALSE, v) : v \in BOOLEAN}
=============================================================================
