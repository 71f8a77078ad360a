# Scythe in TLA+

Scythe compiles annotated SQL into typed data-access code: it reads the DDL and
the query files named in `scythe.toml`, builds a catalog, analyzes every query
against it, and writes one source file per target language. This directory
holds TLA+ modules that model the program, the TLC configurations that check
them on small projects, and TLAPS proofs of what matters most.

## 1. The system

The program is a Rust workspace, `src/crates`; `src/release` holds the npm and
Python packages that download and start it.

| Component | State | Operations | Talks to |
|---|---|---|---|
| `scythe generate` (`scythe-cli/src/commands/generate.rs`) | the run's configuration snapshot, what it has read for the current `[[sql]]` block, `written`, `validation_failed`; the output files | plan a block, write its files, report, exit | reads scythe.toml, schema, queries, overlays; writes outputs |
| `scythe check` (same file) | its own snapshot, the findings so far | validate targets, analyze queries, verify the provenance of every output | reads what generate reads and what generate wrote |
| Provenance (`scythe-codegen/src/provenance.rs`, `query_fingerprint.rs`, `catalog/fingerprint.rs`) | none; the header line on disk | stamp, parse, compare | shared by generate and check |
| Catalog (`scythe-core/src/catalog`) | tables, views, enums, composites, domains, functions, search path | one handler per DDL statement; lookup; fingerprint | built from the schema files, read by the analyzer |
| Parser (`scythe-core/src/parser`, `shared.rs`) | none | split files into queries, read annotations | feeds the analyzer |
| Analyzer (`scythe-core/src/analyzer`) | scopes of one query | resolve names, infer types, nullability and parameters | reads the catalog |
| Code generation (`scythe-codegen/src/lib.rs`, `resolve.rs`, `overrides.rs`, `backends/`) | a configured backend per target | merge overlay, apply options, render | called by generate |
| Lint (`scythe-lint`, `lint_cmd.rs`) | rule registry with severities, suppressions | run rules, apply fixes | called by check, lint, audit |
| Audit (`audit.rs`, `audit/cluster_scope`) | a parser process and its pipes | run rules over migrations | helper process |
| Inspect and schema diff (`scythe-inspect`) | none | query a live database, diff it with a catalog | database |
| Conformance (`scythe-conformance`) | fixtures, divergences | run fixtures on executors, give a verdict | databases |
| Release wrappers (`src/release/npm`, `src/release/pypi`) | the cache entry of the pinned version, scratch files beside it, one process per invocation | find a usable binary (cache, then PATH), download, stage, publish, run | each other, through the cache and through `scythe` on PATH |
| `fmt`, `migrate`, release scripts | none | convert text, build packages | external tools |

How they interact: there is no server and no thread. The concurrency is between
*processes and people sharing files*: a run of `generate`, a run of `check` (in
CI, in an editor, in a hook), a run of `migrate`, and an editor that saves any
input at any time. The one place where two processes talk is
`audit --cluster-scope`: the command and a parser it starts, over three pipes.
The only things that pass between runs are the files on disk, and the only thing
`check` knows of a generated file is its header line. The output tree is
written file by file, without a temporary file and a rename, and without a
transaction, so failures and kills leave anything in between. The release
wrappers do write to a temporary file and rename it, since any number of them
(parallel `npm install`s, shims, console scripts) share one cache directory.

What makes each part correct:

* generate: nothing is written before the block's plan holds; a finished file's
  header is true; targets do not overwrite each other; a failed run says what it
  wrote; a successful run leaves what a run from scratch would.
* check: an empty report means that what is on disk is current and that
  generate would accept the project; one mistake hides no other; what generate
  just wrote is not reported.
* catalog: a sequence of DDL leaves what the database would have; a script the
  database runs is not refused; lookups agree with the fingerprint.
* analyzer: a column said to be non-null never is null; every `?` becomes the
  parameter the driver will bind to it.
* lint: configured severities reach every rule; suppressions suppress exactly
  what they name; fixes converge.
* release wrappers: the cache entry is never partial; only whole binaries are run;
  what a postinstall script vouched for stays usable.
* audit: the helper process never hangs the run; no failure of it lets a
  statement through; the report of an earlier run survives an error.
* migrate: what the user wrote is, whole, in the file or in its backup; a
  successful run has skipped no query it could have told.

Everything in this code that a test would hardly reach is listed under
`hazards` in `PROJECT.json`, at its line, with the properties that would catch
it going wrong.

## 2. Modules

| Module | Models | Extends |
|---|---|---|
| `Provenance` | inputs, targets, output paths, fingerprints, headers, `verify_artifact` | |
| `Generate` | `run_generate` and the editor | `Provenance` |
| `Check` | `run_check` next to generate and the editor | `Generate` |
| `ArtifactStore` | what generate promises about the output tree | |
| `Catalog` | a schema script, the catalog it builds and the database it would build | |
| `FromClause` | the walk over a FROM clause, next to the rows of its joins | |
| `Nullability` | the flags of columns and expressions, next to the values they take | `FromClause` |
| `Placeholders` | the numbering of `?` and `$N` | |
| `ClusterGate` | `audit --cluster-scope` and its helper process | |
| `Migrate` | `scythe migrate` and the user | |
| `CacheEntry` | what the wrappers promise about the cache entry | |
| `Installer` | the npm and pip wrappers over one cache entry | |
| `GenerateProofs` | every safety property of Generate, and that it implements ArtifactStore | `Generate` |
| `CheckProofs` | what a clean report means, and that what generate wrote is not reported | `Check`, `GenerateProofs` |
| `CatalogProofs`, `PlaceholdersProofs`, `ClusterGateProofs`, `MigrateProofs`, `InstallerProofs` | every safety property of each, and that Installer implements CacheEntry | the module of that name |
| `NullabilityProofs` | those of FromClause and Nullability: no flag says too much, no mark too little | `Nullability` |
| `MCProject`, `MCGenerate`, `MCCheck`, `MCCatalog`, `MCClusterGate`, `MCMigrate`, `MCInstaller` | small instances for TLC | |

Two groups are composed, and two modules refine an abstract one: Check runs next to Generate over the files and headers of
Provenance; Nullability builds on the sources FromClause has pushed; and
ArtifactStore and CacheEntry are what Generate and Installer implement. The other modules share no state with
these: the catalog and the analyzer are deterministic functions inside one process,
and generate's view of them is the constant operators `Analyzes` and `Signature`.

Some modules carry a *reference* next to the code's state: the database beside the catalog,
the rows beside the nullability flags. The reference says what SQL means, the other
variables are translated from the code, and the properties compare
the two. Where the code is known to fall short, the action says so
(`doubted`, `doubtful`, `relabelled` in Catalog, FromClause and Nullability; a condition of the
property in Placeholders and ClusterGate), so that a property says exactly: right, except for these gaps.
Each gap stands beside the code's behaviour, which the model has with it: where a property excepts a gap,
the states in which the code goes wrong are there, and dropping the exception makes TLC find them.
The tables below list the gaps that are known. An operator of an engine that none of the arms'
descriptions fits would be another.

### Provenance

Contents are abstract. A schema file has a `shape` (what the catalog, its
fingerprint and generated code depend on) and may be one `load_catalog` rejects
(`ok`). A query has a name, a `kind` that with the shape decides its signature,
and a text. `SchemaFingerprint` is the shape; `QueriesFingerprint` the bag of
(name, signature) pairs, as `fingerprint_set` sorts and hashes one entry per
query and leaves the SQL out; `OptionsFingerprint` the options and the overlay's
contents. Hashes are thus taken to be injective. A `Header` has the
six fields, each possibly absent; `IsComplete` and `Drifted` are those of
`verify_artifact`, and `RuleOf` the SC-PRV rule for each field. `Body` lists
what the text of a generated file is a function of, type overrides included,
although no fingerprint covers those. A file on disk is absent, unreadable (a directory, or
not UTF-8), without a header, or a header over a body that is complete or
`Truncated`.

Paths have two forms: as spelled (`Dirs`), which is what `seen_paths` and
`written` hold, and as the file system sees them (`RealDir`, `Location`).

### Generate

`gen` is the control state: `pc`, the snapshot of the configuration, the flags,
the block `b` and the target `t`. `mem` is what the loop body of
`run_generate_inner` holds in its locals; it is reset when a block begins.

| Action | Code in `run_generate_inner` and below |
|---|---|
| `StartGenerate` | read and parse scythe.toml, `validate_schema_source` of every block |
| `LoadCatalog` | `resolve_globs`, `load_catalog`, `catalog.fingerprint()` |
| `AnalyzeQueries` | read queries, reject unannotated SQL, parse, analyze, `fingerprint_set`, `check_type_overrides_resolve`, `resolve_gen_targets` |
| `ResolveTarget` | one turn of the loop that fills `resolved` |
| `CheckPaths` | the `seen_paths` loop |
| `FingerprintOptions` | `resolve_options_fingerprint`, which reads the overlay again |
| `RenderAndOpen`, `FinishMain` | `generate_for_backend` up to and over `std::fs::write` |
| `OpenRbs`, `FinishRbs`, `SkipRbs` | `generate_rbs_if_supported` |
| `RenderFails`, `WriteFails`, `OpenRbsFails` | every `?` on the way |
| `RecordWritten` | `validation_failed`, `written.push` |
| `BlockDone` | the next block, or the exit code |
| `Killed` | Ctrl-C, power loss |
| `EditConfig`, `EditSchema`, `EditQueries`, `EditOverlay` | the user |

A write is two steps, because another process (or the next run, after a kill)
can find the file in between: `Open` leaves it empty or cut after its header,
`Close` leaves it complete. `Open` fails over an unreadable file: a directory, and so also a file that is
not UTF-8, which the code would overwrite; the model has one value for the two. A block's schema files are read in one step and so are its
query files: an editor saving between two files of one block acts like one
saving just before or after, since only the whole set's fingerprint counts.

`touched` and `steady` are history variables, used by properties only: the
locations this run has opened, and whether any input changed since it began.

### Check

`chk` is the whole of a second process: control state, what it read, and its
findings. `ValidateTargets` is `validate_gen_targets_constructible`,
`CheckQueries` the query loop with SC-PRV10, SC-PARSE02 and SC-C03, `ReadOptions`,
`VerifyMain` and `VerifyRbs` the loop of `verify_provenance`, `Report` the tail
of `run_check` with severities, `--exit-zero` and the exit code. A schema
that does not load and unannotated SQL end the run with no report, as `?` does.
The actions of Generate go on around it (`Outside`).

### Catalog

`tables` is `catalog.tables`, keyed by the spelling of a name (schema 0 when it has none);
`enums` the inline enums of MySQL columns, under the key of `process_create_table`, the
table's name with its dots made underscores (`Flat`), then the column; `db` the relations of
the database, keyed by schema and name. Both change in one step per statement of the script.

| Action | Code in `catalog/mod.rs` |
|---|---|
| `CreateTable` | `process_create_table`, with IF NOT EXISTS and an inline enum |
| `CreateAs` | `CREATE TABLE ... AS` and `CREATE VIEW` (`view_resolver.rs`) |
| `Drop` | not handled by the code: the catalog keeps the table |
| `AlterNullable`, `AddColumn`, `DropColumn`, `RenameColumn`, `RenameTable` | the arms of `process_alter_table` |
| `ModifyColumn` | MySQL's MODIFY, which no arm handles |
| `AlterUnknown` | ALTER of a name that no key answers: the error that ends the load |

`Found` is `get_table` and its `lookup_qualified` (the key as spelled or, for an unqualified name, the
smallest key that ends in it), `Canonical` what `canonical_entries` of `catalog/fingerprint.rs` hashes:
names without their qualifiers, unless two would collide.
Gaps: a table that is dropped stays; a second spelling makes a second table; an ambiguous bare name
finds the smallest schema; `CREATE TABLE AS` keeps NOT NULL, which PostgreSQL does not; a view is
resolved once and never follows its table; MODIFY is ignored; ADD COLUMN IF NOT EXISTS
adds the column twice; the key a RENAME leaves; and two tables that share the key of an inline enum
(`Shared`), one renamed since or one whose name is the same once flattened: `app.users.status` and
`app_users.status`. The enum column is always called `status`, so that only the table's part of the key can
collide; that of `a_b.c` and `a.b_c` is left out. Bases are sequences of words, and `MCBases` has
`users` and `app_users`, so that both kinds of sharing occur.

### FromClause

`sources` holds `nullable_from_join` of each source pushed; `groups` is the stack of
parenthesised joins being read, each with the flag it inherits and, as reference, the sets of its
sources that can supply one row (the others being null-extended).

| Action | Code in `analyzer/scope.rs` |
|---|---|
| `AddSource` | `build_scope_from_from` decides the join's flag and marks what was pushed before a RIGHT or FULL JOIN, then `add_table_factor_to_scope` pushes a table, derived table or table function |
| `OpenGroup`, `CloseGroup` | a nested join: entered with the flag, left when its last join is read |
| `NextItem` | the next comma-separated item, which inherits nothing |

Gaps: a RIGHT JOIN inside a group resets the flag the group inherited; OUTER APPLY is
given the flag of an inner join.

### Nullability

`exprs` holds what was inferred of each column and expression; `rows` every row the query can
produce, one value of `NULL`, `0`, `1` per entry. Keeping rows and not
sets of values keeps correlated operands correlated (`coalesce(a, b)` where a and b come
from two sides of one join).

`Project` reads two columns off the FROM clause. After it there is one action per arm of
`infer_expr_type` and `infer_function_type`: `Literal`, `IsNotNull`, `Strict`
(comparisons, arithmetic, functions typed nullable when any argument is), `Quotient`,
`Connective` (AND, OR), `FirstOperand`, `AnyOrAll`, `Convert`, `AlwaysNullable`, `Coalesce`, `Greatest`,
`ConcatWs`, `CaseNotNull`, `WindowTotal`, `WindowExtreme`, `LagOrDefault`,
`ScalarSubquery`. `Requery` makes the columns a derived table or CTE of the next SELECT,
`UnionWith` joins them with another arm, `RecursiveCte` is the two passes over a recursive CTE.

`Subtotals` gives the rows of a GROUP BY ROLLUP, CUBE or GROUPING SETS, of which the code reads nothing.

Gaps, each in its action:

* operators without a value for some operands, where the engine returns NULL and the arm follows the
  operands (`Partly`): MySQL's division by zero (`Quotient`), `mod(x, 0)`, `sqrt(-1)`, `ln(0)`, `DIV`, dates out of
  range; PostgreSQL's `substring` without a match and `jsonb @@ jsonpath` (`Strict`, `FirstOperand` with `partial`);
* MySQL's conversions that give NULL for what they cannot read, `CAST('abc' AS DATE)`, `DATE('bad')`
  (`Convert`, "lenient"); those of TRY_CAST ("tried") are typed nullable;
* functions, IN and AT TIME ZONE typed by the first operand alone; `= ANY`, `op ALL`, `ntile` and `setval` typed never null;
* the separator of `concat_ws`; the guard of CASE compared by name; windowed sum and avg, a window frame or FILTER that
  leaves no row; a scalar `count` subquery under LIMIT or OFFSET;
* GROUP BY ROLLUP and its kin; a recursive CTE typed by one pass.

The docs and the code also differ in the other, harmless, direction:
the guide (`type-inference.md`) says comparisons are always non-null, the code propagates NULL.

### Placeholders

A statement is a sequence of sites, each in a clause, in an item of it (a select item, a CTE) and of a shape:
`bare`; `inverted` (two placeholders of an expression, of which the walk reaches the second first); `late` (in a select item,
the operand of CASE, the left of LIKE or of IN over a subquery); `derived` (in a query that is analyzed twice with
an empty memo) or `unread` (under an expression the walk does not enter). `Write` writes it. `Visit` goes on to the next
clause in the order of `analyze_query`, `analyze_select`, `analyze_insert`, `analyze_update`,
`analyze_delete`; `Enter` comes to the next site of the clause, and `entered` holds the visits paid;
`Resolve` is `resolve_placeholder_position` and `register_param`.

A select item is passed over twice, first by `collect_params_from_where`, then by `infer_expr_type`, before the next
item is begun; a CTE likewise, for the anchor of a recursive one and for the whole (`Passes`, `Before`). `Reached` is what the walk
reaches at a site on a pass: of a `late` one nothing on the first. So in `SELECT CASE ? WHEN 1 THEN ? END` the second `?`
is numbered before the first (`Overtaken`). In clauses that only the first of the two passes over, WHERE and HAVING, what would
be late is not reached at all.

`TextOrder` is how the clauses are written, `VisitOrder` how they are visited: FROM
before the projection and before SET, and never the ON of a join, GROUP BY, ORDER BY, ON DUPLICATE KEY
UPDATE or an INSERT under WITH. In MySQL's `LIMIT ?, ?` the count comes first in the walk and last
in the text. `BoundInTextOrder` names all of these, and `Overtaken`, as its conditions.

### ClusterGate

Two processes and three bounded pipes. A file holds statements, by what
`policy::classify` makes of them; a routine's body is parsed by a helper of its own. A body is static SQL, one of four
kinds of PL/pgSQL statement (`Procedural`) or a routine again. The walk of a PL/pgSQL tree looks at static SQL and at EXECUTE
and goes through every other statement, so that FOR ... IN EXECUTE, RETURN QUERY EXECUTE, OPEN ... FOR EXECUTE ("executing"),
PERFORM and CALL ("evaluating") pass without a finding, and so does a routine defined in a body, which is not entered. `PassedOver`
names these, and `CleanMeansLocal` leaves them out; the head of `cluster_scope/mod.rs` (8-13) says
that bodies are inspected recursively, that dynamic SQL is refused unless it is recovered, and that nothing is skipped
silently, and that of `walk.rs` (6) that anything that cannot be inspected is a finding: `NothingIsSkipped`, which is false.

| Action | Code in `audit.rs`, `audit/cluster_scope` |
|---|---|
| `NextFile` | the loop over the inputs; an unreadable or blank one ends the run |
| `StartHelper`, `NoExecutable` | `HelperSet::parse`: spawn, or a finding |
| `Send`, `BrokenPipe`, `Sent` | writing standard input, which is closed afterwards |
| `Receive`, `Finish` | both outputs to their ends, the exit code, the verdict |
| `Classify` | one statement, and the routine's body if the gate enters its language |
| `OpenReport`, `WriteReport` | `open_output` truncates, then the findings are written |
| `ReadInput`, `Answer`, `WriteOutput`, `Exit`, `Die` | the helper: it reads all of its input, then answers; it may die at any point, with part of an answer |

### Migrate

A text is what it holds of sqlc's (`Marks`), a version and whether it is whole. The marks are those that
`convert_query_content` tells apart, those it does not see included: strict annotations at the beginning of a
line, lines that begin like one, annotations that are indented or in a block comment, `sqlc.arg` and `sqlc.narg` of a plain
identifier, those spelled otherwise, and `sqlc.embed` and `sqlc.slice`. `Refused` follows the order of its checks: a mistyped annotation
is refused first, a file without a strict one is returned as it is, and only then are parameters looked for that the
conversion left. `Converted` rewrites the strict annotations and the parameters below them and nothing else, so a
success may leave the other marks behind; `SuccessLeavesNothing`, which denies it, is false. `Start` resolves the list of files, which may name one twice;
`BackUpConfig` and `WriteConfig` are the tail of `convert_config`, `ReadQueries` and
`WriteQueries` `convert_single_file` up to and from its backup, `Finish` and `Abort`
the exit. A write may leave part of the text. `EditQueries` and `EditToml` are the user, at any
time. `own` and `ownToml` are what the user last wrote; `overtaken` the files saved between
a run's read and its write, which no backup can hold. Every file has a backup name of its own; in the code
(`with_extension("sql.bak")`, migrate.rs:645) `a.sql` and `a.psql` share `a.sql.bak`, if one glob matches both.

### Installer

`proc` is the process table: each place holds nothing, or a wrapper (`kind`:
the npm `postinstall` script, the npm `shim`, the `pip` console script) with
its pid, where it is (`pc`) and how far it has written. `cached` and `scratch` are
the directory: names that denote inodes. `file` is what the inodes hold, in chunks.
`scratch` is keyed by `ScratchName`, kind and pid, as `tempPathFor` and
`write_binary_atomically` build it.

| Action | Code |
|---|---|
| `Start` | `main` of install.js, bin/scythe, cli.py, up to its first look at the cache or at PATH |
| `CheckCache` | `isUsableCachedBinary`, `is_usable_cached_binary` and what follows from the answer |
| `CheckPath`, `ProbeWrapper`, `ProbeAnswers`, `ProbeFails` | `hasMatchingPathBinary`, `has_matching_path_binary`; `scythe` on PATH may be the binary, the npm shim or pip's own console script, which is then a process of its own |
| `Fetch` | checksums and asset, verified, or any failure |
| `OpenScratch`, `WriteChunk`, `Sync`, `Chmod`, `Rename`, `Unlink` | `writeAtomic`, `write_binary_atomically`; only pip calls fsync |
| `StagingFails`, `Abort` | any error while staging; the `catch` and the `finally` |
| `Exec` | `spawnSync`, `os.execv`, by path |
| `Kill`, `PowerFails` | SIGKILL; an outage, which ends every process and may lose data that was not synced |

A file is opened, written and synced by handle and gets its mode and its new name by
name, which is what makes shared scratch files harmful. Windows is left out.
A rename is taken to survive an outage, data without fsync is not: the bad order
of the two.

`CacheEntry` says what all of this may do to the cache entry: replace it by a whole binary in one
step (`Publish`), count a death (`ProcessDies`), or lose data that was not synced (`PowerFailure`).
The mapping is entry <- `EntryState` (is the name there, and is what it denotes whole), durable <-
`EntryDurable` (was it synced); the scratch files, the processes and PATH are hidden.

## 3. Runs

The small project (`MCProject`) has one relation in two shapes (with and without
the column `email`), four queries (two that differ only in SQL text, two whose
names render to one identifier), one overlay file, an alias of an engine, and
Rust and Ruby backends: two Rust backends share `queries.rs`, the Ruby ones
write `queries.rb` and `queries.rbs`.

| Run | Shows |
|---|---|
| `generate_one_block` | `TypeOK`, `HeadersTell`, `WritesFollowPlan`, `WarningMissesOnlyCurrent` while every input is edited under the run |
| `generate_two_blocks` | `RunConsistent`, `SuccessIsFresh`, the refinement `StoreSpec`, `NoClobberSameSpelling` and `RunEnds`, with two blocks and with colliding, escaping and otherwise mistaken targets |
| `check_under_edits` | `CheckTypeOK`, `CleanMeansCurrent`, `GeneratedPasses`, three processes interleaved over artifacts of every kind |
| `check_mistaken_configs` | `CleanMeansUsable` and `ReportMissesNothing` (a report names every mistake, whatever else is wrong) over every configuration mistake, alone and three at once, on a disk generate never wrote to |
| `install_cache` | `InstallerTypeOK`, `PublishedIsWhole`, `ScratchIsMine`, `InstalledServesShim`, `RunsOnlyWhole` and the refinement `EntrySpec`, two wrappers on one host, a crash at any step, over an empty cache or a file an older wrapper left |
| `nullability` | `NonNullIsPresent` (a source not marked always supplies a row), `NullableIsReal` (a mark has a cause), `NullTypeOK`, `NonNullIsSound` (a non-null column or expression never holds NULL), over all FROM clauses of three sources and two levels, in two dialects |
| `params` | `TypeOK`, `BoundInTextOrder`, `DollarsKeepTheirNumber`, over all statements of three sites, in one item or in several |
| `catalog` | `TypeOK`, `LookupIsRight`, `LabelsAreRight`, `ConsistentScriptsAreRead`, `FingerprintDecidesBareNames`, over all scripts of four statements |
| `audit_gate` | `TypeOK`, `CleanMeansLocal`, `ReportSurvivesErrors`, `CommandEnds`, with full pipes and a helper that dies |
| `migrate` | `TypeOK`, `QueriesSurvive`, `ConfigSurvivesOneRun`, `SuccessMeansConverted`, through any number of runs, kills and edits |

Two runs check what a comment of the code claims and the code does not keep;
TLC finds each violated, and `findings` in `PROJECT.json` quotes the claim:

| Run | Claim | What happens |
|---|---|---|
| `query_text_is_not_checked` | the fingerprint moves iff generated output does | the SQL text is embedded and not hashed |
| `observed_null` | an observed NULL implies an optional column | the gaps of Nullability, `NULL = ANY (...)` first; it runs with PostgreSQL's alone |

### Claims the modules state and do not check

The modules also state claims in the strength that comments and docs make them. They are false
of the model, as they are of the code; each is next to the form that holds:

| Definition | What happens | What holds |
|---|---|---|
| `OptionsHeadersTell` | an overlay saved between two reads: the header names the new one, the body has the old one | `HeadersTell` |
| `NoClobberInRun` | the map of output paths is per block, and compares spellings: `rs` and `./rs` are two keys | `NoClobberSameSpelling` |
| `WarningListsOutputs` | a main file whose RBS companion failed is not listed, RBS files never are | `WarningMissesOnlyCurrent` |
| `CleanMeansGenerateAccepts` | check does not look at type overrides and path collisions | `CleanMeansUsable` |
| `ResolvedIsRunnable` | pip returns the bare name of a binary on PATH, which `execv` does not look up | `RunsOnlyWhole` |
| `PublishedIsWhole` without `OneHostOnly` | containers that share a cache directory can share a pid | the theorem under `OneHostOnly` |
| `EveryOuterJoinCounts` | a RIGHT JOIN in an inheriting group; OUTER APPLY | `NonNullIsPresent` |
| `NoInversion` | FROM is visited before the projection; the operand of CASE is numbered after its branches | `BoundInTextOrder` |
| `FingerprintDecidesNames` | a rename to another schema leaves the stripped form alone, and lookup of a qualified name keeps its schema | `FingerprintDecidesBareNames` |
| `IfNotExistsIsNoOp` | the inline enum is registered before the table is found to exist | `LabelsAreRight`, except for `relabelled` |
| `EnumsAreTheirOwn` | `app.users.status` and `app_users.status` have one key, and the later labels overwrite the earlier | `LabelsAreRight`, except for `relabelled` |
| `NothingIsSkipped` | the walk of a body passes over FOR ... IN EXECUTE, PERFORM and nested routines | `CleanMeansLocal`, except for `PassedOver` |
| `SuccessLeavesNothing` | `sqlc.embed`, indented annotations, and the parameters of a file without annotations go through migrate | `SuccessMeansConverted` |
| `ConfigSurvives` | a second run backs up what the first one wrote, over the user's file | `ConfigSurvivesOneRun` |

One more divergence needs no run: `run_check` reports a duplicate query name (SC-C03) as an
error whatever the registry says, although the lint engine's comment gives the
registry that decision. `SeverityOf` in Check models the code.

### Bounds

In Generate and Check no counter needs a cap: a run ends, and what remains (disk,
inputs) is finite. The bounds are the sizes of the constants. One schema file and one query file
with two contents each are enough for a stale read, two blocks for a mix-up
between blocks, three targets for an order among them, two backends with one
file name for a collision, one older
version for a foreign file. The configurations of each run are listed in
`MCProject`, one definition per run; the runs differ in them since the product of
everything is out of reach. Symmetry is not used there: the values are not
interchangeable.

In Installer `MaxCrashes` caps kills and power failures, at 1: one leaves a scratch file
for a later process with the same pid, or unsynced data, and everything after
it starts from there. `Size` is 2, the least with a partial file. Two processes
are enough for each hazard of the list, since the wrappers interact
through one entry and one scratch name; places are reused, so any number of them run
one after the other. Two pids, so that a pid is used again and two processes differ.
Five inodes are one for every name. `OnPath` is the shim
(whose answer depends on the cache) or pip's script (which is a process);
`"none"` and `"scythe"`, constant answers, leave out steps only. `Environments` is
`"plain"`: the other two end a wrapper before its first access to the cache, or
before the download. Inodes and
process places are interchangeable on one host, so this module's run uses
symmetry, and no liveness property with it.

In Catalog two schemas, one of them the default, and two names (`users`, and `app_users`, which is what `app.users` is once
flattened) are the least with an ambiguous
bare name and a rename onto another table; `MaxStatements` is 4: create, create again or
as, alter or rename, and a statement that looks at the result. In FromClause `MaxSources` is 3,
the least where a join marks sources beyond its own, and `MaxDepth` 2, one
parenthesised group. In Nullability `MaxSize` is 4 (two columns and two
expressions over them, or one expression and one more query), `MaxQueries` 1. In Placeholders
`MaxSites` is 3, so that a site is visited out of order between two others, in another item or in theirs. In ClusterGate
`Capacity` is 2 and `MaxAmount` 3, so that an answer, a message or the SQL may each
be more than its pipe holds; the inputs are in `MCClusterGate`: every statement and body alone, each routine
after a local statement and after a local routine, and two files. In Migrate two files, of the five contents of `MCContents` (nothing of sqlc's, convertible with a mark that stays,
refused for a parameter, refused for an annotation, passed over), `MaxVersion` 1 (one
edit of each file), and lists that are empty or name a file twice; runs are not bounded.

`CHECK_DEADLOCK FALSE` stands where the thing modelled ends: `Nullable`, `NullObserved`, `Params` and
`CatalogScript`, one statement or one script each. It is left on everywhere else: a
project can always be edited or generated again, another wrapper started, another `migrate` run;
ClusterGate's `Ended` is a step of the command's own, so that every other stop is a deadlock.

### Fairness

`FairSpec` has weak fairness of `GenerateStep`: a process that runs keeps running
until it exits. Nothing forces the user to start, edit or kill anything, so every other
action is without fairness.
`RunEnds` holds although edits go on for ever, since a step reads a
file once and never waits for it.

ClusterGate's `Spec` has weak fairness of `Command` and of `Helper`: both processes are scheduled. Nothing
makes a helper die, and the code has no timeout for it, so `CommandEnds` rests on the protocol alone: the
helper reads all of its input before it answers, and the command drains both outputs.

### Mutants

Each property has a mutant: a definition of the model changed the way a
plausible bug would change its code (the schema read a second time for the
header, a target resolved only after the previous one was written, the vectors
of the previous block kept, the engine alias expanded before the comparison,
optional fields never compared, ...). The mutated forms are in the modules just
before the definitions they replace, marked `Mutant`. They are part of no
behaviour.

## 4. Proofs

`GenerateProofs` proves, for every value of the constants that satisfies the
named assumptions of `Provenance`:

* `SpecTypeOK`, `SpecRunConsistent`, `SpecHeadersTell`: the three are proved
  together, since none is inductive alone. `HeadersTell` speaks of the disk,
  but the file a step writes is built from `mem`, read several steps before
  while inputs kept changing. What carries it is `MemoryOK`: from the moment
  they are read, `mem.schemaTag` and `mem.queriesTag` are those of `mem.shape`
  and `mem.queries`. That in turn needs `ControlOK` (the block and the target
  exist and have not changed) and the types. `IInv` is the conjunction;
  `InitIInv`, `NextIInv` and the lemmas per action show it inductive. `GotoConsistent`
  is the lemma for the many steps that only move the program counter.
* `SpecNoClobberSameSpelling`: an action property. While the run is at a
  target, `CheckPaths` has passed (`ControlOK` carries `PathsDistinct`); a
  changed location is the main or the RBS file of the current target; a main path
  is no RBS path, and two targets with RBS files share the name of the main
  one, so a shared RBS path would have been a shared main path (`PathsApart`).
  This last fact about the Ruby backends is `PathsAssumption`; a backend
  that breaks it would break the property, and the assumption says so.

* `SpecWritesFollowPlan`: from `ControlOK`, since no step touches the disk before the plan of its block holds.
* `SpecWarningMissesOnlyCurrent`: `WarningInv` adds `MainTouched`. A main file enters `touched` when
  it is opened and `written` when its target is through; in between the run is at that target.
* `SpecSuccessIsFresh`: `FreshInv` speaks of runs nobody edits under (`steady`). `MemoryFresh`: what the
  run remembers is what the inputs hold. `FilesFresh`: the files of the blocks and targets
  behind it are those of a run from scratch, and so is the main file while the RBS file is being
  written; a later write leaves them alone because of `Disjoint`, which the property assumes: the map of
  paths is per block in the code. `QueriesWereUsable`: the queries of the blocks behind it passed.
  `RunningHasNoOutcome`: an outcome is of the run that ended, not of the one before.
* `SpecStoreSpec`: Generate implements `ArtifactStore` under the mapping files <- disk, open <- the
  location being written. Every step opens a file, closes it, abandons it or leaves the
  store alone. The close needs `HeadersTell`'s argument again, through `IInv`.
* `SpecOptionsTold`: the options in a finished file's header are those its body was generated with. The
  overlay named beside them may be another one: it is read twice, the options once.
* `SpecInputsAccepted`: a steady run that succeeds has accepted its whole configuration. `AcceptedSoFar` says how much
  of the block at hand; `AcceptStep` takes it over each step, `BlockIsAccepted` over the end of a block.
* `SpecRunShrinks`: every step of a run decreases, in this order of significance, the blocks, the phases of the
  block, the targets and the stages of the target left to do; a failure and a kill end it. `BlockDoneShrinks`
  and `TurnShrinks` carry the steps that go on to the next block and target. So a run takes
  finitely many steps, whatever is edited meanwhile.

`CheckProofs` proves, for a check next to any number of runs of generate and any edits:

* `CheckSpecImpliesSpec`: Check is Generate with a second process beside it, so all of the above holds there.
* `CheckSpecTypeOK`, `CheckSpecCleanMeansUsable`, `CheckSpecCleanMeansCurrent`, from `CheckIInv`. It
  speaks of the time in which nothing moves (`still`, a history variable like `steady`). `CheckFresh`: what
  the check compares with is what the inputs hold. `NothingFound`: while there is no finding, each block and
  target behind it passes; `CleanPasses` carries that over the report, which forgets where the check
  was. A header that passes need not be true of the body below it; `PassingHeader` and `PresentIsCurrent` get
  that from `HeadersTell` and `OptionsTold`, which is why those are invariants of the disk and not of a run.
* `CheckSpecReportMissesNothing`, the converse of `FindingsAreReal`, from `CheckIInv` and `Complete`: while nothing moves, the
  blocks and phases behind the check have the findings they deserve (`MissedNothing`), whatever was found before them, and
  the report leaves out only rules that are off (`ReportsWanted`).
* `CheckSpecFindingsAreReal`: no false alarm, of any rule. Each finding is `Justified` by what it points to: the
  block (its query rules, its target list), the target (it does not resolve, its options cannot be told) or a file
  of that target (`verify_artifact`). `ErrorIsReal`: a check that gives up without a report had to (`Hopeless`).
* `CheckSpecGeneratedPasses`: what a successful generate leaves passes. It plays `FindingsAreReal` and
  `ErrorIsReal` against `FreshInv` (the files are those the check expects, `FreshFilesPass`) and
  `InputsAccepted` (no target, schema or query deserves a finding). What check may still say is what generate
  does not mind: SC-PRV10, SC-C03, and SC-PRV09 of an output that leaves the project, since check has no
  `--allow-output-escape`. SC-C03 cannot be ruled out: generate accepts a query repeated to the
  letter (`record_type_declaration` compares bodies).
* `VerifyArtifactAccepts`: exactly what passes `verify_artifact`. An absent file does; a header that lacks a
  required field does not; one that lacks an optional field does, which is why `CleanMeansCurrent` has to say
  so much about missing fields.
* `CheckSpecShrinks`: a check takes finitely many steps, by a measure like that of `SpecRunShrinks`. Blocks
  and targets are those of `chk.cfg`, the configuration as it was parsed, so no edit and no run of generate can lengthen it.

`InstallerProofs` proves, for any number of processes, pids, inodes, chunks and
crashes:

* `SpecScratchIsMine`, `SpecPublishedIsWhole`, `SpecInstalledServesShim`,
  `SpecRunsOnlyWhole`, each, and `SpecEntrySpec`, under the hypothesis `OneHostOnly`: all processes draw
  their pids from one table (containers that share a cache directory do not). None is
  inductive alone. `IInv` adds `PidsApart` (two live processes have two pids, hence two
  scratch names), `NamesApart` (a file has one name), `WritersOK` (what a
  scratch file holds is what its writer has written, and a writer about to rename
  has written everything and set the mode), `EntryOK` (an executable entry is
  whole, a new entry is executable) and `InstalledOK`. `WriteKeepsIInv` and
  `RemoveKeepsIInv` carry the steps on files; `WritersDiffer` derives
  two files from two pids.
* `SpecInstallerTypeOK`, without that hypothesis: on any number of hosts the table and the directory are well
  typed. `ProcsOK` and `DiskOK` are inductive; a lemma per action gives the shape of the process it leaves.
* `SpecEntrySpec`: Installer implements `CacheEntry`. `EntryKept` covers every step that
  stages, fails or runs (no name or handle of a scratch file is the entry's: `NamesApart`, `WritersDiffer`),
  `RenamePublishes` the rename (what is renamed is whole: `WritersOK`), `PowerTears` the outage.
* `PublishedIsWhole` and `RunsOnlyWhole` except a file that is `Torn`: there was an
  outage and the file was not synced. That is what npm's missing fsync costs; pip's
  files are never torn after `Sync`.

`CatalogProofs` proves, for any schemas, names and length of script:

* `SpecConsistentScriptsAreRead`, from the invariant `CatalogInv`. Its other parts are `KeysOK` (keys are
  spellings) and `SpellingsOK`: a relation that is not doubted is registered under the spelling the
  script used last. Lemmas per action; `CreatedInv` and `AlteredInv` are shared.
* `SpecFingerprintDecidesBareNames`: `StrippedAnswers` computes the answer to a bare name from the
  canonical form when one schema has it, `CollisionsShow` shows that a name in two schemas is
  visible in the form, and `SameAnswers` puts the two together.
* `SpecTypeOK`, `SpecLookupIsRight`, `SpecLabelsAreRight`, from `LookupInv`. `ColumnsOK`: a relation that is
  not doubted has one key, its last spelling, and the columns under it `Agree` with the database's. `LabelsOK`:
  the same of the labels of enums, but for the relabelled; a CREATE that writes under a key another table has
  relabels it, which is all that the proof needs to know of how names are flattened. `ViewsOK`: a view is of a table and shows columns it
  has, or there would be nothing to compare. That an unambiguous bare name leads to that key (`TheKey`) rests
  on the choice among a finite set of keys. DROP COLUMN is the one arm that shifts columns: `Retained` gives
  the n-th column it keeps as one with so many kept columns up to it, and `NthIsElement` shows by counting
  that there is one.

`NullabilityProofs` proves, for any number of sources, any depth, any number of
expressions and of nested queries:

* `SpecNonNullIsPresent`: the code never looks back at the shape of the joins, so the
  invariant must say per group what the flags pushed so far imply. `FromInv` has the bases of the groups in
  order (`BasesOK`, `FirstOK`), every source of a group that inherited the flag marked or doubted
  (`InheritOK`, `MarkedOK`), and for each group and for the items read the property itself (`GroupsOK`, `ItemsOK`).
* `SpecNullableIsReal`, the converse: in a FROM clause that `widened` does not name, a marked source is missing
  from some row. It is false in between: a join marks before its right side has been read. `MarksOK` therefore
  says that a source marked in a group is missing from a row of that group, or the group inherited
  the flag, or a RIGHT or FULL join is still being read to its right (`Awaits`); `FlagsOK` recomputes the inherited flag
  from the join a group was entered by, and `RowsOK` keeps the rows of a group to its own sources, so that
  joining two sides loses no missing source.
* `SpecNonNullIsSound`: `NullInv` is `FromInv` and `SelectInv`. `ProjectSound` takes it from the
  first to the second through `FromInvPresent`; `EmitSound` reduces each arm to a fact on
  one value, one lemma per arm; `RequerySound`, `UnionWithSound` and `RecursiveCteSound` carry it over queries on queries.
* `SpecNullTypeOK`, from the same invariant.

`PlaceholdersProofs` proves, for a statement with any number of sites:

* `SpecTypeOK`, `SpecBoundInTextOrder`, `SpecDollarsKeepTheirNumber`, all from `WalkInv`. `WalkOK` ties the visits
  behind the walk to the clause it is in, so that none is left when the last clause is through. `PendingOK` says what
  can be left of the visit in hand, whether the memo knows it, and how many parameters it may
  still add (`Room`): the bound on positions is that one. `DollarsOK`: the parameters are the places the walk has met, but for
  those still pending; a site is met on its `FirstPass`, the second for a late one. `BoundOK`, for the statements the
  property is about: the sites met are the first c
  of the text, and the parameters are 1 to c. What makes the walk meet site c + 1 next is
  `EarlierAreMet`, which uses `OrdersAgree` (but for three pairs of clauses, `VisitOrder` keeps to `TextOrder`) and, within an
  item, that nothing is overtaken. A visit to a site already met changes nothing, as the memo knows its places (`Held`).

`ClusterGateProofs` proves, for any inputs, pipe capacity and amounts:

* `SpecTypeOK`; `SpecReportSurvivesErrors`, from `Untouched` (no step but `OpenReport` touches
  the report, and after it no step ends in an error).
* `SpecCleanMeansLocal`: the gate fails closed. What carries it: as long as there is no
  finding, every statement of a file that is through is local or passed over (`Settled`) or still to be looked at
  (`Pending`: in `rest`, or a routine whose body is the job at hand). That is `Through`. A helper's death
  adds a finding, so it can let nothing pass.
* `SpecNoStandoff`: the command, while it sends, does not read, and the helper, until it has read all, does not
  write. `HandOver` says where the two can be together: a helper answers only a command that waits, stdin is open
  just while the command sends, and nothing is in the answer pipes before the helper answers. So one
  of the two can always step, with pipes of any size, the command having dropped stdin.
* `SpecShrinks`: a lexicographic measure of files, statements, parses of the statement, stages of the
  parse and units for the pipes. A unit sent counts twice, once until it is in the pipe and once until it is read;
  a helper that reads counts for the most it may yet answer. It decreases in every step, a helper's death included.

`MigrateProofs` proves, for any files, lists, edits and runs:

* `SpecTypeOK`, `SpecQueriesSurvive`, `SpecConfigSurvivesOneRun`: a file whose own
  text is no longer in it holds what migrate wrote, and no run backs that up; what a run is about to
  overwrite is already in the backup (`Prepared`, `Copied`).
* `SpecSuccessMeansConverted`: an action property, from `Progress`: the files of the list before `i` hold
  no annotation at the beginning of a line, or were edited. `WrittenInv` says the same of whatever an earlier run wrote, and
  that no parameter is left in it, since what a run is about to write it has not refused (`Prepared`).

InstallerProofs' assumption on what older wrappers left, `LeftoversAssumption`, is that they too set the
mode after the data, so that a file cut short is not executable; pip runs such a file's
path and gets an error, never half a program.

The assumptions are about constants only: configurations are well-formed
(`ConfigsAssumption`), query and schema contents typed and finite
(`ContentsAssumption`), signatures total (`SignatureAssumption`), foreign files
come from another version (`ForeignAssumption`), `None` and `Truncated` are no
ordinary values, no more are the contents of a missing or invalid overlay, and an absent optional field is no
fingerprint (`DistinctAssumption`), the facts on file names
(`PathsAssumption`), those of `Installer`, and of the other modules only the types of their
bounds and inputs (`CatalogBounds`, `FromBounds`, `NullBounds`, `SitesBound`, `GateBounds`, `GateInputs`,
`MigrateBounds`). TLC evaluates all of them on every run.

Model-checked only: `RunEnds` and `CommandEnds`, since liveness under fairness is out of the
prover's reach. Their safety half is proved for every value of the constants: by `SpecRunShrinks`, `CheckSpecShrinks`
and `SpecShrinks` no behaviour takes infinitely many steps of a run, a check or an audit, and by `SpecNoStandoff`
the two processes of an audit do not block each other. What is left to TLC is that a generate or an audit
that has not ended has a step to take, and that fairness takes it. Every safety invariant and action property that a passing run checks is also a
theorem (those of Installer but `InstallerTypeOK` under `OneHostOnly`, as said above). The two claims that runs refute, and those of "Claims the modules state and do not check",
are false, so nothing is proved of them.

Two models have the form they have for the provers' sake, with the same behaviours: `Retained` in Catalog
stands where a filter of a sequence would (`SelectSeq` takes an operator, of which the provers know nothing), and
Placeholders enters a clause site by site, instead of concatenating the placeholders of all of its sites
(`FlattenSeq` is recursive).

## 5. Not modelled

* The some sixty text-emitting backends, manifests, naming and the codegen core: functions from an
  analyzed query to text, without state. They are most of the program's lines, with the
  tests; a model that covered them line by line would be a copy of them. Generate has them
  as a rendering that succeeds or fails, and as what the text of a file depends on.
* The parser and annotations, the formatters (`fmt`, the sqruff adapter), the pattern rules of
  the lint engine: text and AST matching.
* In the catalog: domains, composites, functions, standalone enums, the search path and the
  normalisation of types. In the analyzer: inferred types, names of result columns, nested structs.
* The text of the header line (escaping, the 20-line window).
* Database I/O: `inspect`, live verification; the conformance runner; release scripts and the action.
* Of the wrappers, the network, platform resolution, Windows and termination (their
  requests have no timeout); of `audit`, the rules other than the cluster-scope gate.

Each is named with its reason under `components` in `PROJECT.json`.

## 6. Plan

Done: `Provenance`, `Generate`, `Check`, `ArtifactStore`, `Installer`, `CacheEntry`, `Catalog` with its
fingerprint, `FromClause`, `Nullability`, `Placeholders`, `ClusterGate`, `Migrate`, and the proofs of section 4.

Left, in this order:

1. Domains, composite types and the search path in `Catalog`.
2. `Lint`: registry, categories, severities, suppressions, `lint --fix`.
3. `ProvenanceHeader`: the header line as a sequence of fields; decode after encode, the scan window, the preamble.
4. The selection among type overrides; the schema diff; the conformance verdict.
