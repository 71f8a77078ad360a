------------------------------ MODULE Generate ------------------------------
(***************************************************************************)
(* `scythe generate': one process that reads scythe.toml and, block by     *)
(* block, the schema, the queries and the manifest overlays, then writes   *)
(* the block's output files one after the other.  An editor may change any *)
(* input between two reads, a write may fail, and the process may be       *)
(* killed at any step.                                                     *)
(***************************************************************************)
EXTENDS Provenance

CONSTANT Flags   \* command lines: [allow, validate]

VARIABLES
  inputs,    \* files the user edits
  disk,      \* Locations -> FileStates
  gen,       \* control state of the run
  mem,       \* what the run has read for the current block
  written,   \* the `written' vector, paths as spelled in the config
  invalid,   \* the `validation_failed' flag
  touched,   \* history: locations this run has opened for writing
  steady     \* history: no input has changed since the run began

genVars == <<gen, mem, written, invalid, touched>>
vars == <<inputs, disk, genVars, steady>>

-----------------------------------------------------------------------------
PlanPhases == {"catalog", "queries", "resolve"}
WritePhases == {"options", "render", "write", "rbs", "rbswrite", "record"}
Phases == {"idle"} \cup PlanPhases \cup WritePhases

\* "ok" exits 0, "err" exits 1, "invalid" exits 2; a killed run has none.
Outcomes == {"none", "ok", "err", "invalid", "killed"}

Inputs == [config : Configs \cup {Unreadable},
           schema : [SchemaFiles -> SchemaContents],
           queries : [QueryFiles -> QueryContents],
           overlay : [OverlayFiles -> OverlayContents]]

Idle == [pc |-> "idle", outcome |-> "none", cfg |-> None, flags |-> None,
         b |-> 1, t |-> 1]

NoMemory == [shape |-> None, schemaTag |-> None, queries |-> {},
             queriesTag |-> {}, overlays |-> <<>>, optionsTag |-> None]

block == gen.cfg.blocks[gen.b]
target == block.targets[gen.t]

-----------------------------------------------------------------------------
(* What each step of the plan of a block accepts. *)

\* Mutant: a missing overlay falls back to the built-in manifest.
OverlayAppliesOrMissing(content) == content # "invalid"

OverlayApplies(content) == content \in Overlays

\* check_type_overrides_resolve
OverridesResolve(overrides, queries) ==
  \A o \in overrides :
    ColumnOf(o) # None => \E q \in queries : ColumnOf(o) \in ColumnsOf(q)

\* resolve_contained_output
Contained(dir, allow) == allow \/ ~Escapes(dir)

OverlayContent(t, overlay) ==
  IF t.overlay = None THEN None ELSE overlay[t.overlay]

TargetResolves(blk, t, overlay, allow) ==
  /\ Supports(t.backend, blk.engine)
  /\ t.overlay # None => OverlayApplies(overlay[t.overlay])
  /\ t.options # None => AppliesOptions(t.backend, t.options)
  /\ Contained(t.dir, allow)

\* Mutant: no comparison of output paths.
PathsNotCompared(targets) == TRUE

\* The key of the seen_paths map is the path as spelled.
PathsDistinct(targets) ==
  \A i, j \in DOMAIN targets :
    MainPath(targets[i]) = MainPath(targets[j]) => i = j

QueriesUsable(content, shape) ==
  /\ ~content.stray
  /\ \A q \in content.queries : Analyzes(shape, q)

\* check_file_level_type_name_collisions and the nested-struct check: two
\* queries of one file must not render different code under one identifier.
Renders(queries, backend, overlay) ==
  \A q, r \in queries :
    Ident(backend, overlay, q.name) = Ident(backend, overlay, r.name) =>
      q.kind = r.kind /\ q.text = r.text

-----------------------------------------------------------------------------
(* The file a target gets from what the run has read. *)

HeaderOf(blk, t, schemaTag, queriesTag, optionsTag) ==
  [version |-> Version, backend |-> t.backend, engine |-> blk.engine,
   schema |-> schemaTag, queries |-> queriesTag, options |-> optionsTag]

BodyOf(blk, t, shape, queries, overlay) ==
  [schema |-> shape, queries |-> queries, engine |-> blk.engine,
   backend |-> t.backend, options |-> t.options, overlay |-> overlay,
   overrides |-> blk.overrides]

\* Mutants: the queries are read again for the header, or for the body.
RunHeaderReread ==
  HeaderOf(block, target, mem.schemaTag,
           QueriesFingerprint(mem.shape, inputs.queries[block.queries].queries),
           mem.optionsTag)
RunBodyReread ==
  BodyOf(block, target, mem.shape, inputs.queries[block.queries].queries,
         mem.overlays[gen.t])

RunHeader ==
  HeaderOf(block, target, mem.schemaTag, mem.queriesTag, mem.optionsTag)
RunBody == BodyOf(block, target, mem.shape, mem.queries, mem.overlays[gen.t])
RunFile == GeneratedFile(RunHeader, RunBody)

\* What another process may find while std::fs::write is under way, or
\* after it failed: the truncated file, or a prefix that holds the header.
TornFiles(file) ==
  {HeaderlessFile, GeneratedFile(file.header, Truncated)}

-----------------------------------------------------------------------------
(* The run. *)

At(phase) == gen.pc = phase

Goto(phase) == gen' = [gen EXCEPT !.pc = phase]

Exit(outcome) == gen' = [Idle EXCEPT !.outcome = outcome]

\* `?' anywhere in run_generate_inner.
Fail == /\ Exit("err")
        /\ mem' = NoMemory
        /\ UNCHANGED <<inputs, written, invalid, touched, steady>>

\* The last block done: exit 2 when --validate-output found something.
Finish ==
  /\ Exit(IF gen.flags.validate /\ invalid THEN "invalid" ELSE "ok")
  /\ mem' = NoMemory

\* Mutant: the vectors of the previous block are kept.
BeginBlockKeeping(b) ==
  /\ gen' = [gen EXCEPT !.pc = "catalog", !.b = b, !.t = 1]
  /\ UNCHANGED mem

BeginBlock(b) ==
  /\ gen' = [gen EXCEPT !.pc = "catalog", !.b = b, !.t = 1]
  /\ mem' = NoMemory

\* Mutant: the last block is never begun.
NextBlockButLast ==
  IF gen.b + 1 < Len(gen.cfg.blocks) THEN BeginBlock(gen.b + 1) ELSE Finish

NextBlock ==
  IF gen.b < Len(gen.cfg.blocks) THEN BeginBlock(gen.b + 1) ELSE Finish

StartGenerate(flags) ==
  /\ At("idle")
  /\ written' = <<>> /\ invalid' = FALSE /\ touched' = {} /\ steady' = TRUE
  /\ mem' = NoMemory
  /\ IF \/ inputs.config = Unreadable
        \/ \E i \in DOMAIN inputs.config.blocks :
             ~SchemaSourceValid(inputs.config.blocks[i])
     THEN Exit("err")
     ELSE IF inputs.config.blocks = <<>>
     THEN Exit("ok")
     ELSE gen' = [pc |-> "catalog", outcome |-> "none", cfg |-> inputs.config,
                  flags |-> flags, b |-> 1, t |-> 1]
  /\ UNCHANGED <<inputs, disk>>

\* resolve_globs, load_catalog and Catalog::fingerprint.
LoadCatalog ==
  /\ At("catalog")
  /\ UNCHANGED disk
  /\ LET schema == inputs.schema[block.schema] IN
     IF schema.ok
     THEN /\ Goto("queries")
          /\ mem' = [mem EXCEPT !.shape = schema.shape,
                                !.schemaTag = SchemaFingerprint(schema)]
          /\ UNCHANGED <<inputs, written, invalid, touched, steady>>
     ELSE Fail

\* Reading, parsing and analyzing the queries, then the type_overrides and
\* the target list of the block.
AnalyzeQueries ==
  /\ At("queries")
  /\ UNCHANGED disk
  /\ LET content == inputs.queries[block.queries] IN
     IF /\ QueriesUsable(content, mem.shape)
        /\ OverridesResolve(block.overrides, content.queries)
        /\ block.resolvable
     THEN /\ Goto("resolve")
          /\ mem' = [mem EXCEPT
                !.queries = content.queries,
                !.queriesTag = QueriesFingerprint(mem.shape, content.queries)]
          /\ UNCHANGED <<inputs, written, invalid, touched, steady>>
     ELSE Fail

\* One turn of the loop that builds `resolved'.
ResolveTarget ==
  /\ At("resolve")
  /\ gen.t <= Len(block.targets)
  /\ UNCHANGED disk
  /\ IF TargetResolves(block, target, inputs.overlay, gen.flags.allow)
     THEN /\ gen' = [gen EXCEPT !.t = @ + 1]
          /\ mem' = [mem EXCEPT !.overlays =
                       Append(@, OverlayContent(target, inputs.overlay))]
          /\ UNCHANGED <<inputs, written, invalid, touched, steady>>
     ELSE Fail

\* The seen_paths loop, once every target of the block has resolved.
CheckPaths ==
  /\ At("resolve")
  /\ gen.t > Len(block.targets)
  /\ UNCHANGED disk
  /\ IF PathsDistinct(block.targets)
     THEN /\ gen' = [gen EXCEPT !.pc = "options", !.t = 1]
          /\ UNCHANGED <<inputs, mem, written, invalid, touched, steady>>
     ELSE Fail

\* resolve_options_fingerprint reads the overlay a second time.
FingerprintOptions ==
  /\ At("options")
  /\ gen.t <= Len(block.targets)
  /\ UNCHANGED disk
  /\ LET content == OverlayContent(target, inputs.overlay) IN
     IF content # "missing"
     THEN /\ Goto("render")
          /\ mem' = [mem EXCEPT !.optionsTag =
                       OptionsFingerprint(target.options, content)]
          /\ UNCHANGED <<inputs, written, invalid, touched, steady>>
     ELSE Fail

BlockDone ==
  /\ At("options")
  /\ gen.t > Len(block.targets)
  /\ NextBlock
  /\ UNCHANGED <<inputs, disk, written, invalid, touched, steady>>

\* Opening the file truncates it; until the last byte is out it is torn.
Open(location, next) ==
  /\ disk[location].kind # "unreadable"
  /\ \E torn \in TornFiles(RunFile) : disk' = [disk EXCEPT ![location] = torn]
  /\ touched' = touched \cup {location}
  /\ Goto(next)
  /\ UNCHANGED <<inputs, mem, written, invalid, steady>>

Close(location, next) ==
  /\ disk' = [disk EXCEPT ![location] = RunFile]
  /\ Goto(next)
  /\ UNCHANGED <<inputs, mem, written, invalid, touched, steady>>

\* Code generation may reject the queries; create_dir_all and the opening
\* of the file may fail.
RenderFails ==
  /\ At("render")
  /\ UNCHANGED disk
  /\ Fail

RenderAndOpen ==
  /\ At("render")
  /\ Renders(mem.queries, target.backend, mem.overlays[gen.t])
  /\ Open(Location(MainPath(target)), "write")

FinishMain == At("write") /\ Close(Location(MainPath(target)), "rbs")

\* Mutant: a write that fails is tried again.
WriteRetried ==
  /\ gen.pc \in {"write", "rbswrite"}
  /\ Goto("render")
  /\ UNCHANGED <<inputs, disk, mem, written, invalid, touched, steady>>

\* The disk fills up, or an I/O error cuts the write short.
WriteFails ==
  /\ gen.pc \in {"write", "rbswrite"}
  /\ UNCHANGED disk
  /\ Fail

SkipRbs ==
  /\ At("rbs")
  /\ ~EmitsRbs(target.backend)
  /\ Goto("record")
  /\ UNCHANGED <<inputs, disk, mem, written, invalid, touched, steady>>

OpenRbs ==
  /\ At("rbs")
  /\ EmitsRbs(target.backend)
  /\ Open(Location(RbsPath(target)), "rbswrite")

OpenRbsFails ==
  /\ At("rbs")
  /\ EmitsRbs(target.backend)
  /\ UNCHANGED disk
  /\ Fail

FinishRbs == At("rbswrite") /\ Close(Location(RbsPath(target)), "record")

\* Mutants: only the last output is remembered; a target is resolved only
\* after the one before it has been written.
RecordLast ==
  /\ At("record")
  /\ written' = <<MainPath(target)>>
  /\ gen' = [gen EXCEPT !.pc = "options", !.t = @ + 1]
  /\ UNCHANGED <<inputs, disk, mem, invalid, touched, steady>>
RecordThenResolve ==
  /\ At("record")
  /\ written' = Append(written, MainPath(target))
  /\ gen' = [gen EXCEPT !.pc = "resolve", !.t = @ + 1]
  /\ UNCHANGED <<inputs, disk, mem, invalid, touched, steady>>

\* generate_for_backend has returned: written.push, with the main path only.
\* What rustfmt and the validators found counts with --validate-output.
RecordWritten ==
  /\ At("record")
  /\ \E found \in BOOLEAN :
       invalid' = (invalid \/ (gen.flags.validate /\ found))
  /\ written' = Append(written, MainPath(target))
  /\ gen' = [gen EXCEPT !.pc = "options", !.t = @ + 1]
  /\ UNCHANGED <<inputs, disk, mem, touched, steady>>

GenerateStep ==
  \/ LoadCatalog \/ AnalyzeQueries \/ ResolveTarget \/ CheckPaths
  \/ FingerprintOptions \/ BlockDone
  \/ RenderFails \/ RenderAndOpen \/ FinishMain \/ WriteFails
  \/ SkipRbs \/ OpenRbs \/ OpenRbsFails \/ FinishRbs \/ RecordWritten

\* Ctrl-C, or the machine going down.
Killed ==
  /\ ~At("idle")
  /\ Exit("killed")
  /\ mem' = NoMemory
  /\ UNCHANGED <<inputs, disk, written, invalid, touched, steady>>

-----------------------------------------------------------------------------
(* The user. *)

Edited(newInputs) ==
  /\ newInputs # inputs
  /\ inputs' = newInputs
  /\ steady' = FALSE
  /\ UNCHANGED <<disk, genVars>>

EditConfig(c) == Edited([inputs EXCEPT !.config = c])
EditSchema(f, c) == Edited([inputs EXCEPT !.schema[f] = c])
EditQueries(f, c) == Edited([inputs EXCEPT !.queries[f] = c])
EditOverlay(f, c) == Edited([inputs EXCEPT !.overlay[f] = c])

Edit ==
  \/ \E c \in Configs \cup {Unreadable} : EditConfig(c)
  \/ \E f \in SchemaFiles, c \in SchemaContents : EditSchema(f, c)
  \/ \E f \in QueryFiles, c \in QueryContents : EditQueries(f, c)
  \/ \E f \in OverlayFiles, c \in OverlayContents : EditOverlay(f, c)

-----------------------------------------------------------------------------
Init ==
  /\ inputs \in Inputs
  /\ disk \in [Locations -> {AbsentFile} \cup Foreign]
  /\ gen = Idle
  /\ mem = NoMemory
  /\ written = <<>>
  /\ invalid = FALSE
  /\ touched = {}
  /\ steady = FALSE

Next ==
  \/ \E flags \in Flags : StartGenerate(flags)
  \/ GenerateStep
  \/ Killed
  \/ Edit

Spec == Init /\ [][Next]_vars

\* The process runs until it exits unless it is killed.  Nothing makes the
\* user start it, edit anything or kill it.
FairSpec == Spec /\ WF_vars(GenerateStep)

-----------------------------------------------------------------------------
(* Type invariant. *)

Memory == [shape : Shapes \cup {None}, schemaTag : Shapes \cup {None},
           queries : SUBSET Query, queriesTag : QueryTags,
           overlays : Seq(Overlays \cup {None}),
           optionsTag : OptionTags \cup {None}]

Control == [pc : Phases, outcome : Outcomes, cfg : Configs \cup {None},
            flags : Flags \cup {None}, b : Nat, t : Nat]

\* Every variable holds a value of its kind.
TypeOK ==
  /\ inputs \in Inputs
  /\ disk \in [Locations -> FileStates]
  /\ gen \in Control
  /\ mem \in Memory
  /\ written \in Seq(Path)
  /\ invalid \in BOOLEAN
  /\ touched \in SUBSET Locations
  /\ steady \in BOOLEAN

-----------------------------------------------------------------------------
(* What a run remembers belongs to the block and the target it is at. *)

TargetPhases == WritePhases \ {"options"}

\* The indices of a run point into its configuration.
ControlOK ==
  /\ gen.pc # "idle" => /\ gen.cfg \in Configs
                         /\ gen.flags \in Flags
                         /\ gen.b \in DOMAIN gen.cfg.blocks
                         /\ gen.t \in 1..(Len(block.targets) + 1)
  /\ gen.pc \in {"catalog", "queries"} => gen.t = 1
  /\ gen.pc \in TargetPhases => gen.t \in DOMAIN block.targets
  /\ gen.pc \in WritePhases => PathsDistinct(block.targets)
  /\ gen.pc = "rbswrite" => EmitsRbs(target.backend)

\* From the moment each is read, the two fingerprints are those of the shape
\* and the queries in memory, and there is one overlay per resolved target.
MemoryOK ==
  /\ gen.pc = "catalog" => mem = NoMemory
  /\ gen.pc \in {"queries", "resolve"} \cup WritePhases =>
       mem.shape \in Shapes /\ mem.schemaTag = mem.shape
  /\ gen.pc \in {"resolve"} \cup WritePhases =>
       mem.queriesTag = QueriesFingerprint(mem.shape, mem.queries)
  /\ gen.pc = "queries" => mem.overlays = <<>>
  /\ gen.pc = "resolve" => Len(mem.overlays) = gen.t - 1
  /\ gen.pc \in WritePhases => Len(mem.overlays) = Len(block.targets)
  /\ gen.pc \in TargetPhases => mem.optionsTag \in OptionTags

\* A run never mixes what it read for one block or target into another.
RunConsistent == ControlOK /\ MemoryOK

-----------------------------------------------------------------------------
(* Safety. *)

\* Whatever is edited, fails or is killed, the header of every finished file
\* names the schema, the queries, the engine and the backend its body was
\* generated from: `scythe check' compares the header and never the body.
HeadersTell ==
  \A l \in Locations :
    Intact(disk[l]) => HeaderTells(disk[l].header, disk[l].body)

\* The inductive invariant behind TypeOK and HeadersTell.
IInv == TypeOK /\ RunConsistent /\ HeadersTell

OutputsOf(blk, n) == UNION {Outputs(blk.targets[i]) : i \in 1..n}

\* The outputs of the blocks before the current one.
EarlierBlocks ==
  UNION {OutputsOf(gen.cfg.blocks[i], Len(gen.cfg.blocks[i].targets)) :
           i \in 1..(gen.b - 1)}

EarlierTargets == OutputsOf(block, gen.t - 1)

\* No output of a block is opened before every target of the block resolved
\* and its paths were compared, and then in the order of the targets: a plan
\* that fails leaves the block's earlier outputs as they were.
WritesFollowPlan ==
  gen.pc # "idle" =>
    touched \subseteq EarlierBlocks \cup
      CASE gen.pc \in PlanPhases           -> {}
        [] gen.pc \in {"options", "render"} -> EarlierTargets
        [] OTHER                           -> OutputsOf(block, gen.t)

\* Within a block no target overwrites a file that an earlier target wrote
\* under the same spelling of its path, the RBS files included: the plan only
\* compares the main ones.
NoClobberSameSpelling ==
  [][gen.pc \in TargetPhases =>
       \A i \in 1..(gen.t - 1) :
         \A p \in ArtifactPaths(block.targets[i]) :
           disk'[Location(p)] # disk[Location(p)] =>
             p \notin ArtifactPaths(target)]_vars

\* No target overwrites an output the run wrote before, in whichever block and
\* under whichever spelling.
NoClobberInRun ==
  [][gen.pc \in WritePhases =>
       \A l \in EarlierBlocks \cup EarlierTargets : disk'[l] = disk[l]]_vars

Listed == {Location(written[i]) : i \in DOMAIN written}

\* At any point where the run may fail, the main outputs it has opened and
\* its warning would not list are those of the target under way.
WarningMissesOnlyCurrent ==
  /\ Listed \subseteq touched
  /\ gen.pc # "idle" =>
       \A l \in touched \ Listed :
         \/ l[2] = RBS
         \/ gen.pc \in TargetPhases /\ l = Location(MainPath(target))

\* A failed run's warning lists every output file the run finished writing.
WarningListsOutputs ==
  gen.outcome = "err" => {l \in touched : Intact(disk[l])} \subseteq Listed

\* What a target's files hold once a run on the given inputs is through.
FreshFile(blk, t, in) ==
  LET schema == in.schema[blk.schema]
      queries == in.queries[blk.queries].queries
      overlay == OverlayContent(t, in.overlay)
  IN GeneratedFile(
       HeaderOf(blk, t, SchemaFingerprint(schema),
                QueriesFingerprint(schema.shape, queries),
                OptionsFingerprint(t.options, overlay)),
       BodyOf(blk, t, schema.shape, queries, overlay))

AllTargets(cfg) ==
  UNION {{<<i, j>> : j \in DOMAIN cfg.blocks[i].targets} :
           i \in DOMAIN cfg.blocks}

TargetAt(cfg, x) == cfg.blocks[x[1]].targets[x[2]]

\* No two targets of the configuration share an output file.
Disjoint(cfg) ==
  \A x, y \in AllTargets(cfg) :
    x # y => Outputs(TargetAt(cfg, x)) \cap Outputs(TargetAt(cfg, y)) = {}

\* A run that exits with success, over inputs nobody changed under it, leaves
\* every target's files as a run from scratch on those inputs would,
\* whatever earlier runs were killed or failed on the way.
SuccessIsFresh ==
  /\ gen.outcome \in {"ok", "invalid"}
  /\ steady
  /\ Disjoint(inputs.config)
  => \A x \in AllTargets(inputs.config) :
       \A l \in Outputs(TargetAt(inputs.config, x)) :
         disk[l] = FreshFile(inputs.config.blocks[x[1]],
                             TargetAt(inputs.config, x), inputs)

\* The options field of a finished file's header names the overlay the body
\* was generated with.
OptionsHeadersTell ==
  \A l \in Locations :
    Intact(disk[l]) =>
      disk[l].header.options =
        OptionsFingerprint(disk[l].body.options, disk[l].body.overlay)

-----------------------------------------------------------------------------
(* Refinement. *)

OpenLocation ==
  CASE At("write")    -> Location(MainPath(target))
    [] At("rbswrite") -> Location(RbsPath(target))
    [] OTHER          -> None

Truthful(file) == HeaderTells(file.header, file.body)
Writable(file) == file.kind # "unreadable"

Store == INSTANCE ArtifactStore
           WITH Places <- Locations, Contents <- FileStates,
                Finished <- Intact, files <- disk, open <- OpenLocation

\* The runs of generate, with every edit, failure and kill, only ever do to
\* the output tree what ArtifactStore allows.
StoreSpec == Store!StoreSpec

-----------------------------------------------------------------------------
(* Liveness. *)

\* A run that starts ends, whatever the user edits meanwhile.
RunEnds == (gen.pc # "idle") ~> (gen.pc = "idle")

=============================================================================
