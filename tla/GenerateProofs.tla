--------------------------- MODULE GenerateProofs ---------------------------
(***************************************************************************)
(* Proofs about Generate.  First its inductive invariant, and from it that *)
(* every finished file's header tells what its body was generated from and *)
(* which clobbers the plan refuses.  Then, on top of it, what a run does   *)
(* to the output tree: it writes only what its plan accepted, its warning  *)
(* misses the target under way at most, its success means fresh files, it  *)
(* implements ArtifactStore, and a finished file names its options.        *)
(***************************************************************************)
EXTENDS Generate, FiniteSetTheorems, TLAPS

-----------------------------------------------------------------------------
(* The current block and target, and the file made from them. *)

\* A run that is not idle is at a block of a parsed configuration.
LEMMA BlockType ==
  ASSUME ControlOK, gen.pc # "idle"
  PROVE  gen.cfg \in Config /\ block \in Block
<1>1. gen.cfg \in Config /\ gen.b \in DOMAIN gen.cfg.blocks
  BY ConfigsAssumption DEF ControlOK
<1>2. gen.cfg.blocks \in Seq(Block)
  BY <1>1 DEF Config
<1> QED
  BY <1>1, <1>2 DEF block

\* A run that writes is at a target of its block.
LEMMA TargetType ==
  ASSUME ControlOK, gen.pc \in TargetPhases
  PROVE  block \in Block /\ target \in Target /\ gen.t \in DOMAIN block.targets
<1>1. gen.pc # "idle"
  BY DEF TargetPhases, WritePhases
<1>2. block \in Block
  BY <1>1, BlockType
<1>3. block.targets \in Seq(Target) /\ gen.t \in DOMAIN block.targets
  BY <1>2 DEF Block, ControlOK
<1> QED
  BY <1>2, <1>3 DEF target

\* The file a run is about to write is well formed and its header tells what
\* its body is.
LEMMA RunFileType ==
  ASSUME TypeOK, RunConsistent, gen.pc \in TargetPhases
  PROVE  /\ RunHeader \in Header
         /\ RunBody \in Body
         /\ RunFile \in FileStates
         /\ Intact(RunFile)
         /\ HeaderTells(RunFile.header, RunFile.body)
<1>1. block \in Block /\ target \in Target /\ gen.t \in DOMAIN block.targets
  BY TargetType DEF RunConsistent
<1>2. /\ mem \in Memory
      /\ mem.shape \in Shapes
      /\ mem.schemaTag = mem.shape
      /\ mem.queriesTag = QueriesFingerprint(mem.shape, mem.queries)
      /\ Len(mem.overlays) = Len(block.targets)
      /\ mem.optionsTag \in OptionTags
  BY DEF TypeOK, RunConsistent, MemoryOK, TargetPhases
<1>3. mem.overlays[gen.t] \in Overlays \cup {None}
  BY <1>1, <1>2 DEF Memory, Block
<1>4. RunHeader \in Header
  BY <1>1, <1>2, VersionAssumption
  DEF RunHeader, HeaderOf, Header, Memory, Target, Block
<1>5. RunBody \in Body
  BY <1>1, <1>2, <1>3 DEF RunBody, BodyOf, Body, Memory, Target, Block
<1>6. RunFile \in FileStates
  BY <1>4, <1>5 DEF RunFile, GeneratedFile, FileStates
<1>7. Intact(RunFile)
  BY <1>5, DistinctAssumption
  DEF RunFile, GeneratedFile, Intact, RunHeader, HeaderOf
<1>8. HeaderTells(RunFile.header, RunFile.body)
  BY <1>2
  DEF RunFile, GeneratedFile, HeaderTells, RunHeader, HeaderOf, RunBody, BodyOf
<1> QED
  BY <1>4, <1>5, <1>6, <1>7, <1>8

\* A torn file is well formed and never taken for a finished one.
LEMMA TornFileType ==
  ASSUME NEW h \in Header, NEW b \in Body,
         NEW torn \in TornFiles(GeneratedFile(h, b))
  PROVE  torn \in FileStates /\ ~Intact(torn)
  BY DEF TornFiles, GeneratedFile, HeaderlessFile, FileStates, Intact

\* The outputs of a target are locations.
LEMMA OutputLocations ==
  ASSUME NEW t \in Target
  PROVE  /\ MainPath(t) \in Path
         /\ Location(MainPath(t)) \in Locations
         /\ EmitsRbs(t.backend) => Location(RbsPath(t)) \in Locations
<1>1. t.dir \in Dirs /\ t.backend \in Backends
  BY DEF Target
<1>2. MainPath(t) \in Path
  BY <1>1 DEF MainPath, Path, FileNames
<1>3. Location(MainPath(t)) \in Locations
  BY <1>1, PathsAssumption DEF MainPath, Location, Locations, FileNames
<1>4. ASSUME EmitsRbs(t.backend)
      PROVE  Location(RbsPath(t)) \in Locations
  BY <1>1, <1>4, PathsAssumption DEF RbsPath, Location, Locations, FileNames
<1> QED
  BY <1>2, <1>3, <1>4

-----------------------------------------------------------------------------
(* The inductive invariant. *)

\* Nothing this binary has finished is on disk before its first run.
LEMMA InitIInv == Init => IInv
<1> SUFFICES ASSUME Init PROVE IInv
  OBVIOUS
<1>1. \A f \in {AbsentFile} \cup Foreign : f \in FileStates /\ ~Intact(f)
  BY ForeignAssumption DEF AbsentFile, FileStates, Intact
<1>2. disk \in [Locations -> FileStates]
  BY <1>1 DEF Init
<1>3. gen \in Control
  BY DEF Init, Idle, Control, Phases, Outcomes
<1>4. mem \in Memory
  BY DEF Init, NoMemory, Memory, QueryTags
<1>5. written \in Seq(Path) /\ touched \in SUBSET Locations
  BY DEF Init
<1>6. inputs \in Inputs /\ invalid \in BOOLEAN /\ steady \in BOOLEAN
  BY DEF Init
<1>7. TypeOK
  BY <1>2, <1>3, <1>4, <1>5, <1>6 DEF TypeOK
<1>8. ControlOK /\ MemoryOK
  BY DEF Init, Idle, ControlOK, MemoryOK, TargetPhases, WritePhases
<1>9. HeadersTell
  BY <1>1 DEF Init, HeadersTell
<1> QED
  BY <1>7, <1>8, <1>9 DEF IInv, RunConsistent

\* A run that ends keeps the invariant, whatever its outcome.
LEMMA ExitIInv ==
  ASSUME IInv, NEW outcome \in Outcomes, Exit(outcome), mem' = NoMemory,
         UNCHANGED <<inputs, disk, written, touched>>,
         invalid' \in BOOLEAN, steady' \in BOOLEAN
  PROVE  IInv'
<1>1. gen' \in Control /\ gen'.pc = "idle"
  BY DEF Exit, Idle, Control, Phases
<1>2. mem' \in Memory
  BY DEF NoMemory, Memory, QueryTags
<1>3. TypeOK'
  BY <1>1, <1>2 DEF IInv, TypeOK
<1>4. ControlOK' /\ MemoryOK'
  BY <1>1 DEF ControlOK, MemoryOK, TargetPhases, WritePhases
<1>5. HeadersTell'
  BY DEF IInv, HeadersTell
<1> QED
  BY <1>3, <1>4, <1>5 DEF IInv, RunConsistent

\* A step that fails the run.
LEMMA FailIInv ==
  ASSUME IInv, Fail, UNCHANGED disk
  PROVE  IInv'
  BY ExitIInv DEF Fail, Outcomes, IInv, TypeOK

\* What a step that only reads the inputs has to show.
LEMMA ReadIInv ==
  ASSUME IInv, UNCHANGED <<inputs, disk, written, invalid, touched, steady>>,
         gen' \in Control, mem' \in Memory, RunConsistent'
  PROVE  IInv'
<1>1. TypeOK'
  BY DEF IInv, TypeOK
<1>2. HeadersTell'
  BY DEF IInv, HeadersTell
<1> QED
  BY <1>1, <1>2 DEF IInv

\* The run begins with nothing read and nothing written.
LEMMA StartIInv ==
  ASSUME IInv, NEW flags \in Flags, StartGenerate(flags)
  PROVE  IInv'
<1>1. TypeOK /\ HeadersTell
  BY DEF IInv
<1>2. mem' = NoMemory /\ mem' \in Memory
  BY DEF StartGenerate, NoMemory, Memory, QueryTags
<1>3. gen' \in Control
  BY <1>1 DEF StartGenerate, Exit, Idle, Control, Phases, PlanPhases, Outcomes,
              TypeOK, Inputs
<1>4. TypeOK'
  <2>1. written' \in Seq(Path) /\ touched' \in SUBSET Locations
    BY DEF StartGenerate
  <2>2. invalid' \in BOOLEAN /\ steady' \in BOOLEAN
    BY DEF StartGenerate
  <2>3. inputs' \in Inputs /\ disk' \in [Locations -> FileStates]
    BY <1>1 DEF StartGenerate, TypeOK
  <2> QED
    BY <1>2, <1>3, <2>1, <2>2, <2>3 DEF TypeOK
<1>5. ControlOK'
  <2>1. CASE gen'.pc = "idle"
    BY <2>1 DEF ControlOK, TargetPhases, WritePhases
  <2>2. CASE gen'.pc # "idle"
    <3>1. /\ gen'.pc = "catalog" /\ gen'.cfg = inputs.config
          /\ gen'.flags = flags /\ gen'.b = 1 /\ gen'.t = 1
          /\ inputs.config \in Configs /\ inputs.config.blocks # <<>>
      BY <1>1, <2>2 DEF StartGenerate, Exit, Idle, TypeOK, Inputs
    <3>2. inputs.config.blocks \in Seq(Block)
      BY <3>1, ConfigsAssumption DEF Config
    <3>3. 1 \in DOMAIN inputs.config.blocks
      BY <3>1, <3>2
    <3>4. Len(inputs.config.blocks[1].targets) \in Nat
      BY <3>2, <3>3 DEF Block
    <3> QED
      BY <3>1, <3>3, <3>4 DEF ControlOK, block, TargetPhases, WritePhases
  <2> QED
    BY <2>1, <2>2
<1>6. MemoryOK'
  <2>1. gen'.pc \in {"idle", "catalog"}
    BY DEF StartGenerate, Exit, Idle
  <2> QED
    BY <1>2, <2>1 DEF MemoryOK, TargetPhases, WritePhases
<1>7. HeadersTell'
  BY <1>1 DEF StartGenerate, HeadersTell
<1> QED
  BY <1>4, <1>5, <1>6, <1>7 DEF IInv, RunConsistent

\* Planning: each step of it reads one input into memory or fails.
LEMMA LoadCatalogIInv ==
  ASSUME IInv, LoadCatalog
  PROVE  IInv'
<1>1. CASE Fail
  BY <1>1, FailIInv DEF LoadCatalog
<1>2. CASE ~Fail
  <2> DEFINE schema == inputs.schema[block.schema]
  <2>1. /\ gen.pc = "catalog" /\ gen' = [gen EXCEPT !.pc = "queries"]
        /\ mem' = [mem EXCEPT !.shape = schema.shape, !.schemaTag = schema.shape]
        /\ UNCHANGED <<inputs, disk, written, invalid, touched, steady>>
    BY <1>2 DEF LoadCatalog, At, Goto, SchemaFingerprint
  <2>2. block \in Block
    BY <2>1, BlockType DEF IInv, RunConsistent
  <2>3. schema.shape \in Shapes
    BY <2>2, ContentsAssumption DEF IInv, TypeOK, Inputs, Block, Schema
  <2>4. gen \in Control /\ mem \in Memory /\ mem = NoMemory /\ gen.t = 1
    BY <2>1 DEF IInv, TypeOK, RunConsistent, MemoryOK, ControlOK
  <2>5. gen' \in Control
    BY <2>1, <2>4 DEF Control, Phases, PlanPhases
  <2>6. mem' \in Memory
    BY <2>1, <2>3, <2>4 DEF Memory
  <2>7. ControlOK'
    BY <2>1, <2>4 DEF IInv, RunConsistent, ControlOK, Control, block,
                      TargetPhases, WritePhases
  <2>8. mem'.shape = schema.shape /\ mem'.schemaTag = schema.shape
          /\ mem'.overlays = <<>> /\ gen'.pc = "queries"
    BY <2>1, <2>4 DEF Memory, NoMemory, Control
  <2>9. MemoryOK'
    BY <2>3, <2>8 DEF MemoryOK, TargetPhases, WritePhases
  <2> QED
    BY <2>1, <2>5, <2>6, <2>7, <2>9, ReadIInv DEF RunConsistent
<1> QED
  BY <1>1, <1>2

\* The tag stored with the queries is well formed.
LEMMA QueriesTagType ==
  ASSUME NEW s \in Shapes, NEW Q \in SUBSET Query
  PROVE  QueriesFingerprint(s, Q) \in QueryTags
<1> DEFINE line(q) == <<q.name, Signature(s, q)>>
<1> DEFINE count(q) == Cardinality({r \in Q : line(r) = line(q)})
<1>1. ASSUME NEW q \in Q PROVE line(q) \in Names \X Signatures
  BY SignatureAssumption DEF Query
<1>2. ASSUME NEW q \in Q PROVE count(q) \in Nat
  <2>1. {r \in Q : line(r) = line(q)} \subseteq Query
    OBVIOUS
  <2>2. IsFiniteSet({r \in Q : line(r) = line(q)})
    BY <2>1, ContentsAssumption, FS_Subset
  <2> QED
    BY <2>2, FS_CardinalityType
<1> HIDE DEF line, count
<1>3. {<<line(q), count(q)>> : q \in Q} \in QueryTags
  BY <1>1, <1>2 DEF QueryTags
<1> QED
  BY <1>3 DEF QueriesFingerprint, line, count

LEMMA AnalyzeQueriesIInv ==
  ASSUME IInv, AnalyzeQueries
  PROVE  IInv'
<1>1. CASE Fail
  BY <1>1, FailIInv DEF AnalyzeQueries
<1>2. CASE ~Fail
  <2> DEFINE content == inputs.queries[block.queries]
  <2> DEFINE tag == QueriesFingerprint(mem.shape, content.queries)
  <2>1. /\ gen.pc = "queries" /\ gen' = [gen EXCEPT !.pc = "resolve"]
        /\ mem' = [mem EXCEPT !.queries = content.queries, !.queriesTag = tag]
        /\ UNCHANGED <<inputs, disk, written, invalid, touched, steady>>
    BY <1>2 DEF AnalyzeQueries, At, Goto
  <2>2. block \in Block
    BY <2>1, BlockType DEF IInv, RunConsistent
  <2>3. content.queries \in SUBSET Query
    BY <2>2, ContentsAssumption DEF IInv, TypeOK, Inputs, Block, QueryFile
  <2>4. /\ gen \in Control /\ mem \in Memory /\ gen.t = 1
        /\ mem.shape \in Shapes /\ mem.schemaTag = mem.shape
        /\ mem.overlays = <<>>
    BY <2>1 DEF IInv, TypeOK, RunConsistent, MemoryOK, ControlOK
  <2>5. tag \in QueryTags
    BY <2>3, <2>4, QueriesTagType
  <2>6. gen' \in Control
    BY <2>1, <2>4 DEF Control, Phases, PlanPhases
  <2>7. mem' \in Memory
    BY <2>1, <2>3, <2>4, <2>5 DEF Memory
  <2>8. ControlOK'
    BY <2>1, <2>4 DEF IInv, RunConsistent, ControlOK, Control, block,
                      TargetPhases, WritePhases
  <2>9. /\ mem'.shape = mem.shape /\ mem'.schemaTag = mem.shape
        /\ mem'.queries = content.queries /\ mem'.queriesTag = tag
        /\ Len(mem'.overlays) = 0
        /\ gen'.pc = "resolve" /\ gen'.t = 1
    BY <2>1, <2>4 DEF Memory, Control
  <2>10. MemoryOK'
    BY <2>4, <2>9 DEF MemoryOK, TargetPhases, WritePhases
  <2> QED
    BY <2>1, <2>6, <2>7, <2>8, <2>10, ReadIInv DEF RunConsistent
<1> QED
  BY <1>1, <1>2

LEMMA ResolveTargetIInv ==
  ASSUME IInv, ResolveTarget
  PROVE  IInv'
<1>1. CASE Fail
  BY <1>1, FailIInv DEF ResolveTarget
<1>2. CASE ~Fail
  <2> DEFINE overlay == OverlayContent(target, inputs.overlay)
  <2>1. /\ gen.pc = "resolve" /\ gen' = [gen EXCEPT !.t = @ + 1]
        /\ gen.t <= Len(block.targets)
        /\ TargetResolves(block, target, inputs.overlay, gen.flags.allow)
        /\ mem' = [mem EXCEPT !.overlays = Append(@, overlay)]
        /\ UNCHANGED <<inputs, disk, written, invalid, touched, steady>>
    BY <1>2 DEF ResolveTarget, At
  <2>2. block \in Block
    BY <2>1, BlockType DEF IInv, RunConsistent
  <2>3. overlay \in Overlays \cup {None}
    BY <2>1 DEF TargetResolves, OverlayApplies, OverlayContent
  <2>4. /\ gen \in Control /\ mem \in Memory
        /\ mem.shape \in Shapes /\ mem.schemaTag = mem.shape
        /\ mem.queriesTag = QueriesFingerprint(mem.shape, mem.queries)
        /\ Len(mem.overlays) = gen.t - 1
    BY <2>1 DEF IInv, TypeOK, RunConsistent, MemoryOK
  <2>5. gen' \in Control
    BY <2>1, <2>4 DEF Control
  <2>6. mem.overlays \in Seq(Overlays \cup {None})
    BY <2>4 DEF Memory
  <2>7. mem' \in Memory
    <3>1. Append(mem.overlays, overlay) \in Seq(Overlays \cup {None})
      BY <2>3, <2>6
    <3> QED
      BY <2>1, <2>4, <3>1 DEF Memory
  <2>8. /\ gen'.pc = "resolve" /\ gen'.cfg = gen.cfg /\ gen'.flags = gen.flags
        /\ gen'.b = gen.b /\ gen'.t = gen.t + 1
    BY <2>1, <2>4 DEF Control
  <2>9. /\ gen.cfg \in Configs /\ gen.flags \in Flags
        /\ gen.b \in DOMAIN gen.cfg.blocks
        /\ gen.t \in 1..(Len(block.targets) + 1)
    BY <2>1 DEF IInv, RunConsistent, ControlOK
  <2>10. ControlOK'
    <3>1. block' = block
      BY <2>8 DEF block
    <3>2. Len(block.targets) \in Nat
      BY <2>2 DEF Block
    <3> QED
      BY <2>1, <2>8, <2>9, <3>1, <3>2
      DEF ControlOK, TargetPhases, WritePhases
  <2>11. /\ mem'.shape = mem.shape /\ mem'.schemaTag = mem.schemaTag
         /\ mem'.queries = mem.queries /\ mem'.queriesTag = mem.queriesTag
         /\ Len(mem'.overlays) = Len(mem.overlays) + 1
    <3>1. mem'.overlays = Append(mem.overlays, overlay)
      BY <2>1, <2>4 DEF Memory
    <3>2. Len(Append(mem.overlays, overlay)) = Len(mem.overlays) + 1
      BY <2>3, <2>6
    <3> QED
      BY <2>1, <2>4, <3>1, <3>2 DEF Memory
  <2>12. MemoryOK'
    BY <2>4, <2>8, <2>9, <2>11 DEF MemoryOK, TargetPhases, WritePhases
  <2> QED
    BY <2>1, <2>5, <2>7, <2>10, <2>12, ReadIInv DEF RunConsistent
<1> QED
  BY <1>1, <1>2

LEMMA CheckPathsIInv ==
  ASSUME IInv, CheckPaths
  PROVE  IInv'
<1>1. CASE Fail
  BY <1>1, FailIInv DEF CheckPaths
<1>2. CASE ~Fail
  <2>1. /\ gen.pc = "resolve" /\ gen.t > Len(block.targets)
        /\ PathsDistinct(block.targets)
        /\ gen' = [gen EXCEPT !.pc = "options", !.t = 1]
        /\ UNCHANGED <<inputs, disk, mem, written, invalid, touched, steady>>
    BY <1>2 DEF CheckPaths, At
  <2>2. /\ gen \in Control /\ mem \in Memory
        /\ Len(mem.overlays) = gen.t - 1
        /\ gen.t \in 1..(Len(block.targets) + 1)
    BY <2>1 DEF IInv, TypeOK, RunConsistent, MemoryOK, ControlOK
  <2>3. Len(block.targets) \in Nat
    BY <2>1, BlockType DEF IInv, RunConsistent, Block
  <2>4. Len(mem.overlays) = Len(block.targets)
    BY <2>1, <2>2, <2>3
  <2>5. /\ gen' \in Control /\ gen'.pc = "options" /\ gen'.t = 1
        /\ gen'.cfg = gen.cfg /\ gen'.flags = gen.flags /\ gen'.b = gen.b
    BY <2>1, <2>2 DEF Control, Phases, WritePhases
  <2>6. block' = block
    BY <2>5 DEF block
  <2>7. ControlOK'
    BY <2>1, <2>3, <2>5, <2>6
    DEF IInv, RunConsistent, ControlOK, TargetPhases, WritePhases
  <2>8. MemoryOK'
    BY <2>1, <2>4, <2>5, <2>6
    DEF IInv, RunConsistent, MemoryOK, TargetPhases, WritePhases
  <2> QED
    BY <2>1, <2>2, <2>5, <2>7, <2>8, ReadIInv DEF RunConsistent
<1> QED
  BY <1>1, <1>2

\* Steps from one phase of a target to another, and the run at that target.
LEMMA GotoConsistent ==
  ASSUME TypeOK, RunConsistent, gen.pc \in WritePhases,
         gen.t \in DOMAIN block.targets,
         NEW next \in TargetPhases, Goto(next),
         next = "rbswrite" => EmitsRbs(target.backend),
         mem'.shape = mem.shape, mem'.schemaTag = mem.schemaTag,
         mem'.queries = mem.queries, mem'.queriesTag = mem.queriesTag,
         mem'.overlays = mem.overlays, mem'.optionsTag \in OptionTags
  PROVE  gen' \in Control /\ RunConsistent'
<1>1. /\ gen' \in Control /\ gen'.pc = next /\ gen'.t = gen.t
      /\ gen'.cfg = gen.cfg /\ gen'.flags = gen.flags /\ gen'.b = gen.b
  BY DEF TypeOK, Control, Goto, Phases, TargetPhases
<1>2. block' = block /\ target' = target
  BY <1>1 DEF block, target
<1>3. ControlOK'
  BY <1>1, <1>2 DEF RunConsistent, ControlOK, TargetPhases, WritePhases
<1>4. MemoryOK'
  BY <1>1, <1>2 DEF RunConsistent, MemoryOK, TargetPhases, WritePhases
<1> QED
  BY <1>1, <1>3, <1>4 DEF RunConsistent

LEMMA FingerprintOptionsIInv ==
  ASSUME IInv, FingerprintOptions
  PROVE  IInv'
<1>1. CASE Fail
  BY <1>1, FailIInv DEF FingerprintOptions
<1>2. CASE ~Fail
  <2> DEFINE content == OverlayContent(target, inputs.overlay)
  <2> DEFINE tag == OptionsFingerprint(target.options, content)
  <2>1. /\ gen.pc = "options" /\ gen.t <= Len(block.targets) /\ Goto("render")
        /\ mem' = [mem EXCEPT !.optionsTag = tag]
        /\ UNCHANGED <<inputs, disk, written, invalid, touched, steady>>
    BY <1>2 DEF FingerprintOptions, At
  <2>2. block \in Block /\ gen.t \in 1..(Len(block.targets) + 1)
    BY <2>1, BlockType DEF IInv, RunConsistent, ControlOK
  <2>3. block.targets \in Seq(Target) /\ gen.t \in DOMAIN block.targets
    BY <2>1, <2>2 DEF Block
  <2>4. target \in Target
    BY <2>3 DEF target
  <2>5. content \in OverlayContents \cup {None}
    BY <2>4 DEF OverlayContent, IInv, TypeOK, Inputs, Target
  <2>6. tag \in OptionTags
    BY <2>4, <2>5 DEF OptionsFingerprint, OptionTags, Target
  <2>7. mem \in Memory
    BY DEF IInv, TypeOK
  <2>8. mem' \in Memory /\ mem'.optionsTag = tag
    BY <2>1, <2>6, <2>7 DEF Memory
  <2>9. /\ mem'.shape = mem.shape /\ mem'.schemaTag = mem.schemaTag
        /\ mem'.queries = mem.queries /\ mem'.queriesTag = mem.queriesTag
        /\ mem'.overlays = mem.overlays
    BY <2>1, <2>7 DEF Memory
  <2>10. gen.pc \in WritePhases /\ "render" \in TargetPhases
    BY <2>1 DEF WritePhases, TargetPhases
  <2>11. gen' \in Control /\ RunConsistent'
    BY <2>1, <2>3, <2>6, <2>8, <2>9, <2>10, GotoConsistent DEF IInv
  <2> QED
    BY <2>1, <2>8, <2>11, ReadIInv
<1> QED
  BY <1>1, <1>2

LEMMA BlockDoneIInv ==
  ASSUME IInv, BlockDone
  PROVE  IInv'
<1>1. /\ gen.pc = "options"
      /\ NextBlock
      /\ UNCHANGED <<inputs, disk, written, invalid, touched, steady>>
  BY DEF BlockDone, At
<1>2. CASE Finish
  BY <1>1, <1>2, ExitIInv DEF Finish, Outcomes, IInv, TypeOK
<1>3. CASE gen.b < Len(gen.cfg.blocks)
  <2>1. /\ gen' = [gen EXCEPT !.pc = "catalog", !.b = gen.b + 1, !.t = 1]
        /\ mem' = NoMemory
    BY <1>1, <1>3 DEF NextBlock, BeginBlock
  <2>2. gen \in Control /\ gen.cfg \in Config
    BY <1>1, BlockType DEF IInv, TypeOK, RunConsistent
  <2>3. /\ gen' \in Control /\ gen'.pc = "catalog" /\ gen'.t = 1
        /\ gen'.cfg = gen.cfg /\ gen'.flags = gen.flags /\ gen'.b = gen.b + 1
    <3>1. gen.b \in Nat /\ gen.b + 1 \in Nat /\ "catalog" \in Phases
      BY <2>2 DEF Control, Phases, PlanPhases
    <3> QED
      BY <2>1, <2>2, <3>1 DEF Control
  <2>4. gen.b + 1 \in DOMAIN gen.cfg.blocks
    BY <1>3, <2>2 DEF Control, Config
  <2>5. gen.cfg.blocks[gen.b + 1] \in Block
    BY <2>2, <2>4 DEF Config
  <2>6. block' \in Block
    BY <2>3, <2>5 DEF block
  <2>7. ControlOK'
    BY <1>1, <2>3, <2>4, <2>6
    DEF IInv, RunConsistent, ControlOK, Block, TargetPhases, WritePhases
  <2>8. MemoryOK'
    BY <2>1, <2>3 DEF MemoryOK, TargetPhases, WritePhases
  <2>9. mem' \in Memory
    BY <2>1 DEF NoMemory, Memory, QueryTags
  <2> QED
    BY <1>1, <2>3, <2>7, <2>8, <2>9, ReadIInv DEF RunConsistent
<1> QED
  BY <1>1, <1>2, <1>3 DEF NextBlock

\* Writing: what the steps that change one file have to show.
LEMMA WriteIInv ==
  ASSUME IInv, NEW l \in Locations, NEW file \in FileStates,
         disk' = [disk EXCEPT ![l] = file],
         Intact(file) => HeaderTells(file.header, file.body),
         touched' \in SUBSET Locations,
         UNCHANGED <<inputs, mem, written, invalid, steady>>,
         gen' \in Control, RunConsistent'
  PROVE  IInv'
<1>1. TypeOK'
  <2>1. disk' \in [Locations -> FileStates]
    BY DEF IInv, TypeOK
  <2> QED
    BY <2>1 DEF IInv, TypeOK
<1>2. HeadersTell'
  <2> SUFFICES ASSUME NEW k \in Locations, Intact(disk'[k])
               PROVE  HeaderTells(disk'[k].header, disk'[k].body)
    BY DEF HeadersTell
  <2>1. CASE k = l
    BY <2>1 DEF IInv, TypeOK
  <2>2. CASE k # l
    BY <2>2 DEF IInv, TypeOK, HeadersTell
  <2> QED
    BY <2>1, <2>2
<1> QED
  BY <1>1, <1>2 DEF IInv

LEMMA OpenIInv ==
  ASSUME IInv, gen.pc \in TargetPhases, NEW next \in TargetPhases,
         next = "rbswrite" => EmitsRbs(target.backend),
         NEW l \in Locations, Open(l, next)
  PROVE  IInv'
<1>1. PICK torn \in TornFiles(RunFile) : disk' = [disk EXCEPT ![l] = torn]
  BY DEF Open
<1>2. TypeOK /\ RunConsistent /\ gen.t \in DOMAIN block.targets
  BY TargetType DEF IInv, RunConsistent
<1>3. RunHeader \in Header /\ RunBody \in Body
  BY <1>2, RunFileType
<1>4. torn \in FileStates /\ ~Intact(torn)
  BY <1>1, <1>3, TornFileType DEF RunFile
<1>5. mem.optionsTag \in OptionTags
  BY <1>2 DEF RunConsistent, MemoryOK
<1>6. gen.pc \in WritePhases
  BY DEF TargetPhases
<1>7. /\ Goto(next) /\ touched' = touched \cup {l}
      /\ UNCHANGED <<inputs, mem, written, invalid, steady>>
  BY DEF Open
<1>8. gen' \in Control /\ RunConsistent'
  BY <1>2, <1>5, <1>6, <1>7, GotoConsistent
<1>9. touched' \in SUBSET Locations
  BY <1>2, <1>7 DEF TypeOK
<1> QED
  BY <1>1, <1>4, <1>7, <1>8, <1>9, WriteIInv

LEMMA CloseIInv ==
  ASSUME IInv, gen.pc \in TargetPhases,
         NEW next \in TargetPhases \ {"rbswrite"},
         NEW l \in Locations, Close(l, next)
  PROVE  IInv'
<1>1. /\ disk' = [disk EXCEPT ![l] = RunFile] /\ Goto(next)
      /\ UNCHANGED <<inputs, mem, written, invalid, touched, steady>>
  BY DEF Close
<1>2. TypeOK /\ RunConsistent /\ gen.t \in DOMAIN block.targets
  BY TargetType DEF IInv, RunConsistent
<1>3. RunFile \in FileStates /\ HeaderTells(RunFile.header, RunFile.body)
  BY <1>2, RunFileType
<1>4. mem.optionsTag \in OptionTags /\ gen.pc \in WritePhases
  BY <1>2 DEF RunConsistent, MemoryOK, TargetPhases
<1>5. gen' \in Control /\ RunConsistent'
  BY <1>1, <1>2, <1>4, GotoConsistent
<1>6. touched' \in SUBSET Locations
  BY <1>1, <1>2 DEF TypeOK
<1> QED
  BY <1>1, <1>3, <1>5, <1>6, WriteIInv

\* The two files of a target.
LEMMA MainFileIInv ==
  ASSUME IInv, RenderAndOpen \/ FinishMain
  PROVE  IInv'
<1>1. gen.pc \in {"render", "write"}
  BY DEF RenderAndOpen, FinishMain, At
<1>2. /\ gen.pc \in TargetPhases
      /\ "write" \in TargetPhases /\ "rbs" \in TargetPhases
  BY <1>1 DEF TargetPhases, WritePhases
<1>3. Location(MainPath(target)) \in Locations
  BY <1>2, TargetType, OutputLocations DEF IInv, RunConsistent
<1> QED
  BY <1>2, <1>3, OpenIInv, CloseIInv DEF RenderAndOpen, FinishMain

LEMMA RbsFileIInv ==
  ASSUME IInv, OpenRbs \/ FinishRbs
  PROVE  IInv'
<1>1. gen.pc \in {"rbs", "rbswrite"}
  BY DEF OpenRbs, FinishRbs, At
<1>2. /\ gen.pc \in TargetPhases
      /\ "rbswrite" \in TargetPhases /\ "record" \in TargetPhases
  BY <1>1 DEF TargetPhases, WritePhases
<1>3. EmitsRbs(target.backend)
  BY DEF OpenRbs, FinishRbs, At, IInv, RunConsistent, ControlOK
<1>4. Location(RbsPath(target)) \in Locations
  BY <1>2, <1>3, TargetType, OutputLocations DEF IInv, RunConsistent
<1> QED
  BY <1>2, <1>3, <1>4, OpenIInv, CloseIInv DEF OpenRbs, FinishRbs

LEMMA SkipRbsIInv ==
  ASSUME IInv, SkipRbs
  PROVE  IInv'
<1>1. /\ gen.pc = "rbs" /\ Goto("record")
      /\ UNCHANGED <<inputs, disk, mem, written, invalid, touched, steady>>
  BY DEF SkipRbs, At
<1>2. gen.pc \in TargetPhases /\ gen.pc \in WritePhases /\ "record" \in TargetPhases
  BY <1>1 DEF TargetPhases, WritePhases
<1>3. TypeOK /\ RunConsistent /\ gen.t \in DOMAIN block.targets
  BY <1>2, TargetType DEF IInv, RunConsistent
<1>4. mem \in Memory /\ mem.optionsTag \in OptionTags
  BY <1>2, <1>3 DEF RunConsistent, MemoryOK, TypeOK
<1>5. gen' \in Control /\ RunConsistent'
  BY <1>1, <1>2, <1>3, <1>4, GotoConsistent
<1> QED
  BY <1>1, <1>4, <1>5, ReadIInv

LEMMA RecordWrittenIInv ==
  ASSUME IInv, RecordWritten
  PROVE  IInv'
<1>1. /\ gen.pc = "record" /\ gen' = [gen EXCEPT !.pc = "options", !.t = @ + 1]
      /\ written' = Append(written, MainPath(target))
      /\ UNCHANGED <<inputs, disk, mem, touched, steady>>
  BY DEF RecordWritten, At
<1>2. gen.pc \in TargetPhases
  BY <1>1 DEF TargetPhases, WritePhases
<1>3. block \in Block /\ target \in Target /\ gen.t \in DOMAIN block.targets
  BY <1>2, TargetType DEF IInv, RunConsistent
<1>4. written' \in Seq(Path)
  <2>1. MainPath(target) \in Path /\ written \in Seq(Path)
    BY <1>3, OutputLocations DEF IInv, TypeOK
  <2> QED
    BY <1>1, <2>1
<1>5. invalid' \in BOOLEAN
  BY DEF RecordWritten, IInv, TypeOK
<1>6. /\ gen' \in Control /\ gen'.pc = "options" /\ gen'.t = gen.t + 1
      /\ gen'.cfg = gen.cfg /\ gen'.flags = gen.flags /\ gen'.b = gen.b
  <2>1. gen \in Control /\ gen.t + 1 \in Nat /\ "options" \in Phases
    BY DEF IInv, TypeOK, Control, Phases, WritePhases
  <2> QED
    BY <1>1, <2>1 DEF Control
<1>7. block' = block
  BY <1>6 DEF block
<1>8. gen'.t \in 1..(Len(block.targets) + 1)
  BY <1>3, <1>6 DEF Block
<1>9. ControlOK'
  BY <1>1, <1>6, <1>7, <1>8
  DEF IInv, RunConsistent, ControlOK, TargetPhases, WritePhases
<1>10. MemoryOK'
  BY <1>1, <1>6, <1>7
  DEF IInv, RunConsistent, MemoryOK, TargetPhases, WritePhases
<1>11. TypeOK'
  BY <1>1, <1>4, <1>5, <1>6 DEF IInv, TypeOK
<1>12. HeadersTell'
  BY <1>1 DEF IInv, HeadersTell
<1> QED
  BY <1>9, <1>10, <1>11, <1>12 DEF IInv, RunConsistent

\* The user's edits touch the inputs only.
LEMMA EditIInv ==
  ASSUME IInv, Edit
  PROVE  IInv'
<1>1. inputs' \in Inputs
  <2>1. inputs \in Inputs
    BY DEF IInv, TypeOK
  <2>2. ASSUME NEW c \in Configs \cup {Unreadable}, EditConfig(c)
        PROVE  inputs' \in Inputs
    BY <2>1, <2>2 DEF EditConfig, Edited, Inputs
  <2>3. ASSUME NEW f \in SchemaFiles, NEW c \in SchemaContents, EditSchema(f, c)
        PROVE  inputs' \in Inputs
    BY <2>1, <2>3 DEF EditSchema, Edited, Inputs
  <2>4. ASSUME NEW f \in QueryFiles, NEW c \in QueryContents, EditQueries(f, c)
        PROVE  inputs' \in Inputs
    BY <2>1, <2>4 DEF EditQueries, Edited, Inputs
  <2>5. ASSUME NEW f \in OverlayFiles, NEW c \in OverlayContents, EditOverlay(f, c)
        PROVE  inputs' \in Inputs
    BY <2>1, <2>5 DEF EditOverlay, Edited, Inputs
  <2> QED
    BY <2>2, <2>3, <2>4, <2>5 DEF Edit
<1>2. steady' = FALSE /\ UNCHANGED <<disk, gen, mem, written, invalid, touched>>
  BY DEF Edit, EditConfig, EditSchema, EditQueries, EditOverlay, Edited, genVars
<1>3. TypeOK'
  BY <1>1, <1>2 DEF IInv, TypeOK
<1>4. RunConsistent'
  BY <1>2 DEF IInv, RunConsistent, ControlOK, MemoryOK, block, target
<1>5. HeadersTell'
  BY <1>2 DEF IInv, HeadersTell
<1> QED
  BY <1>3, <1>4, <1>5 DEF IInv

\* Every step preserves the invariant.
LEMMA NextIInv == IInv /\ [Next]_vars => IInv'
<1> SUFFICES ASSUME IInv, [Next]_vars PROVE IInv'
  OBVIOUS
<1>1. ASSUME NEW flags \in Flags, StartGenerate(flags) PROVE IInv'
  BY <1>1, StartIInv
<1>2. CASE LoadCatalog \/ AnalyzeQueries \/ ResolveTarget
  BY <1>2, LoadCatalogIInv, AnalyzeQueriesIInv, ResolveTargetIInv
<1>3. CASE CheckPaths \/ FingerprintOptions \/ BlockDone
  BY <1>3, CheckPathsIInv, FingerprintOptionsIInv, BlockDoneIInv
<1>4. CASE RenderFails \/ WriteFails \/ OpenRbsFails
  BY <1>4, FailIInv DEF RenderFails, WriteFails, OpenRbsFails
<1>5. CASE RenderAndOpen \/ FinishMain \/ OpenRbs \/ FinishRbs
  BY <1>5, MainFileIInv, RbsFileIInv
<1>6. CASE SkipRbs \/ RecordWritten
  BY <1>6, SkipRbsIInv, RecordWrittenIInv
<1>7. CASE Killed
  BY <1>7, ExitIInv DEF Killed, Outcomes, IInv, TypeOK
<1>8. CASE Edit
  BY <1>8, EditIInv
<1>9. CASE UNCHANGED vars
  <2>1. UNCHANGED <<inputs, disk, gen, mem, written, invalid, touched, steady>>
    BY <1>9 DEF vars, genVars
  <2>2. TypeOK' /\ HeadersTell'
    BY <2>1 DEF IInv, TypeOK, HeadersTell
  <2>3. RunConsistent'
    BY <2>1 DEF IInv, RunConsistent, ControlOK, MemoryOK, block, target
  <2> QED
    BY <2>2, <2>3 DEF IInv
<1> QED
  BY <1>1, <1>2, <1>3, <1>4, <1>5, <1>6, <1>7, <1>8, <1>9
  DEF Next, GenerateStep

\* IInv holds in every reachable state of generate, for every set of inputs,
\* every number of blocks and targets, and every edit, failure and kill.
THEOREM SpecIInv == Spec => []IInv
  BY InitIInv, NextIInv, PTL DEF Spec

\* Every variable of generate keeps a value of its kind.
THEOREM SpecTypeOK == Spec => []TypeOK
<1>1. IInv => TypeOK
  BY DEF IInv
<1> QED
  BY <1>1, SpecIInv, PTL

\* A run of generate never mixes what it read for one block or target into
\* another.
THEOREM SpecRunConsistent == Spec => []RunConsistent
<1>1. IInv => RunConsistent
  BY DEF IInv
<1> QED
  BY <1>1, SpecIInv, PTL

\* The header of every file generate finished names the schema, the queries,
\* the engine and the backend its body was generated from.
THEOREM SpecHeadersTell == Spec => []HeadersTell
<1>1. IInv => HeadersTell
  BY DEF IInv
<1> QED
  BY <1>1, SpecIInv, PTL

\* Two targets of a block whose plan was accepted share no path, their RBS
\* files included.
LEMMA PathsApart ==
  ASSUME IInv, gen.pc \in TargetPhases, NEW i \in 1..(gen.t - 1),
         NEW p \in ArtifactPaths(block.targets[i])
  PROVE  p \notin ArtifactPaths(target)
<1>1. /\ block \in Block /\ target \in Target
      /\ gen.t \in DOMAIN block.targets /\ PathsDistinct(block.targets)
  BY TargetType DEF IInv, RunConsistent, ControlOK, TargetPhases
<1>2. i \in DOMAIN block.targets /\ i # gen.t
  BY <1>1 DEF Block
<1> DEFINE other == block.targets[i]
<1>3. other \in Target
  BY <1>1, <1>2 DEF Block
<1>4. MainPath(other) # MainPath(target)
  BY <1>1, <1>2 DEF PathsDistinct, target
<1> HIDE DEF other
<1>5. SUFFICES ASSUME p \in ArtifactPaths(other), p \in ArtifactPaths(target)
               PROVE  FALSE
  BY DEF other
<1>6. /\ other.backend \in Backends /\ target.backend \in Backends
  BY <1>1, <1>3 DEF Target
<1>7. CASE p = MainPath(other) \/ p = MainPath(target)
  BY <1>4, <1>5, <1>6, <1>7, PathsAssumption
  DEF ArtifactPaths, MainPath, RbsPath
<1>8. CASE p # MainPath(other) /\ p # MainPath(target)
  <2>1. /\ EmitsRbs(other.backend) /\ EmitsRbs(target.backend)
        /\ other.dir = target.dir
    BY <1>5, <1>8 DEF ArtifactPaths, RbsPath
  <2> QED
    BY <1>4, <1>6, <2>1, PathsAssumption DEF MainPath
<1> QED
  BY <1>7, <1>8

\* Within a block no target overwrites a file an earlier one wrote under the
\* same spelling of its path.
THEOREM SpecNoClobberSameSpelling == Spec => NoClobberSameSpelling
<1>1. IInv => (gen.pc \in TargetPhases =>
                \A i \in 1..(gen.t - 1) :
                  \A p \in ArtifactPaths(block.targets[i]) :
                    disk'[Location(p)] # disk[Location(p)] =>
                      p \notin ArtifactPaths(target))
  BY PathsApart
<1> QED
  BY <1>1, SpecIInv, PTL DEF NoClobberSameSpelling

-----------------------------------------------------------------------------
(* What has been opened. *)

LEMMA OutputsGrow ==
  ASSUME NEW blk, NEW n \in Nat
  PROVE  OutputsOf(blk, n + 1) = OutputsOf(blk, n) \cup Outputs(blk.targets[n + 1])
<1>1. 1..(n + 1) = 1..n \cup {n + 1}
  OBVIOUS
<1> QED
  BY <1>1 DEF OutputsOf

\* The outputs up to the current target.
LEMMA CurrentOutputs ==
  ASSUME IInv, gen.pc \in TargetPhases
  PROVE  /\ OutputsOf(block, gen.t) = EarlierTargets \cup Outputs(target)
         /\ Location(MainPath(target)) \in Outputs(target)
         /\ EmitsRbs(target.backend) => Location(RbsPath(target)) \in Outputs(target)
<1>1. block \in Block /\ gen.t \in DOMAIN block.targets
  BY TargetType DEF IInv, RunConsistent
<1>2. gen.t - 1 \in Nat /\ gen.t = (gen.t - 1) + 1
  BY <1>1 DEF Block
<1>3. OutputsOf(block, gen.t) = EarlierTargets \cup Outputs(target)
  BY <1>2, OutputsGrow DEF EarlierTargets, target
<1> QED
  BY <1>3 DEF Outputs, ArtifactPaths

\* Where the program counter alone moves, and not into a new block.
LEMMA SameBlock ==
  ASSUME IInv, NEW next \in Phases, gen' = [gen EXCEPT !.pc = next]
  PROVE  /\ gen'.pc = next /\ gen'.outcome = gen.outcome /\ gen'.cfg = gen.cfg
         /\ gen'.flags = gen.flags /\ gen'.b = gen.b /\ gen'.t = gen.t
         /\ block' = block /\ target' = target
         /\ EarlierBlocks' = EarlierBlocks /\ EarlierTargets' = EarlierTargets
<1>1. /\ gen'.pc = next /\ gen'.outcome = gen.outcome /\ gen'.cfg = gen.cfg
      /\ gen'.flags = gen.flags /\ gen'.b = gen.b /\ gen'.t = gen.t
  BY DEF IInv, TypeOK, Control
<1> QED
  BY <1>1 DEF block, target, EarlierBlocks, EarlierTargets, OutputsOf

LEMMA PlanStepPlan ==
  ASSUME IInv, WritesFollowPlan, gen.pc \in PlanPhases,
         LoadCatalog \/ AnalyzeQueries \/ ResolveTarget \/ CheckPaths
  PROVE  WritesFollowPlan'
<1>1. gen.pc # "idle" /\ touched \subseteq EarlierBlocks
  BY DEF PlanPhases, WritesFollowPlan
<1>2. CASE Fail
  BY <1>2 DEF Fail, Exit, Idle, WritesFollowPlan
<1>3. CASE ~Fail
  <2>1. /\ touched' = touched /\ gen \in Control
        /\ gen'.cfg = gen.cfg /\ gen'.b = gen.b
        /\ gen'.pc \in {"queries", "resolve", "options"}
    BY <1>3 DEF LoadCatalog, AnalyzeQueries, ResolveTarget, CheckPaths, At,
                Goto, IInv, TypeOK, Control
  <2>2. EarlierBlocks' = EarlierBlocks
    BY <2>1 DEF EarlierBlocks, OutputsOf
  <2> QED
    BY <1>1, <2>1, <2>2 DEF WritesFollowPlan, PlanPhases
<1> QED
  BY <1>2, <1>3

LEMMA WriteStepPlan ==
  ASSUME IInv, WritesFollowPlan,
         RenderAndOpen \/ FinishMain \/ OpenRbs \/ FinishRbs \/ SkipRbs
  PROVE  WritesFollowPlan'
<1>1. gen.pc \in {"render", "write", "rbs", "rbswrite"}
  BY DEF RenderAndOpen, FinishMain, OpenRbs, FinishRbs, SkipRbs, At
<1>2. gen.pc \in TargetPhases
  BY <1>1 DEF TargetPhases, WritePhases
<1>3. touched \subseteq EarlierBlocks \cup OutputsOf(block, gen.t)
  BY <1>1, <1>2, CurrentOutputs DEF WritesFollowPlan, PlanPhases
<1>4. touched' \subseteq EarlierBlocks \cup OutputsOf(block, gen.t)
  BY <1>2, <1>3, CurrentOutputs
  DEF RenderAndOpen, FinishMain, OpenRbs, FinishRbs, SkipRbs, Open, Close
<1>5. PICK next \in {"write", "rbs", "rbswrite", "record"} : Goto(next)
  BY DEF RenderAndOpen, FinishMain, OpenRbs, FinishRbs, SkipRbs, Open, Close
<1>6. /\ gen'.pc = next /\ EarlierBlocks' = EarlierBlocks
      /\ block' = block /\ gen'.t = gen.t
  BY <1>5, SameBlock DEF Goto, Phases, WritePhases
<1>7. OutputsOf(block, gen.t)' = OutputsOf(block, gen.t)
  BY <1>6 DEF OutputsOf
<1> QED
  BY <1>4, <1>6, <1>7 DEF WritesFollowPlan, PlanPhases

LEMMA TurnStepPlan ==
  ASSUME IInv, WritesFollowPlan, FingerprintOptions \/ BlockDone \/ RecordWritten
  PROVE  WritesFollowPlan'
<1>1. gen \in Control
  BY DEF IInv, TypeOK
<1>2. CASE FingerprintOptions
  <2>1. CASE Fail
    BY <2>1 DEF Fail, Exit, Idle, WritesFollowPlan
  <2>2. CASE ~Fail
    <3>1. gen.pc = "options" /\ Goto("render") /\ touched' = touched
      BY <1>2, <2>2 DEF FingerprintOptions, At
    <3>2. /\ gen'.pc = "render" /\ EarlierBlocks' = EarlierBlocks
          /\ EarlierTargets' = EarlierTargets
      BY <3>1, SameBlock DEF Goto, Phases, WritePhases
    <3> QED
      BY <3>1, <3>2 DEF WritesFollowPlan, PlanPhases
  <2> QED
    BY <2>1, <2>2
<1>3. CASE BlockDone
  <2>1. gen.pc = "options" /\ touched' = touched /\ gen.t > Len(block.targets)
    BY <1>3 DEF BlockDone, At
  <2>2. CASE Finish
    BY <2>2 DEF Finish, Exit, Idle, WritesFollowPlan
  <2>3. CASE ~Finish
    <3>1. gen' = [gen EXCEPT !.pc = "catalog", !.b = gen.b + 1, !.t = 1]
      BY <1>3, <2>3 DEF BlockDone, NextBlock, BeginBlock
    <3>2. gen'.pc = "catalog" /\ gen'.cfg = gen.cfg /\ gen'.b = gen.b + 1
      BY <1>1, <3>1 DEF Control
    <3>3. block \in Block /\ gen.t = Len(block.targets) + 1
      BY <2>1, BlockType DEF IInv, RunConsistent, ControlOK, Block
    <3>4. EarlierTargets = OutputsOf(block, Len(block.targets))
      BY <3>3 DEF EarlierTargets, Block
    <3>5. gen.b \in Nat \ {0}
      BY <2>1, BlockType DEF IInv, RunConsistent, ControlOK, Config
    <3>6. EarlierBlocks' = EarlierBlocks \cup OutputsOf(block, Len(block.targets))
      <4>1. 1..(gen'.b - 1) = 1..(gen.b - 1) \cup {gen.b}
        BY <3>2, <3>5
      <4> QED
        BY <3>2, <4>1 DEF EarlierBlocks, OutputsOf, block
    <3> QED
      BY <2>1, <3>2, <3>4, <3>6 DEF WritesFollowPlan, PlanPhases
  <2> QED
    BY <2>2, <2>3
<1>4. CASE RecordWritten
  <2>1. gen.pc = "record" /\ touched' = touched
        /\ gen' = [gen EXCEPT !.pc = "options", !.t = @ + 1]
    BY <1>4 DEF RecordWritten, At
  <2>2. /\ gen'.pc = "options" /\ gen'.cfg = gen.cfg /\ gen'.b = gen.b
        /\ gen'.t = gen.t + 1 /\ gen.t \in Nat
    BY <1>1, <2>1 DEF Control
  <2>3. block' = block /\ EarlierBlocks' = EarlierBlocks
    BY <2>2 DEF block, EarlierBlocks, OutputsOf
  <2>4. EarlierTargets' = OutputsOf(block, gen.t)
    <3>1. gen'.t - 1 = gen.t
      BY <2>2
    <3> QED
      BY <2>3, <3>1 DEF EarlierTargets, OutputsOf
  <2> QED
    BY <2>1, <2>2, <2>3, <2>4 DEF WritesFollowPlan, PlanPhases
<1> QED
  BY <1>2, <1>3, <1>4

LEMMA NextPlan == IInv /\ WritesFollowPlan /\ [Next]_vars => WritesFollowPlan'
<1> SUFFICES ASSUME IInv, WritesFollowPlan, [Next]_vars
             PROVE  WritesFollowPlan'
  OBVIOUS
<1>1. ASSUME NEW flags \in Flags, StartGenerate(flags) PROVE WritesFollowPlan'
  <2>1. touched' = {}
    BY <1>1 DEF StartGenerate
  <2> QED
    BY <2>1 DEF WritesFollowPlan
<1>2. CASE LoadCatalog \/ AnalyzeQueries \/ ResolveTarget \/ CheckPaths
  BY <1>2, PlanStepPlan
  DEF LoadCatalog, AnalyzeQueries, ResolveTarget, CheckPaths, At, PlanPhases
<1>3. CASE FingerprintOptions \/ BlockDone \/ RecordWritten
  BY <1>3, TurnStepPlan
<1>4. CASE RenderFails \/ WriteFails \/ OpenRbsFails \/ Killed
  BY <1>4 DEF RenderFails, WriteFails, OpenRbsFails, Killed, Fail, Exit, Idle,
              WritesFollowPlan
<1>5. CASE RenderAndOpen \/ FinishMain \/ OpenRbs \/ FinishRbs \/ SkipRbs
  BY <1>5, WriteStepPlan
<1>6. CASE Edit \/ UNCHANGED vars
  <2>1. UNCHANGED <<gen, touched>>
    BY <1>6 DEF Edit, EditConfig, EditSchema, EditQueries, EditOverlay, Edited,
                vars, genVars
  <2> QED
    BY <2>1 DEF WritesFollowPlan, EarlierBlocks, EarlierTargets, OutputsOf, block
<1> QED
  BY <1>1, <1>2, <1>3, <1>4, <1>5, <1>6 DEF Next, GenerateStep

\* No output of a block is opened before its plan holds, for any number of
\* blocks and targets.
THEOREM SpecWritesFollowPlan == Spec => []WritesFollowPlan
<1>1. Init => WritesFollowPlan
  BY DEF Init, Idle, WritesFollowPlan
<1> QED
  BY <1>1, NextPlan, SpecIInv, PTL DEF Spec

-----------------------------------------------------------------------------
(* The warning. *)

\* From the opening of a target's main file until it is listed it is touched.
MainTouched ==
  gen.pc \in {"write", "rbs", "rbswrite", "record"} =>
    Location(MainPath(target)) \in touched

WarningInv == WarningMissesOnlyCurrent /\ MainTouched

\* A step that neither opens nor lists a file, and stays at its target.
LEMMA QuietWarning ==
  ASSUME WarningInv, UNCHANGED <<written, touched>>,
         gen'.pc # "idle" => gen.pc # "idle",
         gen.pc \in TargetPhases /\ gen'.pc # "idle" =>
           gen'.pc \in TargetPhases /\ target' = target,
         gen'.pc \in {"write", "rbs", "rbswrite", "record"} =>
           gen.pc \in {"write", "rbs", "rbswrite", "record"}
  PROVE  WarningInv'
<1>1. Listed' = Listed
  BY DEF Listed, Location
<1>2. MainTouched'
  BY DEF WarningInv, MainTouched, TargetPhases, WritePhases, MainPath, Location
<1>3. WarningMissesOnlyCurrent'
  BY <1>1 DEF WarningInv, WarningMissesOnlyCurrent, MainPath, Location
<1> QED
  BY <1>2, <1>3 DEF WarningInv

LEMMA OpenWarning ==
  ASSUME IInv, WarningInv, RenderAndOpen \/ OpenRbs
  PROVE  WarningInv'
<1>1. PICK next \in {"write", "rbswrite"} : Goto(next)
  BY DEF RenderAndOpen, OpenRbs, Open
<1>2. gen'.pc = next /\ target' = target
  BY <1>1, SameBlock DEF Goto, Phases, WritePhases
<1>3. gen.pc \in TargetPhases /\ next \in TargetPhases /\ gen.pc # "idle"
  BY <1>1 DEF RenderAndOpen, OpenRbs, At, TargetPhases, WritePhases
<1>4. written' = written /\ Listed' = Listed
  BY DEF RenderAndOpen, OpenRbs, Open, Listed, Location
<1> DEFINE main == Location(MainPath(target))
<1>5. main' = main
  BY <1>2 DEF Location, MainPath
<1>6. \/ touched' = touched \cup {main}
      \/ main \in touched /\ touched' = touched \cup {Location(RbsPath(target))}
  BY DEF RenderAndOpen, OpenRbs, Open, At, WarningInv, MainTouched
<1>7. Location(RbsPath(target))[2] = RBS
  BY DEF Location, RbsPath
<1> HIDE DEF main
<1>8. WarningMissesOnlyCurrent'
  <2>1. \A l \in touched \ Listed : l[2] = RBS \/ l = main
    BY <1>3 DEF WarningInv, WarningMissesOnlyCurrent, main
  <2>2. \A l \in touched' \ Listed' : l[2] = RBS \/ l = main'
    BY <1>4, <1>5, <1>6, <1>7, <2>1
  <2>3. Listed' \subseteq touched'
    BY <1>4, <1>6 DEF WarningInv, WarningMissesOnlyCurrent
  <2> QED
    BY <1>2, <1>3, <2>2, <2>3 DEF WarningMissesOnlyCurrent, main
<1>9. MainTouched'
  BY <1>5, <1>6 DEF MainTouched, main
<1> QED
  BY <1>8, <1>9 DEF WarningInv

LEMMA RecordWarning ==
  ASSUME IInv, WarningInv, RecordWritten
  PROVE  WarningInv'
<1>1. gen.pc = "record" /\ touched' = touched
      /\ gen' = [gen EXCEPT !.pc = "options", !.t = @ + 1]
      /\ written' = Append(written, MainPath(target))
  BY DEF RecordWritten, At
<1>2. gen'.pc = "options" /\ gen.pc \in TargetPhases
  BY <1>1 DEF IInv, TypeOK, Control, TargetPhases, WritePhases
<1>3. written \in Seq(Path) /\ MainPath(target) \in Path
  BY <1>2, TargetType, OutputLocations DEF IInv, TypeOK, RunConsistent
<1>4. Listed' = Listed \cup {Location(MainPath(target))}
  <2>1. DOMAIN written' = DOMAIN written \cup {Len(written) + 1}
    BY <1>1, <1>3
  <2>2. \A i \in DOMAIN written : written'[i] = written[i]
    BY <1>1, <1>3
  <2>3. written'[Len(written) + 1] = MainPath(target)
    BY <1>1, <1>3
  <2> QED
    BY <2>1, <2>2, <2>3 DEF Listed, Location
<1>5. Location(MainPath(target)) \in touched
  BY <1>1 DEF WarningInv, MainTouched
<1>6. \A l \in touched \ Listed : l[2] = RBS \/ l = Location(MainPath(target))
  BY <1>1 DEF WarningInv, WarningMissesOnlyCurrent
<1>7. WarningMissesOnlyCurrent'
  BY <1>1, <1>2, <1>4, <1>5, <1>6 DEF WarningInv, WarningMissesOnlyCurrent
<1>8. MainTouched'
  BY <1>2 DEF MainTouched
<1> QED
  BY <1>7, <1>8 DEF WarningInv

LEMMA NextWarning == IInv /\ WarningInv /\ [Next]_vars => WarningInv'
<1> SUFFICES ASSUME IInv, WarningInv, [Next]_vars
             PROVE  WarningInv'
  OBVIOUS
<1>1. ASSUME NEW flags \in Flags, StartGenerate(flags) PROVE WarningInv'
  <2>1. touched' = {} /\ written' = <<>> /\ gen'.pc \in {"idle", "catalog"}
    BY <1>1 DEF StartGenerate, Exit, Idle
  <2>2. Listed' = {}
    BY <2>1 DEF Listed
  <2> QED
    BY <2>1, <2>2 DEF WarningInv, WarningMissesOnlyCurrent, MainTouched
<1>2. CASE LoadCatalog \/ AnalyzeQueries \/ ResolveTarget \/ CheckPaths
           \/ FingerprintOptions \/ BlockDone
  <2>1. /\ UNCHANGED <<written, touched>> /\ gen \in Control
        /\ gen.pc \in PlanPhases \cup {"options"}
    BY <1>2 DEF LoadCatalog, AnalyzeQueries, ResolveTarget, CheckPaths,
                FingerprintOptions, BlockDone, At, PlanPhases, Fail, IInv, TypeOK
  <2>2. gen'.pc \in PlanPhases \cup {"options", "render", "idle"}
    BY <1>2, <2>1
    DEF LoadCatalog, AnalyzeQueries, ResolveTarget, CheckPaths,
        FingerprintOptions, BlockDone, NextBlock, BeginBlock, Finish, Fail,
        Exit, Idle, Goto, PlanPhases, Control
  <2> QED
    BY <2>1, <2>2, QuietWarning DEF PlanPhases, TargetPhases, WritePhases
<1>3. CASE RenderFails \/ WriteFails \/ OpenRbsFails \/ Killed
  <2>1. UNCHANGED <<written, touched>> /\ gen'.pc = "idle"
    BY <1>3 DEF RenderFails, WriteFails, OpenRbsFails, Killed, Fail, Exit, Idle
  <2> QED
    BY <2>1, QuietWarning
<1>4. CASE RenderAndOpen \/ OpenRbs
  BY <1>4, OpenWarning
<1>5. CASE FinishMain \/ FinishRbs \/ SkipRbs
  <2>1. PICK next \in {"rbs", "record"} : Goto(next)
    BY <1>5 DEF FinishMain, FinishRbs, SkipRbs, Close
  <2>2. gen'.pc = next /\ target' = target
    BY <2>1, SameBlock DEF Goto, Phases, WritePhases
  <2>3. UNCHANGED <<written, touched>> /\ gen.pc \in {"write", "rbs", "rbswrite"}
    BY <1>5 DEF FinishMain, FinishRbs, SkipRbs, Close, At
  <2> QED
    BY <2>2, <2>3, QuietWarning DEF TargetPhases, WritePhases
<1>6. CASE RecordWritten
  BY <1>6, RecordWarning
<1>7. CASE Edit \/ UNCHANGED vars
  <2>1. UNCHANGED <<gen, written, touched>>
    BY <1>7 DEF Edit, EditConfig, EditSchema, EditQueries, EditOverlay, Edited,
                vars, genVars
  <2> QED
    BY <2>1, QuietWarning DEF target, block
<1> QED
  BY <1>1, <1>2, <1>3, <1>4, <1>5, <1>6, <1>7 DEF Next, GenerateStep

\* At every point where a run may fail, its warning misses the main output of
\* the target under way at most, besides the RBS files.
THEOREM SpecWarningMissesOnlyCurrent == Spec => []WarningMissesOnlyCurrent
<1>1. Init => WarningInv
  BY DEF Init, Idle, WarningInv, WarningMissesOnlyCurrent, MainTouched, Listed
<1>2. WarningInv => WarningMissesOnlyCurrent
  BY DEF WarningInv
<1> QED
  BY <1>1, <1>2, NextWarning, SpecIInv, PTL DEF Spec

-----------------------------------------------------------------------------
(* Success. *)

\* What a run that nobody edits under remembers is what the inputs hold.
MemoryFresh ==
  steady /\ gen.pc # "idle" =>
    /\ gen.cfg = inputs.config
    /\ gen.pc \in {"queries", "resolve"} \cup WritePhases =>
         mem.shape = inputs.schema[block.schema].shape
    /\ gen.pc \in {"resolve"} \cup WritePhases =>
         /\ mem.queries = inputs.queries[block.queries].queries
         /\ QueriesUsable(inputs.queries[block.queries], mem.shape)
    /\ \A i \in DOMAIN mem.overlays :
         mem.overlays[i] = OverlayContent(block.targets[i], inputs.overlay)
    /\ gen.pc \in TargetPhases =>
         mem.optionsTag =
           OptionsFingerprint(target.options,
                              OverlayContent(target, inputs.overlay))

Fresh(l, blk, t) == disk[l] = FreshFile(blk, t, inputs)

\* The files of target j of block i are fresh.
TargetFresh(i, j) ==
  LET blk == inputs.config.blocks[i] IN
  \A l \in Outputs(blk.targets[j]) : Fresh(l, blk, blk.targets[j])

BlockFresh(i) ==
  \A j \in DOMAIN inputs.config.blocks[i].targets : TargetFresh(i, j)

\* What a run that nobody edits under has finished is fresh.
FilesFresh ==
  steady /\ gen.pc # "idle" /\ Disjoint(inputs.config) =>
    /\ \A i \in 1..(gen.b - 1) : BlockFresh(i)
    /\ gen.pc \in WritePhases => \A j \in 1..(gen.t - 1) : TargetFresh(gen.b, j)
    /\ gen.pc \in {"rbs", "rbswrite", "record"} =>
         Fresh(Location(MainPath(target)), block, target)
    /\ gen.pc = "record" /\ EmitsRbs(target.backend) =>
         Fresh(Location(RbsPath(target)), block, target)

BlockUsable(i) ==
  LET blk == inputs.config.blocks[i] IN
  QueriesUsable(inputs.queries[blk.queries], inputs.schema[blk.schema].shape)

\* A run that nobody edits under got past the queries of the blocks before its
\* own, and one that succeeded past all of them.
QueriesWereUsable ==
  steady =>
    /\ gen.pc # "idle" => \A i \in 1..(gen.b - 1) : BlockUsable(i)
    /\ gen.outcome \in {"ok", "invalid"} =>
         \A i \in DOMAIN inputs.config.blocks : BlockUsable(i)

RunningHasNoOutcome == gen.pc # "idle" => gen.outcome = "none"

FreshInv ==
  /\ RunningHasNoOutcome
  /\ MemoryFresh
  /\ FilesFresh
  /\ QueriesWereUsable
  /\ SuccessIsFresh

\* Where an edit is not the step, the inputs stay; where it is, nobody calls
\* the run steady any more.
LEMMA StepSteady ==
  ASSUME [Next]_vars
  PROVE  \/ ~steady'
         \/ inputs' = inputs /\ steady' = steady
         \/ inputs' = inputs /\ \E flags \in Flags : StartGenerate(flags)
  BY DEF Next, GenerateStep, vars, genVars, Edit, EditConfig, EditSchema,
         EditQueries, EditOverlay, Edited, StartGenerate, LoadCatalog,
         AnalyzeQueries, ResolveTarget, CheckPaths, FingerprintOptions,
         BlockDone, RenderFails, RenderAndOpen, FinishMain, WriteFails, SkipRbs,
         OpenRbs, OpenRbsFails, FinishRbs, RecordWritten, Open, Close, Killed,
         Fail

\* What memory holds matters while the run is at one block.
LEMMA SameMemory ==
  ASSUME IInv, MemoryFresh, inputs' = inputs, steady' = steady, mem' = mem,
         gen.pc # "idle", NEW next \in TargetPhases,
         gen.pc \in TargetPhases, Goto(next)
  PROVE  MemoryFresh'
<1>1. /\ gen'.pc = next /\ gen'.cfg = gen.cfg
      /\ block' = block /\ target' = target
  BY SameBlock DEF Goto, Phases, TargetPhases
<1> QED
  BY <1>1 DEF MemoryFresh, TargetPhases, WritePhases, OverlayContent,
              OptionsFingerprint, QueriesUsable

LEMMA NextMemoryFresh ==
  ASSUME IInv, MemoryFresh, [Next]_vars
  PROVE  MemoryFresh'
<1> SUFFICES ASSUME steady', gen'.pc # "idle"
             PROVE  MemoryFresh'
  BY DEF MemoryFresh
<1>1. ASSUME NEW flags \in Flags, StartGenerate(flags) PROVE MemoryFresh'
  <2>1. /\ gen'.pc = "catalog" /\ gen'.cfg = inputs.config
        /\ inputs' = inputs /\ mem'.overlays = <<>>
    BY <1>1 DEF StartGenerate, Exit, Idle, NoMemory
  <2> QED
    BY <2>1 DEF MemoryFresh, TargetPhases, WritePhases
<1> SUFFICES ASSUME inputs' = inputs, steady' = steady, steady, [Next]_vars,
                    ~\E flags \in Flags : StartGenerate(flags)
             PROVE  MemoryFresh'
  BY <1>1, StepSteady
<1>2. gen \in Control /\ mem \in Memory /\ gen'.pc # "idle"
  BY DEF IInv, TypeOK
<1>3. CASE LoadCatalog
  <2>1. /\ gen.pc = "catalog" /\ gen' = [gen EXCEPT !.pc = "queries"]
        /\ mem' = [mem EXCEPT !.shape = inputs.schema[block.schema].shape,
             !.schemaTag = SchemaFingerprint(inputs.schema[block.schema])]
    BY <1>2, <1>3 DEF LoadCatalog, At, Goto, Fail, Exit, Idle
  <2>2. /\ gen'.pc = "queries" /\ gen'.cfg = gen.cfg /\ block' = block
        /\ mem'.shape = inputs.schema[block.schema].shape
        /\ mem'.overlays = mem.overlays
    BY <1>2, <2>1 DEF Control, Memory, block
  <2>3. mem.overlays = <<>>
    BY <2>1 DEF IInv, RunConsistent, MemoryOK, NoMemory
  <2> QED
    BY <2>1, <2>2, <2>3 DEF MemoryFresh, TargetPhases, WritePhases
<1>4. CASE AnalyzeQueries
  <2> DEFINE content == inputs.queries[block.queries]
  <2>1. /\ gen.pc = "queries" /\ gen' = [gen EXCEPT !.pc = "resolve"]
        /\ mem' = [mem EXCEPT !.queries = content.queries,
             !.queriesTag = QueriesFingerprint(mem.shape, content.queries)]
        /\ QueriesUsable(content, mem.shape)
    BY <1>2, <1>4 DEF AnalyzeQueries, At, Goto, Fail, Exit, Idle
  <2>2. /\ gen'.pc = "resolve" /\ gen'.cfg = gen.cfg /\ block' = block
        /\ mem'.shape = mem.shape /\ mem'.queries = content.queries
        /\ mem'.overlays = mem.overlays
    BY <1>2, <2>1 DEF Control, Memory, block
  <2>3. mem.overlays = <<>>
    BY <2>1 DEF IInv, RunConsistent, MemoryOK
  <2>4. gen.cfg = inputs.config /\ mem.shape = inputs.schema[block.schema].shape
    BY <2>1 DEF MemoryFresh
  <2>5. QueriesUsable(content, mem.shape)'
    BY <2>1, <2>2 DEF QueriesUsable
  <2> QED
    BY <2>2, <2>3, <2>4, <2>5 DEF MemoryFresh, TargetPhases, WritePhases
<1>5. CASE ResolveTarget
  <2> DEFINE overlay == OverlayContent(target, inputs.overlay)
  <2>1. /\ gen.pc = "resolve" /\ gen' = [gen EXCEPT !.t = @ + 1]
        /\ mem' = [mem EXCEPT !.overlays = Append(@, overlay)]
    BY <1>2, <1>5 DEF ResolveTarget, At, Fail, Exit, Idle
  <2>2. /\ gen'.pc = "resolve" /\ gen'.cfg = gen.cfg /\ block' = block
        /\ mem'.shape = mem.shape /\ mem'.queries = mem.queries
        /\ mem'.overlays = Append(mem.overlays, overlay)
    BY <1>2, <2>1 DEF Control, Memory, block
  <2>3. mem.overlays \in Seq(Overlays \cup {None}) /\ Len(mem.overlays) = gen.t - 1
    BY <1>2, <2>1 DEF IInv, RunConsistent, MemoryOK, Memory
  <2>4. /\ gen.cfg = inputs.config /\ mem.shape = inputs.schema[block.schema].shape
        /\ mem.queries = inputs.queries[block.queries].queries
        /\ QueriesUsable(inputs.queries[block.queries], mem.shape)
        /\ \A i \in DOMAIN mem.overlays :
             mem.overlays[i] = OverlayContent(block.targets[i], inputs.overlay)
    BY <2>1 DEF MemoryFresh
  <2>5. ASSUME NEW i \in DOMAIN mem'.overlays
        PROVE  mem'.overlays[i] = OverlayContent(block.targets[i], inputs.overlay)
    <3>1. CASE i \in DOMAIN mem.overlays
      BY <2>2, <2>3, <2>4, <3>1
    <3>2. CASE i \notin DOMAIN mem.overlays
      <4>1. i = gen.t /\ mem'.overlays[i] = overlay
        BY <1>2, <2>2, <2>3, <3>2 DEF Control
      <4> QED
        BY <4>1 DEF target
    <3> QED
      BY <3>1, <3>2
  <2>6. QueriesUsable(inputs.queries[block.queries], mem.shape)'
    BY <2>2, <2>4 DEF QueriesUsable
  <2> QED
    BY <2>2, <2>4, <2>5, <2>6 DEF MemoryFresh, TargetPhases, WritePhases,
                                   OverlayContent
<1>6. CASE CheckPaths \/ RecordWritten
  <2>1. gen.pc \in {"resolve", "record"} /\ mem' = mem
        /\ gen'.pc = "options" /\ gen'.cfg = gen.cfg /\ gen'.b = gen.b
    BY <1>2, <1>6 DEF CheckPaths, RecordWritten, At, Fail, Exit, Idle, Control
  <2>2. block' = block
    BY <2>1 DEF block
  <2> QED
    BY <2>1, <2>2 DEF MemoryFresh, TargetPhases, WritePhases, OverlayContent,
                      QueriesUsable
<1>7. CASE FingerprintOptions
  <2> DEFINE tag == OptionsFingerprint(target.options,
                                       OverlayContent(target, inputs.overlay))
  <2>1. gen.pc = "options" /\ Goto("render")
        /\ mem' = [mem EXCEPT !.optionsTag = tag]
    BY <1>2, <1>7 DEF FingerprintOptions, At, Fail, Exit, Idle
  <2>2. /\ gen'.pc = "render" /\ gen'.cfg = gen.cfg
        /\ block' = block /\ target' = target
    BY <2>1, SameBlock DEF Goto, Phases, WritePhases
  <2>3. /\ mem'.shape = mem.shape /\ mem'.queries = mem.queries
        /\ mem'.overlays = mem.overlays /\ mem'.optionsTag = tag
    BY <1>2, <2>1 DEF Memory
  <2> QED
    BY <2>1, <2>2, <2>3 DEF MemoryFresh, TargetPhases, WritePhases,
                            OverlayContent, OptionsFingerprint, QueriesUsable
<1>8. CASE BlockDone
  <2>1. /\ gen.pc = "options" /\ mem' = NoMemory
        /\ gen' = [gen EXCEPT !.pc = "catalog", !.b = gen.b + 1, !.t = 1]
    BY <1>2, <1>8 DEF BlockDone, At, NextBlock, BeginBlock, Finish, Exit, Idle
  <2>2. gen'.pc = "catalog" /\ gen'.cfg = gen.cfg /\ mem'.overlays = <<>>
    BY <1>2, <2>1 DEF Control, NoMemory
  <2>3. gen.cfg = inputs.config
    BY <2>1 DEF MemoryFresh
  <2> QED
    BY <2>2, <2>3 DEF MemoryFresh, TargetPhases, WritePhases
<1>9. CASE RenderAndOpen \/ FinishMain \/ SkipRbs \/ OpenRbs \/ FinishRbs
  <2>1. PICK next \in {"write", "rbs", "rbswrite", "record"} : Goto(next)
    BY <1>9 DEF RenderAndOpen, FinishMain, SkipRbs, OpenRbs, FinishRbs, Open, Close
  <2>2. gen.pc \in TargetPhases /\ mem' = mem /\ gen.pc # "idle"
    BY <1>9 DEF RenderAndOpen, FinishMain, SkipRbs, OpenRbs, FinishRbs, Open,
                Close, At, TargetPhases, WritePhases
  <2> QED
    BY <2>1, <2>2, SameMemory DEF TargetPhases, WritePhases
<1>10. CASE RenderFails \/ WriteFails \/ OpenRbsFails \/ Killed
  BY <1>2, <1>10 DEF RenderFails, WriteFails, OpenRbsFails, Killed, Fail, Exit, Idle
<1>11. CASE Edit
  BY <1>11 DEF Edit, EditConfig, EditSchema, EditQueries, EditOverlay, Edited
<1>12. CASE UNCHANGED vars
  <2>1. UNCHANGED <<gen, mem, inputs, steady>>
    BY <1>12 DEF vars, genVars
  <2> QED
    BY <1>2, <2>1 DEF MemoryFresh, block, target, OverlayContent,
                      OptionsFingerprint, QueriesUsable
<1> QED
  BY <1>3, <1>4, <1>5, <1>6, <1>7, <1>8, <1>9, <1>10, <1>11, <1>12
  DEF Next, GenerateStep

\* The configured targets are numbered by block and place in the block.
LEMMA AllTargetsPairs ==
  ASSUME NEW cfg
  PROVE  /\ \A i \in DOMAIN cfg.blocks : \A j \in DOMAIN cfg.blocks[i].targets :
              <<i, j>> \in AllTargets(cfg)
         /\ \A x \in AllTargets(cfg) :
              \E i \in DOMAIN cfg.blocks : \E j \in DOMAIN cfg.blocks[i].targets :
                x = <<i, j>>
  BY DEF AllTargets

\* Two different targets of a disjoint configuration share no output.
LEMMA DisjointOutputs ==
  ASSUME NEW cfg, Disjoint(cfg),
         NEW i \in DOMAIN cfg.blocks, NEW j \in DOMAIN cfg.blocks[i].targets,
         NEW k \in DOMAIN cfg.blocks, NEW m \in DOMAIN cfg.blocks[k].targets,
         i # k \/ j # m, NEW l \in Outputs(cfg.blocks[k].targets[m])
  PROVE  l \notin Outputs(cfg.blocks[i].targets[j])
<1>1. <<i, j>> \in AllTargets(cfg) /\ <<k, m>> \in AllTargets(cfg)
  BY AllTargetsPairs
<1>2. <<i, j>> # <<k, m>>
  OBVIOUS
<1>3. Outputs(TargetAt(cfg, <<i, j>>)) \cap Outputs(TargetAt(cfg, <<k, m>>)) = {}
  BY <1>1, <1>2 DEF Disjoint
<1> QED
  BY <1>3 DEF TargetAt

\* A steady run is at a block and a target of the configuration on disk.
LEMMA SteadyBlock ==
  ASSUME IInv, MemoryFresh, steady, gen.pc # "idle"
  PROVE  /\ gen.cfg = inputs.config /\ inputs.config \in Config
         /\ inputs.config.blocks \in Seq(Block)
         /\ gen.b \in DOMAIN inputs.config.blocks
         /\ block = inputs.config.blocks[gen.b]
         /\ block.targets \in Seq(Target) /\ gen.t \in 1..(Len(block.targets) + 1)
<1>1. gen.cfg = inputs.config
  BY DEF MemoryFresh
<1>2. gen.cfg \in Config /\ block \in Block
  BY BlockType DEF IInv, RunConsistent
<1> QED
  BY <1>1, <1>2 DEF Config, Block, block, IInv, RunConsistent, ControlOK

\* The outputs of a configured target are locations.
LEMMA OutputsAreLocations ==
  ASSUME NEW t \in Target
  PROVE  Outputs(t) \subseteq Locations
  BY OutputLocations DEF Outputs, ArtifactPaths

\* What a steady run is about to write is fresh.
LEMMA RunFileFresh ==
  ASSUME IInv, MemoryFresh, steady, gen.pc \in TargetPhases
  PROVE  RunFile = FreshFile(block, target, inputs)
<1>1. gen.t \in DOMAIN block.targets /\ block.targets \in Seq(Target)
  BY TargetType DEF IInv, RunConsistent, Block
<1>2. /\ mem.schemaTag = mem.shape
      /\ mem.queriesTag = QueriesFingerprint(mem.shape, mem.queries)
      /\ Len(mem.overlays) = Len(block.targets)
      /\ mem.overlays \in Seq(Overlays \cup {None})
  BY DEF IInv, TypeOK, Memory, RunConsistent, MemoryOK, TargetPhases
<1>3. mem.overlays[gen.t] = OverlayContent(target, inputs.overlay)
  BY <1>1, <1>2 DEF MemoryFresh, TargetPhases, WritePhases, target
<1>4. /\ mem.shape = inputs.schema[block.schema].shape
      /\ mem.queries = inputs.queries[block.queries].queries
      /\ mem.optionsTag =
           OptionsFingerprint(target.options,
                              OverlayContent(target, inputs.overlay))
  BY DEF MemoryFresh, TargetPhases, WritePhases
<1> QED
  BY <1>2, <1>3, <1>4 DEF RunFile, RunHeader, RunBody, FreshFile, SchemaFingerprint

\* Writing an output of the current target leaves the others' as they were.
LEMMA WriteFresh ==
  ASSUME IInv, MemoryFresh, FilesFresh, steady, Disjoint(inputs.config),
         gen.pc \in TargetPhases, inputs' = inputs,
         gen'.b = gen.b, gen'.t = gen.t,
         NEW l \in Outputs(target), NEW file, disk' = [disk EXCEPT ![l] = file]
  PROVE  /\ \A i \in 1..(gen'.b - 1) : BlockFresh(i)'
         /\ \A j \in 1..(gen'.t - 1) : TargetFresh(gen.b, j)'
<1> DEFINE blocks == inputs.config.blocks
<1>1. gen.pc # "idle" /\ gen.pc \in WritePhases
  BY DEF TargetPhases, WritePhases
<1>2. /\ blocks \in Seq(Block) /\ gen.b \in DOMAIN blocks
      /\ block = blocks[gen.b] /\ block.targets \in Seq(Target)
  BY <1>1, SteadyBlock
<1>3. gen.t \in DOMAIN block.targets /\ target = blocks[gen.b].targets[gen.t]
  BY <1>2, TargetType DEF IInv, RunConsistent, target
<1>4. ASSUME NEW i \in DOMAIN blocks, NEW j \in DOMAIN blocks[i].targets,
             i # gen.b \/ j # gen.t, TargetFresh(i, j)
      PROVE  TargetFresh(i, j)'
  <2>1. l \notin Outputs(blocks[i].targets[j])
    BY <1>2, <1>3, <1>4, DisjointOutputs
  <2>2. blocks[i].targets[j] \in Target
    <3>1. blocks[i] \in Block
      BY <1>2
    <3> QED
      BY <3>1 DEF Block
  <2>3. \A k \in Outputs(blocks[i].targets[j]) : disk'[k] = disk[k]
    BY <2>1, <2>2, OutputsAreLocations DEF IInv, TypeOK
  <2> QED
    BY <1>4, <2>3 DEF TargetFresh, Fresh
<1>5. /\ \A i \in 1..(gen.b - 1) : BlockFresh(i)
      /\ \A j \in 1..(gen.t - 1) : TargetFresh(gen.b, j)
  BY <1>1 DEF FilesFresh
<1>6. ASSUME NEW i \in 1..(gen.b - 1) PROVE BlockFresh(i)'
  <2>1. i \in DOMAIN blocks /\ i # gen.b
    BY <1>2
  <2> QED
    BY <1>4, <1>5, <2>1 DEF BlockFresh
<1>7. ASSUME NEW j \in 1..(gen.t - 1) PROVE TargetFresh(gen.b, j)'
  <2>1. j \in DOMAIN blocks[gen.b].targets /\ j # gen.t
    BY <1>2, <1>3
  <2>2. TargetFresh(gen.b, j)
    BY <1>5
  <2> HIDE DEF blocks
  <2>3. \A i \in DOMAIN blocks : \A k \in DOMAIN blocks[i].targets :
          (i # gen.b \/ k # gen.t) /\ TargetFresh(i, k) => TargetFresh(i, k)'
    BY <1>4
  <2> QED
    BY <1>2, <2>1, <2>2, <2>3
<1> QED
  BY <1>6, <1>7

\* A step of the run ends it with an error, is at the end of a block, or
\* stays in its block.
LEMMA StepControl ==
  ASSUME IInv, GenerateStep
  PROVE  /\ gen.pc # "idle"
         /\ \/ gen'.pc = "idle" /\ gen'.outcome = "err"
            \/ BlockDone
            \/ /\ gen'.pc # "idle" /\ gen'.outcome = gen.outcome
               /\ gen'.cfg = gen.cfg /\ gen'.b = gen.b
<1>1. gen \in Control
  BY DEF IInv, TypeOK
<1>2. CASE Fail /\ ~At("idle")
  BY <1>2 DEF Fail, Exit, Idle, At
<1>3. CASE BlockDone
  BY <1>3 DEF BlockDone, At
<1>4. CASE \E next \in Phases \ {"idle"} :
             ~At("idle") /\ gen' = [gen EXCEPT !.pc = next]
  BY <1>1, <1>4 DEF Control, At
<1>5. CASE LoadCatalog \/ AnalyzeQueries \/ FingerprintOptions \/ SkipRbs
  BY <1>2, <1>4, <1>5
  DEF LoadCatalog, AnalyzeQueries, FingerprintOptions, SkipRbs, Goto, At,
      Phases, PlanPhases, WritePhases
<1>6. CASE ResolveTarget
  BY <1>1, <1>2, <1>6 DEF ResolveTarget, At, Control
<1>7. CASE CheckPaths \/ RecordWritten
  BY <1>1, <1>2, <1>7 DEF CheckPaths, RecordWritten, At, Control
<1>8. CASE RenderFails \/ WriteFails \/ OpenRbsFails
  BY <1>2, <1>8 DEF RenderFails, WriteFails, OpenRbsFails, At
<1>9. CASE RenderAndOpen \/ FinishMain \/ OpenRbs \/ FinishRbs
  BY <1>4, <1>9 DEF RenderAndOpen, FinishMain, OpenRbs, FinishRbs, Open, Close,
                    Goto, At, Phases, WritePhases
<1> QED
  BY <1>3, <1>5, <1>6, <1>7, <1>8, <1>9 DEF GenerateStep

LEMMA NextRunning ==
  ASSUME IInv, RunningHasNoOutcome, [Next]_vars
  PROVE  RunningHasNoOutcome'
<1>1. ASSUME NEW flags \in Flags, StartGenerate(flags) PROVE RunningHasNoOutcome'
  BY <1>1 DEF StartGenerate, Exit, Idle, RunningHasNoOutcome
<1>2. CASE BlockDone
  <2>1. gen.pc = "options" /\ gen.outcome = "none" /\ gen \in Control
    BY <1>2 DEF BlockDone, At, RunningHasNoOutcome, IInv, TypeOK
  <2> QED
    BY <1>2, <2>1 DEF BlockDone, NextBlock, BeginBlock, Finish, Exit, Idle,
                      RunningHasNoOutcome, Control
<1>3. CASE GenerateStep /\ ~BlockDone
  BY <1>3, StepControl DEF RunningHasNoOutcome
<1>4. CASE Killed
  BY <1>4 DEF Killed, Exit, Idle, RunningHasNoOutcome
<1>5. CASE Edit \/ UNCHANGED vars
  <2>1. gen' = gen
    BY <1>5 DEF Edit, EditConfig, EditSchema, EditQueries, EditOverlay, Edited,
                vars, genVars
  <2> QED
    BY <2>1 DEF RunningHasNoOutcome
<1> QED
  BY <1>1, <1>2, <1>3, <1>4, <1>5 DEF Next

\* At the end of a block everything up to it is fresh and was usable.
LEMMA BlockEnds ==
  ASSUME IInv, MemoryFresh, FilesFresh, QueriesWereUsable, steady,
         gen.pc = "options", gen.t > Len(block.targets)
  PROVE  /\ \A i \in 1..gen.b : BlockUsable(i)
         /\ Disjoint(inputs.config) => \A i \in 1..gen.b : BlockFresh(i)
<1>1. /\ block = inputs.config.blocks[gen.b] /\ block.targets \in Seq(Target)
      /\ gen.t \in 1..(Len(block.targets) + 1)
      /\ inputs.config.blocks \in Seq(Block) /\ gen.b \in DOMAIN inputs.config.blocks
  BY SteadyBlock
<1>2. 1..gen.b = 1..(gen.b - 1) \cup {gen.b}
  BY <1>1
<1>3. BlockUsable(gen.b)
  BY <1>1 DEF MemoryFresh, WritePhases, BlockUsable
<1>4. ASSUME Disjoint(inputs.config)
      PROVE  BlockFresh(gen.b) /\ \A i \in 1..(gen.b - 1) : BlockFresh(i)
  <2>1. /\ \A j \in 1..(gen.t - 1) : TargetFresh(gen.b, j)
        /\ \A i \in 1..(gen.b - 1) : BlockFresh(i)
    BY <1>4 DEF FilesFresh, WritePhases
  <2>2. DOMAIN block.targets = 1..(gen.t - 1)
    BY <1>1
  <2> QED
    BY <1>1, <2>1, <2>2 DEF BlockFresh
<1> QED
  BY <1>2, <1>3, <1>4 DEF QueriesWereUsable

LEMMA NextUsable ==
  ASSUME IInv, FreshInv, [Next]_vars
  PROVE  QueriesWereUsable'
<1> SUFFICES ASSUME steady' PROVE QueriesWereUsable'
  BY DEF QueriesWereUsable
<1> USE DEF FreshInv
<1>1. ASSUME NEW flags \in Flags, StartGenerate(flags) PROVE QueriesWereUsable'
  <2>1. CASE gen'.pc # "idle"
    <3>1. gen'.b = 1 /\ gen'.outcome = "none"
      BY <1>1, <2>1 DEF StartGenerate, Exit, Idle
    <3> QED
      BY <3>1 DEF QueriesWereUsable
  <2>2. CASE gen'.pc = "idle" /\ gen'.outcome \in {"ok", "invalid"}
    <3>1. inputs' = inputs /\ inputs.config.blocks = <<>>
      BY <1>1, <2>2 DEF StartGenerate, Exit, Idle
    <3> QED
      BY <2>2, <3>1 DEF QueriesWereUsable
  <2> QED
    BY <2>1, <2>2 DEF QueriesWereUsable
<1> SUFFICES ASSUME inputs' = inputs, steady' = steady, steady, [Next]_vars,
                    ~\E flags \in Flags : StartGenerate(flags)
             PROVE  QueriesWereUsable'
  BY <1>1, StepSteady
<1>2. \A i : BlockUsable(i)' = BlockUsable(i)
  BY DEF BlockUsable, QueriesUsable
<1>3. gen \in Control
  BY DEF IInv, TypeOK
<1>4. CASE BlockDone
  <2>1. gen.pc = "options" /\ gen.t > Len(block.targets)
    BY <1>4 DEF BlockDone, At
  <2>2. \A i \in 1..gen.b : BlockUsable(i)
    BY <2>1, BlockEnds
  <2>3. /\ gen.cfg = inputs.config /\ inputs.config.blocks \in Seq(Block)
        /\ gen.b \in DOMAIN inputs.config.blocks
    BY <2>1, SteadyBlock
  <2>4. CASE gen.b < Len(gen.cfg.blocks)
    <3>1. gen' = [gen EXCEPT !.pc = "catalog", !.b = gen.b + 1, !.t = 1]
      BY <1>4, <2>4 DEF BlockDone, NextBlock, BeginBlock
    <3>2. gen'.b - 1 = gen.b /\ gen'.outcome = gen.outcome
      BY <1>3, <3>1 DEF Control
    <3>3. gen.outcome = "none"
      BY <2>1 DEF RunningHasNoOutcome
    <3> QED
      BY <1>2, <2>2, <3>2, <3>3 DEF QueriesWereUsable
  <2>5. CASE ~(gen.b < Len(gen.cfg.blocks))
    <3>1. gen'.pc = "idle"
      BY <1>4, <2>5 DEF BlockDone, NextBlock, Finish, Exit, Idle
    <3>2. DOMAIN inputs.config.blocks = 1..gen.b
      BY <2>3, <2>5
    <3> QED
      BY <1>2, <2>2, <3>1, <3>2 DEF QueriesWereUsable
  <2> QED
    BY <2>4, <2>5
<1>5. CASE gen'.pc = "idle" /\ gen'.outcome \notin {"ok", "invalid"}
  BY <1>5 DEF QueriesWereUsable
<1>6. CASE gen' = gen
  BY <1>2, <1>6 DEF QueriesWereUsable
<1>7. CASE GenerateStep /\ ~BlockDone
  <2>1. CASE gen'.pc = "idle" /\ gen'.outcome = "err"
    BY <1>5, <2>1
  <2>2. CASE gen'.pc # "idle" /\ gen'.b = gen.b /\ gen.pc # "idle"
    <3>1. gen'.outcome = "none"
      BY <2>2, NextRunning DEF RunningHasNoOutcome
    <3> QED
      BY <1>2, <2>2, <3>1 DEF QueriesWereUsable
  <2> QED
    BY <1>7, <2>1, <2>2, StepControl
<1>8. CASE Killed
  BY <1>5, <1>8 DEF Killed, Exit, Idle
<1>9. CASE Edit \/ UNCHANGED vars
  BY <1>6, <1>9 DEF Edit, EditConfig, EditSchema, EditQueries, EditOverlay,
                    Edited, vars, genVars
<1> QED
  BY <1>4, <1>7, <1>8, <1>9 DEF Next

\* A step that leaves the disk alone and stays at its target.
LEMMA QuietFresh ==
  ASSUME IInv, FilesFresh, gen.pc # "idle",
         inputs' = inputs, steady' = steady, disk' = disk,
         gen'.b = gen.b, gen'.t = gen.t, block' = block, target' = target,
         gen'.pc \in WritePhases => gen.pc \in WritePhases,
         gen'.pc \in {"rbs", "rbswrite", "record"} =>
           gen.pc \in {"rbs", "rbswrite", "record"},
         gen'.pc = "record" => ~EmitsRbs(target.backend)
  PROVE  FilesFresh'
<1>1. /\ \A l, blk, t : Fresh(l, blk, t)' = Fresh(l, blk, t)
      /\ \A i, j : TargetFresh(i, j)' = TargetFresh(i, j)
      /\ \A i : BlockFresh(i)' = BlockFresh(i)
  BY DEF BlockFresh, TargetFresh, Fresh
<1>2. Location(MainPath(target))' = Location(MainPath(target))
  BY DEF Location, MainPath
<1>3. Fresh(Location(MainPath(target)), block, target)' =
        Fresh(Location(MainPath(target)), block, target)
  BY <1>2 DEF Fresh
<1>4. \A j : TargetFresh(gen.b, j)' = TargetFresh(gen.b, j)
  BY DEF TargetFresh, Fresh
<1> QED
  BY <1>1, <1>3, <1>4 DEF FilesFresh

LEMMA OpenFresh ==
  ASSUME IInv, FreshInv, steady, Disjoint(inputs.config),
         RenderAndOpen \/ OpenRbs, inputs' = inputs
  PROVE  FilesFresh'
<1> DEFINE main == Location(MainPath(target))
<1> DEFINE rbs == Location(RbsPath(target))
<1>1. PICK next \in {"write", "rbswrite"} : Goto(next)
  BY DEF RenderAndOpen, OpenRbs, Open
<1>2. /\ gen'.pc = next /\ gen'.b = gen.b /\ gen'.t = gen.t
      /\ block' = block /\ target' = target
  BY <1>1, SameBlock DEF Goto, Phases, WritePhases
<1>3. gen.pc \in TargetPhases
  BY DEF RenderAndOpen, OpenRbs, At, TargetPhases, WritePhases
<1>4. /\ target \in Target /\ main \in Outputs(target) \cap Locations
      /\ EmitsRbs(target.backend) => rbs \in Outputs(target) \cap Locations
  BY <1>3, TargetType, OutputLocations, CurrentOutputs DEF IInv, RunConsistent
<1>5. PICK l \in Outputs(target) : \E torn : disk' = [disk EXCEPT ![l] = torn]
  BY <1>4 DEF RenderAndOpen, OpenRbs, Open
<1>6. /\ \A i \in 1..(gen'.b - 1) : BlockFresh(i)'
      /\ \A j \in 1..(gen'.t - 1) : TargetFresh(gen.b, j)'
  BY <1>2, <1>3, <1>5, WriteFresh DEF FreshInv
<1>7. ASSUME next = "rbswrite" PROVE Fresh(main, block, target)'
  <2>1. OpenRbs
    <3>1. gen' = [gen EXCEPT !.pc = "rbswrite"] /\ gen'.pc # "write"
      BY <1>1, <1>2, <1>7 DEF Goto
    <3>2. RenderAndOpen => gen' = [gen EXCEPT !.pc = "write"]
      BY DEF RenderAndOpen, Open, Goto
    <3>3. gen \in Control
      BY DEF IInv, TypeOK
    <3>4. RenderAndOpen => gen'.pc = "write"
      BY <3>2, <3>3 DEF Control
    <3> QED
      BY <3>1, <3>4
  <2>2. Fresh(main, block, target)
    BY <2>1 DEF OpenRbs, At, FreshInv, FilesFresh
  <2>3. main # rbs
    BY <1>4, PathsAssumption DEF Location, MainPath, RbsPath, Target
  <2>4. disk'[main] = disk[main]
    BY <1>4, <2>1, <2>3 DEF OpenRbs, Open, IInv, TypeOK
  <2>5. main' = main
    BY <1>2 DEF Location, MainPath
  <2> QED
    BY <1>2, <2>2, <2>4, <2>5 DEF Fresh
<1> HIDE DEF main
<1> QED
  BY <1>2, <1>6, <1>7 DEF FilesFresh, main

LEMMA CloseFresh ==
  ASSUME IInv, FreshInv, steady, Disjoint(inputs.config),
         FinishMain \/ FinishRbs, inputs' = inputs
  PROVE  FilesFresh'
<1> DEFINE main == Location(MainPath(target))
<1> DEFINE rbs == Location(RbsPath(target))
<1>1. gen.pc \in TargetPhases /\ gen.pc \in {"write", "rbswrite"}
  BY DEF FinishMain, FinishRbs, At, TargetPhases, WritePhases
<1>2. /\ target \in Target /\ main \in Outputs(target) \cap Locations
      /\ EmitsRbs(target.backend) => rbs \in Outputs(target) \cap Locations
  BY <1>1, TargetType, OutputLocations, CurrentOutputs DEF IInv, RunConsistent
<1>3. RunFile = FreshFile(block, target, inputs)
  BY <1>1, RunFileFresh DEF FreshInv
<1>4. CASE FinishMain
  <2>1. Goto("rbs") /\ disk' = [disk EXCEPT ![main] = RunFile]
    BY <1>4 DEF FinishMain, Close
  <2>2. /\ gen'.pc = "rbs" /\ gen'.b = gen.b /\ gen'.t = gen.t
        /\ block' = block /\ target' = target
    BY <2>1, SameBlock DEF Goto, Phases, WritePhases
  <2>3. /\ \A i \in 1..(gen'.b - 1) : BlockFresh(i)'
        /\ \A j \in 1..(gen'.t - 1) : TargetFresh(gen.b, j)'
    BY <1>1, <1>2, <2>1, <2>2, WriteFresh DEF FreshInv
  <2>4. Fresh(main, block, target)'
    <3>1. disk'[main] = RunFile
      BY <1>2, <2>1 DEF IInv, TypeOK
    <3>2. main' = main
      BY <2>2 DEF Location, MainPath
    <3> QED
      BY <1>3, <2>2, <3>1, <3>2 DEF Fresh
  <2> HIDE DEF main
  <2> QED
    BY <2>2, <2>3, <2>4 DEF FilesFresh, main
<1>5. CASE FinishRbs
  <2>1. /\ gen.pc = "rbswrite" /\ Goto("record")
        /\ disk' = [disk EXCEPT ![rbs] = RunFile]
    BY <1>5 DEF FinishRbs, Close, At
  <2>2. /\ gen'.pc = "record" /\ gen'.b = gen.b /\ gen'.t = gen.t
        /\ block' = block /\ target' = target
    BY <2>1, SameBlock DEF Goto, Phases, WritePhases
  <2>3. EmitsRbs(target.backend)
    BY <2>1 DEF IInv, RunConsistent, ControlOK
  <2>4. /\ \A i \in 1..(gen'.b - 1) : BlockFresh(i)'
        /\ \A j \in 1..(gen'.t - 1) : TargetFresh(gen.b, j)'
    BY <1>1, <1>2, <2>1, <2>2, <2>3, WriteFresh DEF FreshInv
  <2>5. main' = main /\ rbs' = rbs
    BY <2>2 DEF Location, MainPath, RbsPath
  <2>6. Fresh(rbs, block, target)'
    <3>1. disk'[rbs] = RunFile
      BY <1>2, <2>1, <2>3 DEF IInv, TypeOK
    <3> QED
      BY <1>3, <2>2, <2>5, <3>1 DEF Fresh
  <2>7. Fresh(main, block, target)'
    <3>1. Fresh(main, block, target)
      BY <2>1 DEF FreshInv, FilesFresh
    <3>2. main # rbs
      BY <1>2, PathsAssumption DEF Location, MainPath, RbsPath, Target
    <3>3. disk'[main] = disk[main]
      BY <1>2, <2>1, <3>2 DEF IInv, TypeOK
    <3> QED
      BY <2>2, <2>5, <3>1, <3>3 DEF Fresh
  <2> HIDE DEF main, rbs
  <2> QED
    BY <2>2, <2>4, <2>6, <2>7 DEF FilesFresh, main, rbs
<1> QED
  BY <1>4, <1>5

LEMMA RecordFresh ==
  ASSUME IInv, FreshInv, steady, Disjoint(inputs.config),
         RecordWritten, inputs' = inputs
  PROVE  FilesFresh'
<1>1. /\ gen.pc = "record" /\ disk' = disk /\ gen \in Control
      /\ gen' = [gen EXCEPT !.pc = "options", !.t = @ + 1]
  BY DEF RecordWritten, At, IInv, TypeOK
<1>2. /\ gen'.pc = "options" /\ gen'.b = gen.b /\ gen'.t = gen.t + 1
      /\ gen.t \in Nat \ {0}
  BY <1>1 DEF Control, IInv, RunConsistent, ControlOK
<1>3. block = inputs.config.blocks[gen.b]
  BY <1>1, SteadyBlock DEF FreshInv
<1>4. TargetFresh(gen.b, gen.t)
  BY <1>1, <1>3 DEF FreshInv, FilesFresh, TargetFresh, Outputs, ArtifactPaths, target
<1>5. /\ \A j \in 1..(gen.t - 1) : TargetFresh(gen.b, j)
      /\ \A i \in 1..(gen.b - 1) : BlockFresh(i)
  BY <1>1 DEF FreshInv, FilesFresh, WritePhases
<1>6. \A j \in 1..gen.t : TargetFresh(gen.b, j)
  <2>1. 1..gen.t = 1..(gen.t - 1) \cup {gen.t}
    BY <1>2
  <2> QED
    BY <1>4, <1>5, <2>1
<1>7. /\ \A j : TargetFresh(gen.b, j)' = TargetFresh(gen.b, j)
      /\ \A i : BlockFresh(i)' = BlockFresh(i)
  BY <1>1, <1>2 DEF BlockFresh, TargetFresh, Fresh
<1>8. gen'.t - 1 = gen.t
  BY <1>2
<1> QED
  BY <1>2, <1>5, <1>6, <1>7, <1>8 DEF FilesFresh

LEMMA BlockDoneFresh ==
  ASSUME IInv, FreshInv, steady, BlockDone, inputs' = inputs
  PROVE  FilesFresh' /\ SuccessIsFresh'
<1>1. /\ gen.pc = "options" /\ gen.t > Len(block.targets) /\ disk' = disk
      /\ gen \in Control
  BY DEF BlockDone, At, IInv, TypeOK
<1>2. Disjoint(inputs.config) => \A i \in 1..gen.b : BlockFresh(i)
  BY <1>1, BlockEnds DEF FreshInv
<1>3. \A i : BlockFresh(i)' = BlockFresh(i)
  BY <1>1 DEF BlockFresh, TargetFresh, Fresh
<1>4. /\ gen.cfg = inputs.config /\ inputs.config.blocks \in Seq(Block)
      /\ gen.b \in DOMAIN inputs.config.blocks
  BY <1>1, SteadyBlock DEF FreshInv
<1>5. CASE gen.b < Len(gen.cfg.blocks)
  <2>1. gen' = [gen EXCEPT !.pc = "catalog", !.b = gen.b + 1, !.t = 1]
    BY <1>5 DEF BlockDone, NextBlock, BeginBlock
  <2>2. gen'.pc = "catalog" /\ gen'.b - 1 = gen.b /\ gen'.outcome = "none"
    BY <1>1, <2>1 DEF Control, FreshInv, RunningHasNoOutcome
  <2> QED
    BY <1>2, <1>3, <2>2 DEF FilesFresh, WritePhases, SuccessIsFresh
<1>6. CASE ~(gen.b < Len(gen.cfg.blocks))
  <2>1. gen'.pc = "idle"
    BY <1>6 DEF BlockDone, NextBlock, Finish, Exit, Idle
  <2>2. DOMAIN inputs.config.blocks = 1..gen.b
    BY <1>4, <1>6
  <2>3. ASSUME Disjoint(inputs.config), NEW x \in AllTargets(inputs.config),
               NEW l \in Outputs(TargetAt(inputs.config, x))
        PROVE  disk'[l] = FreshFile(inputs.config.blocks[x[1]],
                                    TargetAt(inputs.config, x), inputs)
    <3>1. PICK i \in DOMAIN inputs.config.blocks :
            \E j \in DOMAIN inputs.config.blocks[i].targets : x = <<i, j>>
      BY <2>3, AllTargetsPairs
    <3>2. PICK j \in DOMAIN inputs.config.blocks[i].targets : x = <<i, j>>
      BY <3>1
    <3>3. TargetFresh(i, j)
      BY <1>2, <2>2, <2>3 DEF BlockFresh
    <3> QED
      BY <1>1, <2>3, <3>2, <3>3 DEF TargetFresh, Fresh, TargetAt
  <2> QED
    BY <2>1, <2>3 DEF FilesFresh, SuccessIsFresh
<1> QED
  BY <1>5, <1>6

\* Success is claimed at the end of the last block, or of a configuration
\* without one, and only the user's edits come after.
LEMMA QuietSuccess ==
  ASSUME SuccessIsFresh, inputs' = inputs, steady' = steady, disk' = disk,
         gen'.outcome = gen.outcome \/ gen'.outcome \notin {"ok", "invalid"}
  PROVE  SuccessIsFresh'
  BY DEF SuccessIsFresh

LEMMA NextFilesFresh ==
  ASSUME IInv, FreshInv, [Next]_vars
  PROVE  FilesFresh' /\ SuccessIsFresh'
<1> SUFFICES ASSUME steady' PROVE FilesFresh' /\ SuccessIsFresh'
  BY DEF FilesFresh, SuccessIsFresh
<1>1. ASSUME NEW flags \in Flags, StartGenerate(flags)
      PROVE  FilesFresh' /\ SuccessIsFresh'
  <2>1. gen'.pc # "idle" => gen'.b = 1 /\ gen'.pc = "catalog" /\ gen'.outcome = "none"
    BY <1>1 DEF StartGenerate, Exit, Idle
  <2>2. FilesFresh'
    BY <2>1 DEF FilesFresh, WritePhases
  <2>3. CASE gen'.outcome \in {"ok", "invalid"}
    <3>1. inputs' = inputs /\ inputs.config.blocks = <<>>
      BY <1>1, <2>3 DEF StartGenerate, Exit, Idle
    <3>2. AllTargets(inputs.config) = {}
      BY <3>1, AllTargetsPairs
    <3> QED
      BY <2>2, <3>1, <3>2 DEF SuccessIsFresh
  <2> QED
    BY <2>2, <2>3 DEF SuccessIsFresh
<1> SUFFICES ASSUME inputs' = inputs, steady' = steady, steady, [Next]_vars,
                    ~\E flags \in Flags : StartGenerate(flags)
             PROVE  FilesFresh' /\ SuccessIsFresh'
  BY <1>1, StepSteady
<1>2. gen \in Control /\ SuccessIsFresh /\ FilesFresh
  BY DEF IInv, TypeOK, FreshInv
<1>3. CASE BlockDone
  BY <1>3, BlockDoneFresh
<1>4. CASE gen' = gen /\ disk' = disk
  <2>1. block' = block /\ target' = target
    BY <1>4 DEF block, target
  <2>2. SuccessIsFresh'
    BY <1>2, <1>4, QuietSuccess
  <2>3. /\ \A l, blk, t : Fresh(l, blk, t)' = Fresh(l, blk, t)
        /\ \A i, j : TargetFresh(i, j)' = TargetFresh(i, j)
        /\ \A i : BlockFresh(i)' = BlockFresh(i)
    BY <1>4 DEF BlockFresh, TargetFresh, Fresh
  <2>4. /\ Fresh(Location(MainPath(target)), block, target)' =
             Fresh(Location(MainPath(target)), block, target)
        /\ Fresh(Location(RbsPath(target)), block, target)' =
             Fresh(Location(RbsPath(target)), block, target)
        /\ \A j : TargetFresh(gen.b, j)' = TargetFresh(gen.b, j)
    BY <1>4, <2>1 DEF Fresh, TargetFresh, Location, MainPath, RbsPath
  <2> QED
    BY <1>2, <1>4, <2>1, <2>2, <2>3, <2>4 DEF FilesFresh
<1>5. CASE gen'.pc = "idle" /\ disk' = disk /\ gen'.outcome \notin {"ok", "invalid"}
  BY <1>2, <1>5, QuietSuccess DEF FilesFresh
<1>6. CASE GenerateStep /\ ~BlockDone
  <2>1. CASE gen'.pc = "idle" /\ gen'.outcome = "err"
    <3>1. disk' = disk
      <4>1. \/ RenderAndOpen \/ FinishMain \/ OpenRbs \/ FinishRbs => gen'.pc # "idle"
        BY <1>2 DEF RenderAndOpen, FinishMain, OpenRbs, FinishRbs, Open, Close,
                    Goto, Control
      <4> QED
        BY <1>6, <2>1, <4>1
        DEF GenerateStep, LoadCatalog, AnalyzeQueries, ResolveTarget, CheckPaths,
            FingerprintOptions, RenderFails, WriteFails, SkipRbs, OpenRbsFails,
            RecordWritten
    <3> QED
      BY <1>5, <2>1, <3>1
  <2>2. CASE /\ gen.pc # "idle" /\ gen'.pc # "idle" /\ gen'.outcome = gen.outcome
             /\ gen'.cfg = gen.cfg /\ gen'.b = gen.b
    <3>1. gen'.outcome = "none"
      BY <2>2 DEF FreshInv, RunningHasNoOutcome
    <3>2. SuccessIsFresh'
      BY <3>1 DEF SuccessIsFresh
    <3>3. block' = block
      BY <2>2 DEF block
    <3>4. ASSUME ~Disjoint(inputs.config) PROVE FilesFresh'
      BY <3>4 DEF FilesFresh
    <3>5. ASSUME Disjoint(inputs.config) PROVE FilesFresh'
      <4>1. CASE LoadCatalog \/ AnalyzeQueries \/ ResolveTarget \/ CheckPaths
        <5>1. /\ disk' = disk
              /\ gen'.pc \in PlanPhases \/ (gen'.pc = "options" /\ gen'.t = 1)
          <6>1. ~Fail /\ disk' = disk
            BY <2>2, <4>1 DEF LoadCatalog, AnalyzeQueries, ResolveTarget,
                              CheckPaths, Fail, Exit, Idle
          <6>2. CASE LoadCatalog \/ AnalyzeQueries
            <7>1. PICK next \in {"queries", "resolve"} :
                    gen' = [gen EXCEPT !.pc = next]
              BY <6>1, <6>2 DEF LoadCatalog, AnalyzeQueries, Goto
            <7>2. gen'.pc = next
              BY <1>2, <7>1 DEF Control
            <7> QED
              BY <6>1, <7>2 DEF PlanPhases
          <6>3. CASE ResolveTarget
            <7>1. gen.pc = "resolve" /\ gen' = [gen EXCEPT !.t = @ + 1]
              BY <6>1, <6>3 DEF ResolveTarget, At
            <7>2. gen'.pc = "resolve"
              BY <1>2, <7>1 DEF Control
            <7> QED
              BY <6>1, <7>2 DEF PlanPhases
          <6>4. CASE CheckPaths
            BY <1>2, <6>1, <6>4 DEF CheckPaths, Control
          <6> QED
            BY <4>1, <6>1, <6>2, <6>3, <6>4
        <5>2. \A i : BlockFresh(i)' = BlockFresh(i)
          BY <5>1 DEF BlockFresh, TargetFresh, Fresh
        <5>3. \A i \in 1..(gen'.b - 1) : BlockFresh(i)'
          BY <1>2, <2>2, <3>5, <5>2 DEF FilesFresh
        <5> QED
          BY <5>1, <5>3 DEF FilesFresh, PlanPhases, WritePhases
      <4>2. CASE FingerprintOptions \/ SkipRbs
        <5>1. PICK next \in {"render", "record"} :
                /\ Goto(next) /\ disk' = disk
                /\ next = "render" => gen.pc = "options"
                /\ next = "record" => gen.pc = "rbs" /\ ~EmitsRbs(target.backend)
          BY <2>2, <4>2 DEF FingerprintOptions, SkipRbs, Fail, Exit, Idle, At
        <5>2. gen'.pc = next /\ gen'.t = gen.t /\ target' = target
          BY <5>1, SameBlock DEF Goto, Phases, WritePhases
        <5> QED
          BY <1>2, <2>2, <3>3, <5>1, <5>2, QuietFresh DEF WritePhases
      <4>3. CASE RenderAndOpen \/ OpenRbs
        BY <3>5, <4>3, OpenFresh
      <4>4. CASE FinishMain \/ FinishRbs
        BY <3>5, <4>4, CloseFresh
      <4>5. CASE RecordWritten
        BY <3>5, <4>5, RecordFresh
      <4>6. CASE RenderFails \/ WriteFails \/ OpenRbsFails
        BY <2>2, <4>6 DEF RenderFails, WriteFails, OpenRbsFails, Fail, Exit, Idle
      <4> QED
        BY <1>6, <4>1, <4>2, <4>3, <4>4, <4>5, <4>6 DEF GenerateStep
    <3> QED
      BY <3>2, <3>4, <3>5
  <2> QED
    BY <1>6, <2>1, <2>2, StepControl
<1>7. CASE Killed
  BY <1>5, <1>7 DEF Killed, Exit, Idle
<1>8. CASE Edit \/ UNCHANGED vars
  BY <1>4, <1>8 DEF Edit, EditConfig, EditSchema, EditQueries, EditOverlay,
                    Edited, vars, genVars
<1> QED
  BY <1>3, <1>6, <1>7, <1>8 DEF Next

LEMMA NextFresh == IInv /\ FreshInv /\ [Next]_vars => FreshInv'
<1> SUFFICES ASSUME IInv, FreshInv, [Next]_vars PROVE FreshInv'
  OBVIOUS
<1>1. RunningHasNoOutcome' /\ MemoryFresh'
  BY NextRunning, NextMemoryFresh DEF FreshInv
<1>2. FilesFresh' /\ SuccessIsFresh' /\ QueriesWereUsable'
  BY NextFilesFresh, NextUsable
<1> QED
  BY <1>1, <1>2 DEF FreshInv

\* Whatever was killed or failed before, over inputs nobody changes a run
\* that succeeds has read, written and finished what the inputs hold.
THEOREM SpecFreshInv == Spec => []FreshInv
<1>1. Init => FreshInv
  BY DEF Init, Idle, FreshInv, RunningHasNoOutcome, MemoryFresh, FilesFresh,
         QueriesWereUsable, SuccessIsFresh
<1> QED
  BY <1>1, NextFresh, SpecIInv, PTL DEF Spec

\* After a run that succeeds over inputs nobody changed, every target's files
\* are those a run from scratch would leave.
THEOREM SpecSuccessIsFresh == Spec => []SuccessIsFresh
<1>1. FreshInv => SuccessIsFresh
  BY DEF FreshInv
<1> QED
  BY <1>1, SpecFreshInv, PTL

-----------------------------------------------------------------------------
(* What a run that succeeds has accepted. *)

SourcesValid ==
  /\ inputs.config \in Configs /\ inputs.config # Unreadable
  /\ \A i \in DOMAIN inputs.config.blocks : SchemaSourceValid(inputs.config.blocks[i])

\* The first n targets of a block resolve, with --allow-output-escape at least.
TargetsResolve(blk, n) ==
  \A j \in 1..n : TargetResolves(blk, blk.targets[j], inputs.overlay, TRUE)

\* The queries of a block render for its first n targets.
TargetsRender(blk, n) ==
  \A j \in 1..n : Renders(inputs.queries[blk.queries].queries, blk.targets[j].backend,
                         OverlayContent(blk.targets[j], inputs.overlay))

BlockAccepted(blk) ==
  /\ inputs.schema[blk.schema].ok
  /\ blk.resolvable
  /\ TargetsResolve(blk, Len(blk.targets))
  /\ TargetsRender(blk, Len(blk.targets))

\* What a run has accepted of the block it is at.
AcceptedSoFar ==
  /\ gen.pc # "catalog" => inputs.schema[block.schema].ok
  /\ gen.pc \notin {"catalog", "queries"} => block.resolvable
  /\ gen.pc = "resolve" => TargetsResolve(block, gen.t - 1)
  /\ gen.pc \in WritePhases => /\ TargetsResolve(block, Len(block.targets))
                              /\ TargetsRender(block, gen.t - 1)
  /\ gen.pc \in TargetPhases \ {"render"} => TargetsRender(block, gen.t)

InputsAccepted ==
  steady =>
    /\ gen.pc # "idle" =>
         /\ SourcesValid /\ AcceptedSoFar
         /\ \A i \in 1..(gen.b - 1) : BlockAccepted(inputs.config.blocks[i])
    /\ gen.outcome \in {"ok", "invalid"} =>
         /\ SourcesValid
         /\ \A i \in DOMAIN inputs.config.blocks : BlockAccepted(inputs.config.blocks[i])

LEMMA SameAcceptance ==
  ASSUME inputs' = inputs
  PROVE  /\ SourcesValid' = SourcesValid
         /\ \A blk, n : TargetsResolve(blk, n)' = TargetsResolve(blk, n)
         /\ \A blk, n : TargetsRender(blk, n)' = TargetsRender(blk, n)
         /\ \A i : BlockAccepted(inputs.config.blocks[i])' =
                     BlockAccepted(inputs.config.blocks[i])
<1>1. SourcesValid' = SourcesValid
  BY DEF SourcesValid
<1>2. \A blk, n : TargetsResolve(blk, n)' = TargetsResolve(blk, n)
  BY DEF TargetsResolve
<1>3. \A blk, n : TargetsRender(blk, n)' = TargetsRender(blk, n)
  BY DEF TargetsRender
<1>4. \A blk : BlockAccepted(blk)' = BlockAccepted(blk)
  BY <1>2, <1>3 DEF BlockAccepted
<1>5. \A i : inputs'.config.blocks[i] = inputs.config.blocks[i]
  OBVIOUS
<1> QED
  BY <1>1, <1>2, <1>3, <1>4, <1>5

\* At the end of a block everything up to it has been accepted.
LEMMA BlockIsAccepted ==
  ASSUME IInv, MemoryFresh, InputsAccepted, steady,
         gen.pc = "options", gen.t > Len(block.targets)
  PROVE  \A i \in 1..gen.b : BlockAccepted(inputs.config.blocks[i])
<1>1. /\ block = inputs.config.blocks[gen.b] /\ inputs.config.blocks \in Seq(Block)
      /\ gen.b \in DOMAIN inputs.config.blocks
  BY SteadyBlock
<1>2. 1..gen.b = 1..(gen.b - 1) \cup {gen.b}
  BY <1>1
<1>3. gen.t - 1 = Len(block.targets)
  BY SteadyBlock
<1>4. BlockAccepted(block)
  BY <1>3 DEF InputsAccepted, AcceptedSoFar, WritePhases, BlockAccepted
<1> QED
  BY <1>1, <1>2, <1>4 DEF InputsAccepted

\* A step within a block accepts what it goes past.
LEMMA AcceptStep ==
  ASSUME IInv, MemoryFresh, InputsAccepted, steady, inputs' = inputs,
         gen.pc # "idle", GenerateStep, ~BlockDone, gen'.pc # "idle"
  PROVE  AcceptedSoFar'
<1>1. /\ gen \in Control /\ block \in Block /\ block.targets \in Seq(Target)
      /\ gen.t \in 1..(Len(block.targets) + 1)
  BY SteadyBlock, BlockType DEF IInv, TypeOK, RunConsistent
<1>2. AcceptedSoFar
  BY DEF InputsAccepted
<1>3. /\ \A blk, n : TargetsResolve(blk, n)' = TargetsResolve(blk, n)
      /\ \A blk, n : TargetsRender(blk, n)' = TargetsRender(blk, n)
  BY SameAcceptance
<1>4. gen'.cfg = gen.cfg /\ gen'.b = gen.b
  BY StepControl
<1>5. block' = block
  BY <1>4 DEF block
<1>6. CASE LoadCatalog
  <2>1. inputs.schema[block.schema].ok /\ gen'.pc = "queries"
    BY <1>1, <1>6 DEF LoadCatalog, Fail, Exit, Idle, Goto, Control
  <2> QED
    BY <1>5, <2>1 DEF AcceptedSoFar, WritePhases, TargetPhases
<1>7. CASE AnalyzeQueries
  <2>1. /\ block.resolvable /\ gen'.pc = "resolve" /\ gen'.t = gen.t
        /\ gen.pc = "queries"
    BY <1>1, <1>7 DEF AnalyzeQueries, At, Fail, Exit, Idle, Goto, Control
  <2>2. gen.t = 1
    BY <2>1 DEF IInv, RunConsistent, ControlOK
  <2>3. TargetsResolve(block, gen.t - 1)
    BY <2>2 DEF TargetsResolve
  <2> QED
    BY <1>2, <1>3, <1>5, <2>1, <2>3 DEF AcceptedSoFar, WritePhases, TargetPhases
<1>8. CASE ResolveTarget
  <2>1. /\ gen.pc = "resolve" /\ gen.t <= Len(block.targets)
        /\ TargetResolves(block, target, inputs.overlay, gen.flags.allow)
        /\ gen' = [gen EXCEPT !.t = gen.t + 1]
    BY <1>8 DEF ResolveTarget, At, Fail, Exit, Idle
  <2>2. gen'.pc = "resolve" /\ gen'.t - 1 = gen.t
    BY <1>1, <2>1 DEF Control
  <2>3. TargetResolves(block, block.targets[gen.t], inputs.overlay, TRUE)
    BY <2>1 DEF TargetResolves, Contained, target
  <2>4. 1..gen.t = 1..(gen.t - 1) \cup {gen.t}
    BY <1>1
  <2>5. TargetsResolve(block, gen.t)
    BY <1>2, <2>1, <2>3, <2>4 DEF AcceptedSoFar, TargetsResolve
  <2> QED
    BY <1>2, <1>3, <1>5, <2>1, <2>2, <2>5 DEF AcceptedSoFar, WritePhases, TargetPhases
<1>9. CASE CheckPaths
  <2>1. /\ gen.pc = "resolve" /\ gen.t > Len(block.targets)
        /\ gen'.pc = "options" /\ gen'.t = 1
    BY <1>1, <1>9 DEF CheckPaths, At, Fail, Exit, Idle, Control
  <2>2. gen.t - 1 = Len(block.targets)
    BY <1>1, <2>1
  <2>3. TargetsRender(block, gen'.t - 1)
    BY <2>1 DEF TargetsRender
  <2> QED
    BY <1>2, <1>3, <1>5, <2>1, <2>2, <2>3 DEF AcceptedSoFar, WritePhases, TargetPhases
<1>10. CASE FingerprintOptions
  <2>1. gen.pc = "options" /\ gen'.pc = "render" /\ gen'.t = gen.t
    BY <1>1, <1>10 DEF FingerprintOptions, At, Fail, Exit, Idle, Goto, Control
  <2> QED
    BY <1>2, <1>3, <1>5, <2>1 DEF AcceptedSoFar, WritePhases, TargetPhases
<1>11. CASE RenderAndOpen
  <2>1. /\ gen.pc = "render" /\ gen'.pc = "write" /\ gen'.t = gen.t
        /\ Renders(mem.queries, target.backend, mem.overlays[gen.t])
    BY <1>1, <1>11 DEF RenderAndOpen, At, Open, Goto, Control
  <2>2. gen.t \in DOMAIN mem.overlays /\ gen.t \in DOMAIN block.targets
    BY <1>1, <2>1 DEF IInv, TypeOK, Memory, RunConsistent, MemoryOK, ControlOK,
                      TargetPhases, WritePhases
  <2>3. /\ mem.queries = inputs.queries[block.queries].queries
        /\ mem.overlays[gen.t] = OverlayContent(block.targets[gen.t], inputs.overlay)
    BY <2>1, <2>2 DEF MemoryFresh, WritePhases
  <2>4. 1..gen.t = 1..(gen.t - 1) \cup {gen.t}
    BY <1>1
  <2>5. TargetsRender(block, gen.t)
    BY <1>2, <2>1, <2>3, <2>4 DEF AcceptedSoFar, WritePhases, TargetsRender, target
  <2> QED
    BY <1>2, <1>3, <1>5, <2>1, <2>5 DEF AcceptedSoFar, WritePhases, TargetPhases
<1>12. CASE FinishMain \/ SkipRbs \/ OpenRbs \/ FinishRbs
  <2>1. /\ gen.pc \in TargetPhases \ {"render"} /\ gen'.pc \in TargetPhases \ {"render"}
        /\ gen'.t = gen.t
    BY <1>1, <1>12 DEF FinishMain, SkipRbs, OpenRbs, FinishRbs, At, Open, Close,
       Goto, Control, WritePhases, TargetPhases
  <2> QED
    BY <1>2, <1>3, <1>5, <2>1 DEF AcceptedSoFar, WritePhases, TargetPhases
<1>13. CASE RecordWritten
  <2>1. gen.pc = "record" /\ gen'.pc = "options" /\ gen'.t - 1 = gen.t
    BY <1>1, <1>13 DEF RecordWritten, At, Control
  <2> QED
    BY <1>2, <1>3, <1>5, <2>1 DEF AcceptedSoFar, WritePhases, TargetPhases
<1>14. CASE RenderFails \/ WriteFails \/ OpenRbsFails
  BY <1>14 DEF RenderFails, WriteFails, OpenRbsFails, Fail, Exit, Idle
<1> QED
  BY <1>6, <1>7, <1>8, <1>9, <1>10, <1>11, <1>12, <1>13, <1>14 DEF GenerateStep

LEMMA NextAccepted ==
  ASSUME IInv, FreshInv, InputsAccepted, [Next]_vars
  PROVE  InputsAccepted'
<1> SUFFICES ASSUME steady' PROVE InputsAccepted'
  BY DEF InputsAccepted
<1> USE DEF FreshInv
<1>1. ASSUME NEW flags \in Flags, StartGenerate(flags) PROVE InputsAccepted'
  <2>1. inputs' = inputs /\ inputs.config \in Configs \cup {Unreadable}
    BY <1>1 DEF StartGenerate, IInv, TypeOK, Inputs
  <2>2. gen'.pc = "idle" => gen'.outcome \in {"err", "ok"}
    BY <1>1 DEF StartGenerate, Exit, Idle
  <2>3. CASE gen'.pc # "idle" \/ gen'.outcome = "ok"
    <3>1. SourcesValid
      BY <1>1, <2>1, <2>3 DEF StartGenerate, Exit, Idle, SourcesValid
    <3>2. CASE gen'.pc # "idle"
      <4>1. gen'.pc = "catalog" /\ gen'.b = 1 /\ gen'.outcome = "none"
        BY <1>1, <3>2 DEF StartGenerate, Exit, Idle
      <4> QED
        BY <2>1, <3>1, <4>1, SameAcceptance
        DEF InputsAccepted, AcceptedSoFar, WritePhases, TargetPhases
    <3>3. CASE gen'.pc = "idle"
      <4>1. DOMAIN inputs'.config.blocks = {}
        BY <1>1, <2>1, <2>3, <3>3 DEF StartGenerate, Exit, Idle
      <4> QED
        BY <2>1, <3>1, <3>3, <4>1, SameAcceptance DEF InputsAccepted
    <3> QED
      BY <3>2, <3>3
  <2>4. CASE gen'.pc = "idle" /\ gen'.outcome = "err"
    BY <2>4 DEF InputsAccepted
  <2> QED
    BY <2>2, <2>3, <2>4
<1> SUFFICES ASSUME inputs' = inputs, steady' = steady, steady, [Next]_vars,
                    ~\E flags \in Flags : StartGenerate(flags)
             PROVE  InputsAccepted'
  BY <1>1, StepSteady
<1>2. /\ SourcesValid' = SourcesValid
      /\ \A blk, n : TargetsResolve(blk, n)' = TargetsResolve(blk, n)
      /\ \A blk, n : TargetsRender(blk, n)' = TargetsRender(blk, n)
      /\ \A i : BlockAccepted(inputs.config.blocks[i])' =
                  BlockAccepted(inputs.config.blocks[i])
  BY SameAcceptance
<1>3. gen \in Control
  BY DEF IInv, TypeOK
<1>4. CASE BlockDone
  <2>1. gen.pc = "options" /\ gen.t > Len(block.targets)
    BY <1>4 DEF BlockDone, At
  <2>2. \A i \in 1..gen.b : BlockAccepted(inputs.config.blocks[i])
    BY <2>1, BlockIsAccepted
  <2>3. /\ gen.cfg = inputs.config /\ inputs.config.blocks \in Seq(Block)
        /\ gen.b \in DOMAIN inputs.config.blocks /\ SourcesValid
    BY <2>1, SteadyBlock DEF InputsAccepted
  <2>4. CASE gen.b < Len(gen.cfg.blocks)
    <3>1. gen' = [gen EXCEPT !.pc = "catalog", !.b = gen.b + 1, !.t = 1]
      BY <1>4, <2>4 DEF BlockDone, NextBlock, BeginBlock
    <3>2. /\ gen'.b - 1 = gen.b /\ gen'.outcome = gen.outcome
          /\ gen'.pc = "catalog"
      BY <1>3, <3>1 DEF Control
    <3>3. gen.outcome = "none"
      BY <2>1 DEF RunningHasNoOutcome
    <3> QED
      BY <1>2, <2>2, <2>3, <3>2, <3>3 DEF InputsAccepted, AcceptedSoFar, WritePhases, TargetPhases
  <2>5. CASE ~(gen.b < Len(gen.cfg.blocks))
    <3>1. gen'.pc = "idle"
      BY <1>4, <2>5 DEF BlockDone, NextBlock, Finish, Exit, Idle
    <3>2. DOMAIN inputs.config.blocks = 1..gen.b
      BY <2>3, <2>5
    <3> QED
      BY <1>2, <2>2, <2>3, <3>1, <3>2 DEF InputsAccepted
  <2> QED
    BY <2>4, <2>5
<1>5. CASE gen'.pc = "idle" /\ gen'.outcome \notin {"ok", "invalid"}
  BY <1>5 DEF InputsAccepted
<1>6. CASE gen' = gen
  <2>1. block' = block
    BY <1>6 DEF block
  <2>2. AcceptedSoFar' = AcceptedSoFar
    BY <1>2, <1>6, <2>1 DEF AcceptedSoFar
  <2> QED
    BY <1>2, <1>6, <2>2 DEF InputsAccepted
<1>7. CASE GenerateStep /\ ~BlockDone
  <2>1. CASE gen'.pc = "idle" /\ gen'.outcome = "err"
    BY <1>5, <2>1
  <2>2. CASE gen'.pc # "idle" /\ gen'.b = gen.b /\ gen.pc # "idle"
    <3>1. gen'.outcome = "none"
      BY <2>2, NextRunning DEF RunningHasNoOutcome
    <3>2. AcceptedSoFar'
      BY <1>7, <2>2, AcceptStep
    <3> QED
      BY <1>2, <2>2, <3>1, <3>2 DEF InputsAccepted
  <2> QED
    BY <1>7, <2>1, <2>2, StepControl
<1>8. CASE Killed
  BY <1>5, <1>8 DEF Killed, Exit, Idle
<1>9. CASE Edit \/ UNCHANGED vars
  BY <1>6, <1>9 DEF Edit, EditConfig, EditSchema, EditQueries, EditOverlay,
                    Edited, vars, genVars
<1> QED
  BY <1>4, <1>7, <1>8, <1>9 DEF Next

\* A run that succeeds over inputs nobody changes has accepted all of them: the
\* configuration, every schema, and every target and every rendering of every block.
THEOREM SpecInputsAccepted == Spec => []InputsAccepted
<1>1. Init => InputsAccepted
  BY DEF Init, Idle, InputsAccepted
<1> QED
  BY <1>1, NextAccepted, SpecIInv, SpecFreshInv, PTL DEF Spec

-----------------------------------------------------------------------------
(* The output tree as an ArtifactStore. *)

\* The file a run has open, if any, is an output of its target.
LEMMA OpenLocationType ==
  ASSUME IInv
  PROVE  OpenLocation \in Locations \cup {None}
<1>1. CASE gen.pc \in {"write", "rbswrite"}
  <2>1. target \in Target /\ (gen.pc = "rbswrite" => EmitsRbs(target.backend))
    BY <1>1, TargetType
    DEF IInv, RunConsistent, ControlOK, TargetPhases, WritePhases
  <2> QED
    BY <1>1, <2>1, OutputLocations DEF OpenLocation, At
<1>2. CASE gen.pc \notin {"write", "rbswrite"}
  BY <1>2 DEF OpenLocation, At
<1> QED
  BY <1>1, <1>2

\* Before the first run nothing is open and nothing is finished.
LEMMA InitStore == Init => Store!StoreInit
<1> SUFFICES ASSUME Init PROVE Store!StoreInit
  OBVIOUS
<1>1. \A f \in {AbsentFile} \cup Foreign : f \in FileStates /\ ~Intact(f)
  BY ForeignAssumption DEF AbsentFile, FileStates, Intact
<1>2. OpenLocation = None
  BY DEF Init, Idle, OpenLocation, At
<1>3. disk \in [Locations -> {AbsentFile} \cup Foreign]
  BY DEF Init
<1> QED
  BY <1>1, <1>2, <1>3 DEF Store!StoreInit

\* A step that leaves the disk and the open file alone stutters, and one that
\* only forgets the open file abandons it.
LEMMA QuietStore ==
  ASSUME IInv, UNCHANGED disk, OpenLocation' \in {OpenLocation, None}
  PROVE  [Store!StoreNext]_Store!storeVars
<1>1. CASE OpenLocation' = OpenLocation
  BY <1>1 DEF Store!storeVars
<1>2. CASE OpenLocation' = None /\ OpenLocation # None
  BY <1>2 DEF Store!StoreNext, Store!AbandonFile
<1> QED
  BY <1>1, <1>2

LEMMA OpenStore ==
  ASSUME IInv, NEW l \in Locations, NEW next \in TargetPhases,
         gen.pc \in TargetPhases, Open(l, next),
         OpenLocation = None, OpenLocation' = l
  PROVE  Store!StoreNext
<1>1. PICK torn \in TornFiles(RunFile) : disk' = [disk EXCEPT ![l] = torn]
  BY DEF Open
<1>2. RunHeader \in Header /\ RunBody \in Body
  BY RunFileType DEF IInv
<1>3. torn \in FileStates /\ ~Intact(torn)
  BY <1>1, <1>2, TornFileType DEF RunFile
<1>4. disk \in [Locations -> FileStates]
  BY DEF IInv, TypeOK
<1>5. disk'[l] = torn
  BY <1>1, <1>4
<1>6. disk[l].kind # "unreadable"
  BY DEF Open
<1>7. Store!OpenFile(l)
  BY <1>1, <1>3, <1>5, <1>6 DEF Store!OpenFile, Writable
<1> QED
  BY <1>7 DEF Store!StoreNext

LEMMA CloseStore ==
  ASSUME IInv, NEW l \in Locations, NEW next \in TargetPhases,
         gen.pc \in TargetPhases, Close(l, next),
         OpenLocation = l, OpenLocation' = None
  PROVE  Store!StoreNext
<1>1. disk' = [disk EXCEPT ![l] = RunFile]
  BY DEF Close
<1>2. /\ RunFile \in FileStates /\ Intact(RunFile)
      /\ HeaderTells(RunFile.header, RunFile.body)
  BY RunFileType DEF IInv
<1>3. disk \in [Locations -> FileStates]
  BY DEF IInv, TypeOK
<1>4. disk'[l] = RunFile
  BY <1>1, <1>3
<1>5. l # None
  BY DistinctAssumption
<1>6. Store!CloseFile
  BY <1>1, <1>2, <1>4, <1>5 DEF Store!CloseFile, Truthful
<1> QED
  BY <1>6 DEF Store!StoreNext

\* At the phases between two files nothing is open; a step from one of them
\* that leaves the disk alone and stays among them is invisible.
LEMMA BetweenFiles ==
  ASSUME IInv, UNCHANGED disk, gen'.pc \notin {"write", "rbswrite"}
  PROVE  [Store!StoreNext]_Store!storeVars
<1>1. OpenLocation' = None
  BY DEF OpenLocation, At
<1> QED
  BY <1>1, QuietStore

\* A run that fails or ends has no file open.
LEMMA ExitStore ==
  ASSUME IInv, UNCHANGED disk, NEW outcome, Exit(outcome)
  PROVE  [Store!StoreNext]_Store!storeVars
<1>1. gen'.pc = "idle"
  BY DEF Exit, Idle
<1> QED
  BY <1>1, BetweenFiles

LEMMA FailStore ==
  ASSUME IInv, UNCHANGED disk, Fail
  PROVE  [Store!StoreNext]_Store!storeVars
  BY ExitStore DEF Fail

LEMMA PlanStore ==
  ASSUME IInv, LoadCatalog \/ AnalyzeQueries \/ ResolveTarget \/ CheckPaths
  PROVE  [Store!StoreNext]_Store!storeVars
<1>1. UNCHANGED disk /\ gen \in Control
  BY DEF LoadCatalog, AnalyzeQueries, ResolveTarget, CheckPaths, IInv, TypeOK
<1>2. CASE Fail
  BY <1>1, <1>2, FailStore
<1>3. CASE ~Fail
  <2>1. gen'.pc \in {"queries", "resolve", "options"}
    BY <1>1, <1>3 DEF LoadCatalog, AnalyzeQueries, ResolveTarget, CheckPaths,
                      At, Goto, Control
  <2> QED
    BY <1>1, <2>1, BetweenFiles
<1> QED
  BY <1>2, <1>3

LEMMA TurnStore ==
  ASSUME IInv, FingerprintOptions \/ BlockDone \/ SkipRbs \/ RecordWritten
  PROVE  [Store!StoreNext]_Store!storeVars
<1>1. UNCHANGED disk /\ gen \in Control
  BY DEF FingerprintOptions, BlockDone, SkipRbs, RecordWritten, IInv, TypeOK
<1>2. CASE Fail
  BY <1>1, <1>2, FailStore
<1>3. CASE ~Fail
  <2>1. gen'.pc \in {"render", "catalog", "idle", "record", "options"}
    BY <1>1, <1>3 DEF FingerprintOptions, BlockDone, SkipRbs, RecordWritten,
                      NextBlock, BeginBlock, Finish, Exit, Idle, Goto, Control
  <2> QED
    BY <1>1, <2>1, BetweenFiles
<1> QED
  BY <1>2, <1>3

LEMMA FileStore ==
  ASSUME IInv, RenderAndOpen \/ FinishMain \/ OpenRbs \/ FinishRbs
  PROVE  Store!StoreNext
<1>1. gen.pc \in TargetPhases /\ TypeOK
  BY DEF RenderAndOpen, FinishMain, OpenRbs, FinishRbs, At, TargetPhases,
         WritePhases, IInv
<1>2. {"write", "rbs", "rbswrite", "record"} \subseteq TargetPhases \cap Phases
  BY DEF TargetPhases, WritePhases, Phases
<1>3. target \in Target
  BY <1>1, TargetType DEF IInv, RunConsistent
<1>4. CASE RenderAndOpen
  <2>1. gen.pc = "render" /\ Open(Location(MainPath(target)), "write")
    BY <1>4 DEF RenderAndOpen, At
  <2>2. gen'.pc = "write" /\ target' = target
    BY <1>1, <1>2, <2>1, SameBlock DEF Open, Goto
  <2>3. OpenLocation = None /\ OpenLocation' = Location(MainPath(target))
    BY <2>1, <2>2 DEF OpenLocation, At, Location, MainPath
  <2> QED
    BY <1>1, <1>2, <1>3, <2>1, <2>3, OutputLocations, OpenStore
<1>5. CASE FinishMain
  <2>1. gen.pc = "write" /\ Close(Location(MainPath(target)), "rbs")
    BY <1>5 DEF FinishMain, At
  <2>2. gen'.pc = "rbs"
    BY <1>1, <1>2, <2>1, SameBlock DEF Close, Goto
  <2>3. OpenLocation = Location(MainPath(target)) /\ OpenLocation' = None
    BY <2>1, <2>2 DEF OpenLocation, At
  <2> QED
    BY <1>1, <1>2, <1>3, <2>1, <2>3, OutputLocations, CloseStore
<1>6. CASE OpenRbs
  <2>1. /\ gen.pc = "rbs" /\ EmitsRbs(target.backend)
        /\ Open(Location(RbsPath(target)), "rbswrite")
    BY <1>6 DEF OpenRbs, At
  <2>2. gen'.pc = "rbswrite" /\ target' = target
    BY <1>1, <1>2, <2>1, SameBlock DEF Open, Goto
  <2>3. OpenLocation = None /\ OpenLocation' = Location(RbsPath(target))
    BY <2>1, <2>2 DEF OpenLocation, At, Location, RbsPath
  <2> QED
    BY <1>1, <1>2, <1>3, <2>1, <2>3, OutputLocations, OpenStore
<1>7. CASE FinishRbs
  <2>1. gen.pc = "rbswrite" /\ Close(Location(RbsPath(target)), "record")
    BY <1>7 DEF FinishRbs, At
  <2>2. gen'.pc = "record"
    BY <1>1, <1>2, <2>1, SameBlock DEF Close, Goto
  <2>3. OpenLocation = Location(RbsPath(target)) /\ OpenLocation' = None
    BY <2>1, <2>2 DEF OpenLocation, At
  <2>4. EmitsRbs(target.backend)
    BY <2>1 DEF IInv, RunConsistent, ControlOK
  <2> QED
    BY <1>1, <1>2, <1>3, <2>1, <2>3, <2>4, OutputLocations, CloseStore
<1> QED
  BY <1>4, <1>5, <1>6, <1>7

\* Every step of generate is a step of the store or invisible to it.
LEMMA NextStore == IInv /\ [Next]_vars => [Store!StoreNext]_Store!storeVars
<1> SUFFICES ASSUME IInv, [Next]_vars
             PROVE  [Store!StoreNext]_Store!storeVars
  OBVIOUS
<1>1. ASSUME NEW flags \in Flags, StartGenerate(flags)
      PROVE  [Store!StoreNext]_Store!storeVars
  <2>1. UNCHANGED disk /\ gen'.pc \in {"idle", "catalog"}
    BY <1>1 DEF StartGenerate, Exit, Idle
  <2> QED
    BY <2>1, BetweenFiles
<1>2. CASE LoadCatalog \/ AnalyzeQueries \/ ResolveTarget \/ CheckPaths
  BY <1>2, PlanStore
<1>3. CASE FingerprintOptions \/ BlockDone \/ SkipRbs \/ RecordWritten
  BY <1>3, TurnStore
<1>4. CASE RenderFails \/ WriteFails \/ OpenRbsFails
  BY <1>4, FailStore DEF RenderFails, WriteFails, OpenRbsFails
<1>5. CASE RenderAndOpen \/ FinishMain \/ OpenRbs \/ FinishRbs
  BY <1>5, FileStore
<1>6. CASE Killed
  BY <1>6, ExitStore DEF Killed
<1>7. CASE Edit \/ UNCHANGED vars
  <2>1. UNCHANGED <<disk, gen>>
    BY <1>7 DEF Edit, EditConfig, EditSchema, EditQueries, EditOverlay, Edited,
                vars, genVars
  <2>2. OpenLocation' = OpenLocation
    BY <2>1 DEF OpenLocation, At, target, block
  <2> QED
    BY <2>1, <2>2, QuietStore
<1> QED
  BY <1>1, <1>2, <1>3, <1>4, <1>5, <1>6, <1>7 DEF Next, GenerateStep

\* Whatever is edited, fails or is killed, generate does to the output tree
\* only what ArtifactStore allows.
THEOREM SpecStoreSpec == Spec => StoreSpec
<1>1. Spec => Store!StoreInit /\ [][Store!StoreNext]_Store!storeVars
  BY InitStore, NextStore, SpecIInv, PTL DEF Spec
<1> QED
  BY <1>1 DEF StoreSpec, Store!StoreSpec

-----------------------------------------------------------------------------
(* The options a header names. *)

\* The options field of a finished file's header is there and names the
\* options its body was generated with.  It may name another overlay: the
\* overlay is read once for the body and once for the header.
OptionsTold ==
  /\ gen.pc \in TargetPhases => mem.optionsTag.options = target.options
  /\ \A l \in Locations :
       Intact(disk[l]) =>
         /\ disk[l].header.options # None
         /\ disk[l].header.options.options = disk[l].body.options

\* A step that writes no file and fingerprints no options.
LEMMA QuietOptions ==
  ASSUME OptionsTold, disk' = disk,
         gen'.pc \in TargetPhases =>
           gen.pc \in TargetPhases /\ mem' = mem /\ target' = target
  PROVE  OptionsTold'
  BY DEF OptionsTold

LEMMA WriteOptions ==
  ASSUME IInv, OptionsTold, RenderAndOpen \/ FinishMain \/ OpenRbs \/ FinishRbs
  PROVE  OptionsTold'
<1>1. PICK next \in {"write", "rbs", "rbswrite", "record"} : Goto(next)
  BY DEF RenderAndOpen, FinishMain, OpenRbs, FinishRbs, Open, Close
<1>2. gen'.pc = next /\ target' = target
  BY <1>1, SameBlock DEF Goto, Phases, WritePhases
<1>3. gen.pc \in TargetPhases /\ mem' = mem
  BY DEF RenderAndOpen, FinishMain, OpenRbs, FinishRbs, Open, Close, At,
         TargetPhases, WritePhases
<1>4. RunHeader \in Header /\ RunBody \in Body
  BY <1>3, RunFileType DEF IInv
<1>5. mem.optionsTag # None /\ mem.optionsTag.options = target.options
  BY <1>3, DistinctAssumption
  DEF OptionsTold, IInv, RunConsistent, MemoryOK
<1>6. RunFile.header.options = mem.optionsTag /\ RunFile.body.options = target.options
  BY DEF RunFile, GeneratedFile, RunHeader, HeaderOf, RunBody, BodyOf
<1>7. PICK l, file :
        /\ disk' = [disk EXCEPT ![l] = file]
        /\ file = RunFile \/ ~Intact(file)
  <2>1. \A torn \in TornFiles(RunFile) : ~Intact(torn)
    BY <1>4, TornFileType DEF RunFile
  <2>2. \E l, file : /\ disk' = [disk EXCEPT ![l] = file]
                     /\ file \in TornFiles(RunFile) \/ file = RunFile
    BY DEF RenderAndOpen, FinishMain, OpenRbs, FinishRbs, Open, Close
  <2> QED
    BY <2>1, <2>2
<1>8. ASSUME NEW k \in Locations, Intact(disk'[k])
      PROVE  /\ disk'[k].header.options # None
             /\ disk'[k].header.options.options = disk'[k].body.options
  <2>1. disk'[k] = disk[k] \/ disk'[k] = file
    BY <1>7 DEF IInv, TypeOK
  <2>2. CASE disk'[k] = disk[k]
    BY <1>8, <2>2 DEF OptionsTold
  <2>3. CASE disk'[k] = file
    BY <1>5, <1>6, <1>7, <1>8, <2>3
  <2> QED
    BY <2>1, <2>2, <2>3
<1> QED
  BY <1>2, <1>3, <1>5, <1>8 DEF OptionsTold

LEMMA NextOptions == IInv /\ OptionsTold /\ [Next]_vars => OptionsTold'
<1> SUFFICES ASSUME IInv, OptionsTold, [Next]_vars
             PROVE  OptionsTold'
  OBVIOUS
<1>1. ASSUME NEW flags \in Flags, StartGenerate(flags) PROVE OptionsTold'
  BY <1>1, QuietOptions DEF StartGenerate, Exit, Idle, TargetPhases, WritePhases
<1>2. CASE BlockDone
  <2>1. disk' = disk /\ gen'.pc \in {"catalog", "idle"}
    BY <1>2 DEF BlockDone, NextBlock, BeginBlock, Finish, Exit, Idle, IInv,
                TypeOK, Control
  <2> QED
    BY <2>1, QuietOptions DEF TargetPhases, WritePhases
<1>3. CASE LoadCatalog \/ AnalyzeQueries \/ ResolveTarget \/ CheckPaths
           \/ RecordWritten
  <2>1. disk' = disk /\ gen \in Control
    BY <1>3 DEF LoadCatalog, AnalyzeQueries, ResolveTarget, CheckPaths,
                RecordWritten, IInv, TypeOK
  <2>2. gen'.pc \in PlanPhases \cup {"options", "idle"}
    BY <1>3, <2>1 DEF LoadCatalog, AnalyzeQueries, ResolveTarget, CheckPaths,
                      RecordWritten, Fail, Exit, Idle, Goto, Control, PlanPhases, At
  <2> QED
    BY <2>1, <2>2, QuietOptions DEF PlanPhases, TargetPhases, WritePhases
<1>4. CASE FingerprintOptions
  <2>1. CASE Fail
    BY <1>4, <2>1, QuietOptions
    DEF FingerprintOptions, Fail, Exit, Idle, TargetPhases, WritePhases
  <2>2. CASE ~Fail
    <3>1. /\ disk' = disk /\ Goto("render")
          /\ mem' = [mem EXCEPT !.optionsTag =
               OptionsFingerprint(target.options,
                                  OverlayContent(target, inputs.overlay))]
      BY <1>4, <2>2 DEF FingerprintOptions
    <3>2. target' = target
      BY <3>1, SameBlock DEF Goto, Phases, WritePhases
    <3>3. mem'.optionsTag.options = target.options
      BY <3>1 DEF IInv, TypeOK, Memory, OptionsFingerprint
    <3> QED
      BY <3>1, <3>2, <3>3 DEF OptionsTold
  <2> QED
    BY <2>1, <2>2
<1>5. CASE RenderFails \/ WriteFails \/ OpenRbsFails \/ Killed
  BY <1>5, QuietOptions DEF RenderFails, WriteFails, OpenRbsFails, Killed,
     Fail, Exit, Idle, TargetPhases, WritePhases
<1>6. CASE RenderAndOpen \/ FinishMain \/ OpenRbs \/ FinishRbs
  BY <1>6, WriteOptions
<1>7. CASE SkipRbs
  <2>1. target' = target
    BY <1>7, SameBlock DEF SkipRbs, Goto, Phases, WritePhases
  <2> QED
    BY <1>7, <2>1, QuietOptions DEF SkipRbs, At, TargetPhases, WritePhases
<1>8. CASE Edit \/ UNCHANGED vars
  BY <1>8, QuietOptions
  DEF Edit, EditConfig, EditSchema, EditQueries, EditOverlay, Edited, vars,
      genVars, target, block
<1> QED
  BY <1>1, <1>2, <1>3, <1>4, <1>5, <1>6, <1>7, <1>8 DEF Next, GenerateStep

\* The header of every file generate finished names the options its body was
\* generated with.
THEOREM SpecOptionsTold == Spec => []OptionsTold
<1>1. Init => OptionsTold
  <2>1. \A f \in {AbsentFile} \cup Foreign : ~Intact(f)
    BY ForeignAssumption DEF AbsentFile, Intact
  <2> QED
    BY <2>1 DEF Init, Idle, OptionsTold, TargetPhases, WritePhases
<1> QED
  BY <1>1, NextOptions, SpecIInv, PTL DEF Spec

-----------------------------------------------------------------------------
(* A run is finite. *)

\* What a run has left to do, most significant first: blocks, phases of the
\* block (its outputs are written in the last one), targets of the phase,
\* stages of the target.
BlocksLeft ==
  IF gen.pc = "idle" THEN 0 ELSE Len(gen.cfg.blocks) + 1 - gen.b

PhasesLeft ==
  CASE gen.pc = "catalog" -> 3
    [] gen.pc = "queries" -> 2
    [] gen.pc = "resolve" -> 1
    [] OTHER              -> 0

TargetsLeft ==
  IF gen.pc = "idle" THEN 0 ELSE Len(block.targets) + 1 - gen.t

StagesLeft ==
  CASE gen.pc = "options"  -> 6
    [] gen.pc = "render"   -> 5
    [] gen.pc = "write"    -> 4
    [] gen.pc = "rbs"      -> 3
    [] gen.pc = "rbswrite" -> 2
    [] gen.pc = "record"   -> 1
    [] OTHER               -> 0

RunShrinks ==
  \/ BlocksLeft' < BlocksLeft
  \/ /\ BlocksLeft' = BlocksLeft
     /\ \/ PhasesLeft' < PhasesLeft
        \/ /\ PhasesLeft' = PhasesLeft
           /\ \/ TargetsLeft' < TargetsLeft
              \/ TargetsLeft' = TargetsLeft /\ StagesLeft' < StagesLeft

\* Each of the four is a natural number, so that RunShrinks is well-founded.
RunLeftIsNatural ==
  /\ BlocksLeft \in Nat
  /\ PhasesLeft \in Nat
  /\ TargetsLeft \in Nat
  /\ StagesLeft \in Nat

LEMMA RunLeftType ==
  ASSUME IInv
  PROVE  /\ RunLeftIsNatural
         /\ gen.pc # "idle" => BlocksLeft > 0
<1>1. PhasesLeft \in Nat /\ StagesLeft \in Nat
  BY DEF PhasesLeft, StagesLeft
<1>2. CASE gen.pc = "idle"
  BY <1>1, <1>2 DEF RunLeftIsNatural, BlocksLeft, TargetsLeft
<1>3. CASE gen.pc # "idle"
  <2>1. gen.cfg \in Config /\ block \in Block
    BY <1>3, BlockType DEF IInv, RunConsistent
  <2>2. gen.cfg.blocks \in Seq(Block) /\ block.targets \in Seq(Target)
    BY <2>1 DEF Config, Block
  <2>3. gen.b \in DOMAIN gen.cfg.blocks /\ gen.t \in 1..(Len(block.targets) + 1)
    BY <1>3 DEF IInv, RunConsistent, ControlOK
  <2>4. BlocksLeft \in Nat /\ BlocksLeft > 0
    <3>1. gen.b \in 1..Len(gen.cfg.blocks) /\ Len(gen.cfg.blocks) \in Nat
      BY <2>2, <2>3
    <3>2. BlocksLeft = Len(gen.cfg.blocks) + 1 - gen.b
      BY <1>3 DEF BlocksLeft
    <3> QED
      BY <3>1, <3>2
  <2>5. TargetsLeft \in Nat
    BY <1>3, <2>2, <2>3 DEF TargetsLeft
  <2> QED
    BY <1>1, <2>4, <2>5 DEF RunLeftIsNatural
<1> QED
  BY <1>2, <1>3

\* An exit leaves nothing to do.
LEMMA ExitShrinks ==
  ASSUME IInv, gen.pc # "idle", gen'.pc = "idle"
  PROVE  RunShrinks
<1>1. BlocksLeft' = 0
  BY DEF BlocksLeft
<1> QED
  BY <1>1, RunLeftType DEF RunShrinks

\* A step to a later phase, or to a later stage of the same target.
LEMMA GotoShrinks ==
  ASSUME IInv, gen.pc # "idle", NEW next \in Phases \ {"idle"}, Goto(next),
         PhasesLeft' < PhasesLeft \/ (PhasesLeft' = PhasesLeft /\ StagesLeft' < StagesLeft)
  PROVE  RunShrinks
<1>1. gen' = [gen EXCEPT !.pc = next] /\ gen \in Control
  BY DEF Goto, IInv, TypeOK
<1>2. gen'.pc = next /\ gen'.cfg = gen.cfg /\ gen'.b = gen.b /\ gen'.t = gen.t
  BY <1>1 DEF Control
<1>3. block' = block
  BY <1>2 DEF block
<1>4. BlocksLeft' = BlocksLeft /\ TargetsLeft' = TargetsLeft
  BY <1>2, <1>3 DEF BlocksLeft, TargetsLeft
<1> QED
  BY <1>4 DEF RunShrinks

\* On to the next target of a phase.
LEMMA TurnShrinks ==
  ASSUME IInv, gen.pc \in {"resolve", "record"}, NEW next \in {"resolve", "options"},
         gen' = [gen EXCEPT !.pc = next, !.t = @ + 1],
         gen.pc = "resolve" => next = "resolve",
         gen.pc = "record" => next = "options"
  PROVE  RunShrinks
<1>1. gen \in Control
  BY DEF IInv, TypeOK
<1>2. gen'.pc = next /\ gen'.cfg = gen.cfg /\ gen'.b = gen.b /\ gen'.t = gen.t + 1
  BY <1>1 DEF Control
<1>3. block' = block
  BY <1>2 DEF block
<1>4. BlocksLeft' = BlocksLeft /\ PhasesLeft' = PhasesLeft
  BY <1>2 DEF BlocksLeft, PhasesLeft
<1>5. block.targets \in Seq(Target) /\ gen.t \in Nat
  BY <1>1, BlockType DEF Control, Block, IInv, RunConsistent
<1>6. TargetsLeft' < TargetsLeft
  BY <1>2, <1>3, <1>5 DEF TargetsLeft
<1> QED
  BY <1>4, <1>6 DEF RunShrinks

LEMMA BlockDoneShrinks == ASSUME IInv, BlockDone PROVE RunShrinks
<1>1. gen.pc = "options" /\ NextBlock /\ gen \in Control
  BY DEF BlockDone, At, IInv, TypeOK
<1>2. CASE gen.b < Len(gen.cfg.blocks)
  <2>1. gen' = [gen EXCEPT !.pc = "catalog", !.b = gen.b + 1, !.t = 1]
    BY <1>1, <1>2 DEF NextBlock, BeginBlock
  <2>2. gen'.pc = "catalog" /\ gen'.cfg = gen.cfg /\ gen'.b = gen.b + 1
    BY <1>1, <2>1 DEF Control
  <2>3. gen.cfg.blocks \in Seq(Block) /\ gen.b \in Nat
    BY <1>1, BlockType DEF Config, Control, IInv, RunConsistent
  <2>4. BlocksLeft' < BlocksLeft
    BY <1>1, <2>2, <2>3 DEF BlocksLeft
  <2> QED
    BY <2>4 DEF RunShrinks
<1>3. CASE ~(gen.b < Len(gen.cfg.blocks))
  <2>1. gen'.pc = "idle"
    BY <1>1, <1>3 DEF NextBlock, Finish, Exit, Idle
  <2> QED
    BY <1>1, <2>1, ExitShrinks
<1> QED
  BY <1>2, <1>3

LEMMA StepShrinks == ASSUME IInv, GenerateStep \/ Killed PROVE RunShrinks
<1>0. CASE gen.pc # "idle" /\ (Fail \/ Killed)
  BY <1>0, ExitShrinks DEF Fail, Killed, Exit, Idle
<1>1. CASE LoadCatalog
  <2>1. CASE Goto("queries")
    <3>1. gen.pc = "catalog" /\ gen'.pc = "queries"
      BY <1>1, <2>1 DEF LoadCatalog, At, Goto, IInv, TypeOK, Control
    <3>2. PhasesLeft = 3 /\ PhasesLeft' = 2
      BY <3>1 DEF PhasesLeft
    <3> QED
      BY <2>1, <3>1, <3>2, GotoShrinks DEF Phases, PlanPhases
  <2> QED
    BY <1>0, <1>1, <2>1 DEF LoadCatalog, At
<1>2. CASE AnalyzeQueries
  <2>1. CASE Goto("resolve")
    <3>1. gen.pc = "queries" /\ gen'.pc = "resolve"
      BY <1>2, <2>1 DEF AnalyzeQueries, At, Goto, IInv, TypeOK, Control
    <3>2. PhasesLeft = 2 /\ PhasesLeft' = 1
      BY <3>1 DEF PhasesLeft
    <3> QED
      BY <2>1, <3>1, <3>2, GotoShrinks DEF Phases, PlanPhases
  <2> QED
    BY <1>0, <1>2, <2>1 DEF AnalyzeQueries, At
<1>3. CASE ResolveTarget
  <2>1. CASE gen' = [gen EXCEPT !.t = @ + 1]
    <3>1. gen.pc = "resolve" /\ gen \in Control
      BY <1>3 DEF ResolveTarget, At, IInv, TypeOK
    <3>2. gen' = [gen EXCEPT !.pc = "resolve", !.t = @ + 1]
      BY <2>1, <3>1 DEF Control
    <3> QED
      BY <3>1, <3>2, TurnShrinks
  <2> QED
    BY <1>0, <1>3, <2>1 DEF ResolveTarget, At
<1>4. CASE CheckPaths
  <2>1. CASE gen' = [gen EXCEPT !.pc = "options", !.t = 1]
    <3>1. gen.pc = "resolve" /\ gen \in Control
      BY <1>4 DEF CheckPaths, At, IInv, TypeOK
    <3>2. gen'.pc = "options" /\ gen'.cfg = gen.cfg /\ gen'.b = gen.b
      BY <2>1, <3>1 DEF Control
    <3>3. PhasesLeft = 1 /\ PhasesLeft' = 0 /\ BlocksLeft' = BlocksLeft
      BY <3>1, <3>2 DEF PhasesLeft, BlocksLeft
    <3> QED
      BY <3>3 DEF RunShrinks
  <2> QED
    BY <1>0, <1>4, <2>1 DEF CheckPaths, At
<1>5. ASSUME NEW next \in TargetPhases, Goto(next), gen.pc \in WritePhases,
             StagesLeft' < StagesLeft
      PROVE  RunShrinks
  <2>1. gen'.pc = next
    BY <1>5 DEF Goto, IInv, TypeOK, Control
  <2>2. PhasesLeft = 0 /\ PhasesLeft' = 0
    BY <1>5, <2>1 DEF PhasesLeft, TargetPhases, WritePhases
  <2> QED
    BY <1>5, <2>2, GotoShrinks DEF TargetPhases, WritePhases, Phases
<1>6. CASE \/ gen.pc = "options" /\ Goto("render")
           \/ gen.pc = "render" /\ Goto("write")
           \/ gen.pc = "write" /\ Goto("rbs")
           \/ gen.pc = "rbs" /\ Goto("record")
           \/ gen.pc = "rbs" /\ Goto("rbswrite")
           \/ gen.pc = "rbswrite" /\ Goto("record")
  <2>1. PICK next \in TargetPhases : Goto(next) /\ StagesLeft' < StagesLeft
    <3>1. \A next : Goto(next) => gen'.pc = next
      BY DEF Goto, IInv, TypeOK, Control
    <3> QED
      BY <1>6, <3>1 DEF StagesLeft, TargetPhases, WritePhases
  <2>2. gen.pc \in WritePhases
    BY <1>6 DEF WritePhases
  <2> QED
    BY <1>5, <2>1, <2>2
<1>7. CASE FingerprintOptions
  BY <1>0, <1>6, <1>7 DEF FingerprintOptions, At
<1>8. CASE RenderFails \/ WriteFails \/ OpenRbsFails
  BY <1>0, <1>8 DEF RenderFails, WriteFails, OpenRbsFails, At
<1>9. CASE RenderAndOpen \/ FinishMain \/ SkipRbs \/ OpenRbs \/ FinishRbs
  BY <1>6, <1>9 DEF RenderAndOpen, FinishMain, SkipRbs, OpenRbs, FinishRbs, Open,
                    Close, At
<1>10. CASE RecordWritten
  BY <1>10, TurnShrinks DEF RecordWritten, At
<1>11. CASE Killed
  BY <1>0, <1>11 DEF Killed, At
<1> QED
  BY <1>1, <1>2, <1>3, <1>4, <1>7, <1>8, <1>9, <1>10, <1>11, BlockDoneShrinks
     DEF GenerateStep

\* Once a run has started, every step of it, a failure and a kill included,
\* leaves it less to do, and the user's edits leave it as much: whatever is
\* edited, a run takes finitely many steps.
THEOREM SpecRunShrinks ==
  Spec => []RunLeftIsNatural
            /\ [][gen.pc # "idle" => RunShrinks \/ (Edit /\ UNCHANGED genVars)]_vars
<1>1. IInv => RunLeftIsNatural
  BY RunLeftType
<1>2. ASSUME IInv, [Next]_vars
      PROVE  [gen.pc # "idle" => RunShrinks \/ (Edit /\ UNCHANGED genVars)]_vars
  <2>1. CASE \E flags \in Flags : StartGenerate(flags)
    BY <2>1 DEF StartGenerate, At
  <2>2. CASE Edit
    <3>1. UNCHANGED genVars
      BY <2>2 DEF Edit, EditConfig, EditSchema, EditQueries, EditOverlay, Edited
    <3> QED
      BY <2>2, <3>1
  <2>3. CASE GenerateStep \/ Killed
    BY <1>2, <2>3, StepShrinks
  <2> QED
    BY <1>2, <2>1, <2>2, <2>3 DEF Next
<1> QED
  BY <1>1, <1>2, SpecIInv, PTL DEF Spec
=============================================================================
