---------------------------- MODULE CheckProofs ----------------------------
(***************************************************************************)
(* Proofs about Check run beside generate and an editor: while nothing     *)
(* moves under it, every finding of a check is real and a clean report     *)
(* means that generate would pass and that what is on disk is current;     *)
(* what a successful generate wrote passes; and a check is finite.         *)
(***************************************************************************)
EXTENDS Check, GenerateProofs

-----------------------------------------------------------------------------
(* Generate, seen by check. *)

\* No step of check changes a variable of generate.
LEMMA CheckNextNext == [CheckNext]_allVars => [Next]_vars
  BY DEF CheckNext, Outside, allVars

\* Next to check, generate is what it is alone.
THEOREM CheckSpecImpliesSpec == CheckSpec => Spec
<1>1. CheckInit => Init
  BY DEF CheckInit
<1> QED
  BY <1>1, CheckNextNext, PTL DEF CheckSpec, Spec

-----------------------------------------------------------------------------
(* The inductive invariant. *)

TargetChecks == {"options", "main", "rbs"}

\* The indices of a check point into its configuration.
CheckControlOK ==
  /\ chk.pc # "idle" => /\ chk.outcome = "none" /\ chk.cfg \in Configs
                         /\ chk.b \in DOMAIN chk.cfg.blocks
  /\ chk.pc \in TargetChecks => chk.t \in DOMAIN cblock.targets
  /\ chk.pc = "rbs" => EmitsRbs(ctarget.backend)
  /\ chk.pc \notin {"idle", "catalog"} => chk.shape \in Shapes

\* The queries of a block that analyze.
Analyzed(blk) ==
  {q \in inputs.queries[blk.queries].queries :
     Analyzes(inputs.schema[blk.schema].shape, q)}

\* What a header has to say to pass.
Expected(blk, t) ==
  LET shape == inputs.schema[blk.schema].shape IN
  HeaderOf(blk, t, shape, QueriesFingerprint(shape, Analyzed(blk)),
           OptionsFingerprint(t.options, OverlayContent(t, inputs.overlay)))

\* While nothing moves, a check compares with what the inputs hold.
CheckFresh ==
  still /\ chk.pc # "idle" =>
    /\ chk.cfg = inputs.config
    /\ chk.pc # "catalog" =>
         /\ inputs.schema[cblock.schema].ok
         /\ chk.shape = inputs.schema[cblock.schema].shape
         /\ chk.schemaTag = chk.shape
    /\ chk.pc \in TargetChecks =>
         chk.queriesTag = QueriesFingerprint(chk.shape, Analyzed(cblock))
    /\ chk.pc \in {"main", "rbs"} =>
         chk.optionsTag =
           OptionsFingerprint(ctarget.options,
                              OverlayContent(ctarget, inputs.overlay))

Passes(l, blk, t) == VerifyArtifact(disk[l], Expected(blk, t)) = {}

TargetPasses(i, j) ==
  LET blk == inputs.config.blocks[i] IN
  \A l \in Outputs(blk.targets[j]) : Passes(l, blk, blk.targets[j])

BlockPasses(i) ==
  /\ InputsUsable(inputs.config.blocks[i])
  /\ \A j \in DOMAIN inputs.config.blocks[i].targets : TargetPasses(i, j)

TargetsUsable(blk) ==
  /\ blk.resolvable
  /\ \A j \in DOMAIN blk.targets :
       TargetResolves(blk, blk.targets[j], inputs.overlay, FALSE)

\* While nothing moves, what a check went over without a finding is right.
NothingFound ==
  still /\ chk.pc # "idle" /\ chk.findings = {} =>
    /\ \A i \in 1..(chk.b - 1) : BlockPasses(i)
    /\ chk.pc \notin {"catalog", "targets"} => TargetsUsable(cblock)
    /\ chk.pc \in TargetChecks =>
         /\ QueriesUsable(inputs.queries[cblock.queries],
                          inputs.schema[cblock.schema].shape)
         /\ \A j \in 1..(chk.t - 1) : TargetPasses(chk.b, j)
    /\ chk.pc = "rbs" => Passes(Location(MainPath(ctarget)), cblock, ctarget)

\* A clean report is of a configuration that was read, and clears every block.
CleanPasses ==
  Clean => /\ inputs.config \in Config
           /\ \A i \in DOMAIN inputs.config.blocks : BlockPasses(i)

\* The options a target's artifacts were generated under can be told.
OptionsTellable(blk, t) ==
  Supports(t.backend, blk.engine) /\ OverlayContent(t, inputs.overlay) # "missing"

\* What may be reported of a block as a whole, and of one of its targets.
BlockDeserves(blk, r) ==
  \/ ~blk.resolvable /\ r \in {"SC-PRV07", "SC-PRV09"}
  \/ r \in QueryRules(inputs.queries[blk.queries], Analyzed(blk))

TargetDeserves(blk, t, r) ==
  \/ r = "SC-PRV09" /\ ~TargetResolves(blk, t, inputs.overlay, FALSE)
  \/ r = "SC-PRV07" /\ ~OptionsTellable(blk, t)
  \/ \E l \in Outputs(t) : r \in VerifyArtifact(disk[l], Expected(blk, t))

\* A finding is deserved by what it points to.
Justified(f) ==
  /\ f.b \in DOMAIN inputs.config.blocks
  /\ LET blk == inputs.config.blocks[f.b] IN
     \/ f.t = 0 /\ BlockDeserves(blk, f.rule)
     \/ f.t \in DOMAIN blk.targets /\ TargetDeserves(blk, blk.targets[f.t], f.rule)

AllJustified(F) == \A f \in F : Justified(f)

FindingsAreReal == still => AllJustified(chk.findings)

\* What keeps a check from its report.
Hopeless ==
  \/ inputs.config = Unreadable
  \/ \E i \in DOMAIN inputs.config.blocks :
       LET blk == inputs.config.blocks[i] IN
       \/ ~SchemaSourceValid(blk)
       \/ ~inputs.schema[blk.schema].ok
       \/ inputs.queries[blk.queries].stray

ErrorIsReal == still /\ chk.outcome = "err" => Hopeless

CheckIInv ==
  /\ chk \in CheckControl /\ still \in BOOLEAN
  /\ CheckControlOK
  /\ CheckFresh
  /\ NothingFound
  /\ CleanPasses
  /\ FindingsAreReal
  /\ ErrorIsReal

-----------------------------------------------------------------------------
(* Findings. *)

\* What verification of one file may report.
LEMMA VerifyRules ==
  ASSUME NEW file \in FileStates, NEW expected
  PROVE  VerifyArtifact(file, expected) \subseteq Rules
<1>1. CASE file.kind = "file"
  <2>1. \A f \in HeaderFields : RuleOf[f] \in Rules
    BY DEF HeaderFields, RuleOf, Rules
  <2> QED
    BY <1>1, <2>1 DEF VerifyArtifact, Drifted, Rules
<1>2. CASE file.kind \in {"absent", "unreadable", "headerless"}
  BY <1>2 DEF VerifyArtifact, Rules
<1> QED
  BY <1>1, <1>2 DEF FileStates

LEMMA FoundType ==
  ASSUME chk \in CheckControl, NEW rules \in SUBSET (Rules \cup {"SC-C03"}),
         NEW t \in Nat
  PROVE  /\ Found(rules, t) \subseteq Finding
         /\ chk.findings \subseteq Found(rules, t)
         /\ rules # {} => Found(rules, t) # {}
         /\ \A f \in Found(rules, t) : f \in chk.findings \/ f.rule \in rules
         /\ \A r \in rules : [rule |-> r, b |-> chk.b, t |-> t] \in Found(rules, t)
<1>1. chk.findings \in SUBSET Finding /\ chk.b \in Nat
  BY DEF CheckControl
<1>2. \A r \in rules : [rule |-> r, b |-> chk.b, t |-> t] \in Found(rules, t)
  BY DEF Found
<1> QED
  BY <1>1, <1>2 DEF Found, Finding

\* While the inputs and the disk stay, so does what they make of a header.
LEMMA Frame ==
  ASSUME inputs' = inputs, disk' = disk
  PROVE  /\ \A i : BlockPasses(i)' = BlockPasses(i)
         /\ \A i, j : TargetPasses(i, j)' = TargetPasses(i, j)
         /\ \A l, blk, t : Passes(l, blk, t)' = Passes(l, blk, t)
         /\ \A blk : TargetsUsable(blk)' = TargetsUsable(blk)
         /\ \A blk : Analyzed(blk)' = Analyzed(blk)
         /\ \A F : AllJustified(F)' = AllJustified(F)
         /\ Hopeless' = Hopeless
<1>1. \A blk : Analyzed(blk)' = Analyzed(blk)
  BY DEF Analyzed
<1>2. \A blk, t : Expected(blk, t)' = Expected(blk, t)
  BY <1>1 DEF Expected
<1>3. \A l, blk, t : Passes(l, blk, t)' = Passes(l, blk, t)
  BY <1>2 DEF Passes
<1>4. \A i, j : TargetPasses(i, j)' = TargetPasses(i, j)
  BY <1>3 DEF TargetPasses
<1>5. \A blk : InputsUsable(blk)' = InputsUsable(blk)
  BY DEF InputsUsable, QueriesUsable
<1>6. \A i : BlockPasses(i)' = BlockPasses(i)
  BY <1>4, <1>5 DEF BlockPasses
<1>7. \A blk : TargetsUsable(blk)' = TargetsUsable(blk)
  BY DEF TargetsUsable
<1>8. \A F : AllJustified(F)' = AllJustified(F)
  <2>1. \A blk, t, r : TargetDeserves(blk, t, r)' = TargetDeserves(blk, t, r)
    BY <1>2 DEF TargetDeserves, OptionsTellable
  <2>2. \A blk, r : BlockDeserves(blk, r)' = BlockDeserves(blk, r)
    BY <1>1 DEF BlockDeserves
  <2>3. \A f : Justified(f)' = Justified(f)
    BY <2>1, <2>2 DEF Justified
  <2> QED
    BY <2>3 DEF AllJustified
<1>9. Hopeless' = Hopeless
  BY DEF Hopeless
<1> QED
  BY <1>1, <1>3, <1>4, <1>6, <1>7, <1>8, <1>9

-----------------------------------------------------------------------------
(* Moving on. *)

LEMMA CheckBlockType ==
  ASSUME CheckIInv, chk.pc # "idle"
  PROVE  /\ chk.cfg \in Config /\ chk.cfg.blocks \in Seq(Block)
         /\ chk.b \in DOMAIN chk.cfg.blocks
         /\ cblock \in Block /\ cblock.targets \in Seq(Target)
         /\ chk.pc \in TargetChecks =>
              chk.t \in DOMAIN cblock.targets /\ ctarget \in Target
<1>1. chk.cfg \in Config /\ chk.b \in DOMAIN chk.cfg.blocks
  BY ConfigsAssumption DEF CheckIInv, CheckControlOK
<1>2. chk.cfg.blocks \in Seq(Block)
  BY <1>1 DEF Config
<1>3. cblock \in Block
  BY <1>1, <1>2 DEF cblock
<1>4. cblock.targets \in Seq(Target)
  BY <1>3 DEF Block
<1> QED
  BY <1>1, <1>2, <1>3, <1>4 DEF CheckIInv, CheckControlOK, ctarget

\* While nothing moves, the block a check is at is one of the inputs.
LEMMA CheckedBlock ==
  ASSUME CheckIInv, chk.pc # "idle", still
  PROVE  /\ cblock = inputs.config.blocks[chk.b]
         /\ chk.b \in DOMAIN inputs.config.blocks
  BY DEF CheckIInv, CheckFresh, CheckControlOK, cblock

\* Findings about the block at hand that it deserves, and about the target.
LEMMA BlockFindings ==
  ASSUME CheckIInv, chk.pc # "idle", still, NEW rules,
         \A r \in rules : BlockDeserves(cblock, r)
  PROVE  AllJustified(Found(rules, 0))
<1>1. AllJustified(chk.findings)
  BY DEF CheckIInv, FindingsAreReal
<1>2. \A f \in Found(rules, 0) :
        \/ f \in chk.findings
        \/ f.rule \in rules /\ f.b = chk.b /\ f.t = 0
  BY DEF Found
<1>3. cblock = inputs.config.blocks[chk.b] /\ chk.b \in DOMAIN inputs.config.blocks
  BY CheckedBlock
<1> QED
  BY <1>1, <1>2, <1>3 DEF AllJustified, Justified

LEMMA TargetFindings ==
  ASSUME CheckIInv, chk.pc \in TargetChecks, still, NEW rules,
         \A r \in rules : TargetDeserves(cblock, ctarget, r)
  PROVE  AllJustified(Found(rules, chk.t))
<1>1. AllJustified(chk.findings)
  BY DEF CheckIInv, FindingsAreReal
<1>2. \A f \in Found(rules, chk.t) :
        \/ f \in chk.findings
        \/ f.rule \in rules /\ f.b = chk.b /\ f.t = chk.t
  BY DEF Found
<1>3. cblock = inputs.config.blocks[chk.b] /\ chk.b \in DOMAIN inputs.config.blocks
  BY CheckedBlock DEF TargetChecks
<1>4. chk.t \in DOMAIN cblock.targets
  BY DEF CheckIInv, CheckControlOK
<1> QED
  BY <1>1, <1>2, <1>3, <1>4 DEF AllJustified, Justified, ctarget

\* A check that exits has nothing left but its report.
LEMMA CheckExitFields ==
  ASSUME NEW outcome \in CheckOutcomes, NEW F \in SUBSET Finding,
         CheckExit(outcome, F)
  PROVE  /\ chk' \in CheckControl /\ chk'.pc = "idle"
         /\ chk'.outcome = outcome /\ chk'.findings = F
<1>1. CheckIdle \in CheckControl
  BY DEF CheckIdle, CheckControl, CheckPhases, CheckOutcomes, QueryTags
<1> QED
  BY <1>1 DEF CheckExit, CheckIdle, CheckControl

\* An exit is right when what it reports of drift is real and a clean report
\* is earned.
LEMMA ExitCheckIInv ==
  ASSUME CheckIInv, NEW outcome \in CheckOutcomes, NEW F \in SUBSET Finding,
         CheckExit(outcome, F), inputs' = inputs, disk' = disk,
         still' \in BOOLEAN,
         still' => AllJustified(F),
         still' /\ outcome = "err" => Hopeless,
         outcome = "clean" /\ still' /\ (\A r \in Rules : inputs.config.severity[r] # "off")
           => /\ inputs.config \in Config
              /\ \A i \in DOMAIN inputs.config.blocks : BlockPasses(i)
  PROVE  CheckIInv'
<1>1. /\ chk' \in CheckControl /\ chk'.pc = "idle"
      /\ chk'.outcome = outcome /\ chk'.findings = F
  BY CheckExitFields
<1>2. CheckControlOK' /\ CheckFresh' /\ NothingFound'
  BY <1>1 DEF CheckControlOK, CheckFresh, NothingFound, TargetChecks
<1>3. CleanPasses' /\ FindingsAreReal' /\ ErrorIsReal'
  BY <1>1, Frame DEF CleanPasses, Clean, FindingsAreReal, ErrorIsReal
<1> QED
  BY <1>1, <1>2, <1>3 DEF CheckIInv

\* The end of a block: F is what has been found by then.
LEMMA EndOfBlock ==
  ASSUME CheckIInv, chk.pc # "idle", NEW F \in SUBSET Finding,
         CheckNextBlock(F), inputs' = inputs, disk' = disk, still' = still,
         chk.findings \subseteq F, still => AllJustified(F),
         still /\ F = {} => BlockPasses(chk.b)
  PROVE  CheckIInv'
<1>1. /\ chk.cfg.blocks \in Seq(Block) /\ chk.b \in DOMAIN chk.cfg.blocks
      /\ chk \in CheckControl
  BY CheckBlockType DEF CheckIInv
<1>2. ASSUME still, F = {}
      PROVE  chk.cfg = inputs.config /\ \A i \in 1..chk.b : BlockPasses(i)
  <2>1. \A i \in 1..(chk.b - 1) : BlockPasses(i)
    BY <1>2 DEF CheckIInv, NothingFound
  <2>2. 1..chk.b = 1..(chk.b - 1) \cup {chk.b}
    BY <1>1
  <2> QED
    BY <1>2, <2>1, <2>2 DEF CheckIInv, CheckFresh
<1>3. CASE chk.b < Len(chk.cfg.blocks)
  <2>1. chk' = [CheckIdle EXCEPT !.pc = "catalog", !.cfg = chk.cfg,
                 !.exitZero = chk.exitZero, !.b = chk.b + 1, !.findings = F]
    BY <1>3 DEF CheckNextBlock
  <2>2. /\ chk'.pc = "catalog" /\ chk'.cfg = chk.cfg /\ chk'.b = chk.b + 1
        /\ chk'.outcome = "none" /\ chk'.findings = F
    BY <2>1 DEF CheckIdle
  <2>3. chk' \in CheckControl
    <3>1. CheckIdle \in CheckControl
      BY DEF CheckIdle, CheckControl, CheckPhases, CheckOutcomes, QueryTags
    <3>2. chk.b + 1 \in Nat
      BY <1>1
    <3> QED
      BY <1>1, <2>1, <3>1, <3>2 DEF CheckControl, CheckPhases
  <2>4. chk.b + 1 \in DOMAIN chk.cfg.blocks
    BY <1>1, <1>3
  <2>5. CheckControlOK'
    BY <2>2, <2>4 DEF CheckIInv, CheckControlOK, TargetChecks
  <2>6. CheckFresh'
    BY <2>2 DEF CheckIInv, CheckFresh, TargetChecks
  <2>7. NothingFound'
    <3>1. (chk.b + 1) - 1 = chk.b
      BY <1>1
    <3> QED
      BY <1>2, <2>2, <3>1, Frame DEF NothingFound, TargetChecks
  <2>8. CleanPasses' /\ FindingsAreReal' /\ ErrorIsReal'
    BY <2>2, Frame DEF CleanPasses, Clean, FindingsAreReal, ErrorIsReal
  <2> QED
    BY <2>3, <2>5, <2>6, <2>7, <2>8 DEF CheckIInv
<1>4. CASE ~(chk.b < Len(chk.cfg.blocks))
  <2> DEFINE reported == Reported(chk.cfg, F)
  <2>1. PICK outcome \in CheckOutcomes :
          /\ CheckExit(outcome, reported)
          /\ outcome # "err" /\ (outcome = "clean" => reported = {})
    <3>1. Report(F)
      BY <1>4 DEF CheckNextBlock
    <3> QED
      BY <3>1 DEF Report, CheckOutcomes
  <2>2. reported \subseteq F
    BY DEF Reported
  <2>3. ASSUME outcome = "clean", still,
               \A r \in Rules : inputs.config.severity[r] # "off"
        PROVE  /\ inputs.config \in Config
               /\ \A i \in DOMAIN inputs.config.blocks : BlockPasses(i)
    <3>1. chk.cfg = inputs.config
      BY <2>3 DEF CheckIInv, CheckFresh
    <3>2. \A f \in F : SeverityOf(chk.cfg, f.rule) # "off"
      BY <2>3, <3>1 DEF SeverityOf, Finding
    <3>3. F = {}
      BY <2>1, <2>3, <3>2 DEF Reported
    <3>4. DOMAIN inputs.config.blocks = 1..chk.b
      BY <1>1, <1>4, <3>1
    <3>5. chk.cfg \in Config
      BY CheckBlockType
    <3> QED
      BY <1>2, <2>3, <3>1, <3>3, <3>4, <3>5
  <2>4. still => AllJustified(reported)
    BY <2>2 DEF AllJustified
  <2> HIDE DEF reported
  <2> QED
    BY <2>1, <2>2, <2>3, <2>4, ExitCheckIInv DEF CheckIInv
<1> QED
  BY <1>3, <1>4

\* The end of a target.
LEMMA EndOfTarget ==
  ASSUME CheckIInv, chk.pc \in TargetChecks, NEW F \in SUBSET Finding,
         CheckNextTarget(F), inputs' = inputs, disk' = disk, still' = still,
         chk.findings \subseteq F, still => AllJustified(F),
         still /\ F = {} => TargetPasses(chk.b, chk.t)
  PROVE  CheckIInv'
<1>1. chk.pc # "idle" /\ chk.pc \notin {"catalog", "targets"} /\ chk \in CheckControl
  BY DEF TargetChecks, CheckIInv
<1>2. /\ cblock.targets \in Seq(Target) /\ chk.t \in DOMAIN cblock.targets
  BY <1>1, CheckBlockType
<1>3. ASSUME still, F = {}
      PROVE  \A j \in 1..chk.t : TargetPasses(chk.b, j)
  <2>1. \A j \in 1..(chk.t - 1) : TargetPasses(chk.b, j)
    BY <1>1, <1>3 DEF CheckIInv, NothingFound
  <2>2. 1..chk.t = 1..(chk.t - 1) \cup {chk.t}
    BY <1>2
  <2> QED
    BY <1>3, <2>1, <2>2
<1>4. CASE chk.t < Len(cblock.targets)
  <2>1. chk' = [chk EXCEPT !.pc = "options", !.t = @ + 1, !.findings = F]
    BY <1>4 DEF CheckNextTarget
  <2>2. /\ chk'.pc = "options" /\ chk'.t = chk.t + 1 /\ chk'.findings = F
        /\ chk'.cfg = chk.cfg /\ chk'.b = chk.b /\ chk'.outcome = chk.outcome
        /\ chk'.shape = chk.shape /\ chk'.schemaTag = chk.schemaTag
        /\ chk'.queriesTag = chk.queriesTag
    BY <1>1, <2>1 DEF CheckControl
  <2>3. chk' \in CheckControl
    <3>1. chk.t + 1 \in Nat
      BY <1>2
    <3> QED
      BY <1>1, <2>1, <3>1 DEF CheckControl, CheckPhases
  <2>4. cblock' = cblock
    BY <2>2 DEF cblock
  <2>5. chk.t + 1 \in DOMAIN cblock.targets
    BY <1>2, <1>4
  <2>6. CheckControlOK'
    BY <1>1, <2>2, <2>4, <2>5 DEF CheckIInv, CheckControlOK, TargetChecks
  <2>7. CheckFresh'
    BY <1>1, <2>2, <2>4, Frame DEF CheckIInv, CheckFresh, TargetChecks
  <2>8. NothingFound'
    <3>1. (chk.t + 1) - 1 = chk.t
      BY <1>2
    <3>2. ASSUME still, F = {}
          PROVE  /\ chk.findings = {}
                 /\ \A i \in 1..(chk.b - 1) : BlockPasses(i)
                 /\ TargetsUsable(cblock)
                 /\ QueriesUsable(inputs.queries[cblock.queries],
                                  inputs.schema[cblock.schema].shape)
      BY <1>1, <3>2 DEF CheckIInv, NothingFound
    <3>3. QueriesUsable(inputs.queries[cblock.queries],
                        inputs.schema[cblock.schema].shape)' =
            QueriesUsable(inputs.queries[cblock.queries],
                          inputs.schema[cblock.schema].shape)
      BY <2>4 DEF QueriesUsable
    <3>4. TargetsUsable(cblock)' = TargetsUsable(cblock)
      BY <2>4 DEF TargetsUsable
    <3>5. \A j : TargetPasses(chk.b, j)' = TargetPasses(chk.b, j)
      <4>1. \A i, j : TargetPasses(i, j)' = TargetPasses(i, j)
        BY <2>2, Frame
      <4> QED
        BY <2>2, <4>1
    <3> QED
      BY <1>3, <2>2, <3>1, <3>2, <3>3, <3>4, <3>5, Frame DEF NothingFound, TargetChecks
  <2>9. CleanPasses' /\ FindingsAreReal' /\ ErrorIsReal'
    BY <1>1, <2>2, Frame DEF CleanPasses, Clean, FindingsAreReal, ErrorIsReal, CheckIInv, CheckControlOK
  <2> QED
    BY <2>3, <2>6, <2>7, <2>8, <2>9 DEF CheckIInv
<1>5. CASE ~(chk.t < Len(cblock.targets))
  <2>1. CheckNextBlock(F)
    BY <1>5 DEF CheckNextTarget
  <2>2. ASSUME still, F = {} PROVE BlockPasses(chk.b)
    <3>1. /\ chk.cfg = inputs.config /\ inputs.schema[cblock.schema].ok
      BY <1>1, <2>2 DEF CheckIInv, CheckFresh
    <3>2. /\ TargetsUsable(cblock)
          /\ QueriesUsable(inputs.queries[cblock.queries],
                           inputs.schema[cblock.schema].shape)
      BY <1>1, <2>2 DEF CheckIInv, NothingFound
    <3>3. cblock = inputs.config.blocks[chk.b] /\ DOMAIN cblock.targets = 1..chk.t
      BY <1>2, <1>5, <3>1 DEF cblock
    <3> QED
      BY <1>3, <2>2, <3>1, <3>2, <3>3 DEF BlockPasses, InputsUsable, TargetsUsable
  <2> QED
    BY <1>1, <2>1, <2>2, EndOfBlock
<1> QED
  BY <1>4, <1>5

-----------------------------------------------------------------------------
(* The steps. *)

\* A step that neither ends a block nor a target: what it has to show.
LEMMA StayCheckIInv ==
  ASSUME CheckIInv, inputs' = inputs, disk' = disk, still' = still,
         chk.pc # "idle", chk' \in CheckControl, chk'.pc # "idle",
         chk'.outcome = chk.outcome,
         CheckControlOK', CheckFresh', NothingFound', still => AllJustified(chk'.findings)
  PROVE  CheckIInv'
<1>1. CleanPasses'
  BY DEF CleanPasses, Clean, CheckIInv, CheckControlOK
<1>2. FindingsAreReal' /\ ErrorIsReal'
  BY Frame DEF FindingsAreReal, ErrorIsReal, CheckIInv, CheckControlOK
<1> QED
  BY <1>1, <1>2 DEF CheckIInv

LEMMA StartCheckIInv ==
  ASSUME IInv, CheckIInv, NEW exitZero \in BOOLEAN, StartCheck(exitZero),
         UNCHANGED vars
  PROVE  CheckIInv'
<1>1. inputs' = inputs /\ disk' = disk /\ still' = TRUE
  BY DEF vars, StartCheck
<1>2. AllJustified({})
  BY DEF AllJustified
<1>3. CASE CheckExit("err", {}) /\ Hopeless
  BY <1>1, <1>2, <1>3, ExitCheckIInv DEF CheckOutcomes
<1>4. CASE /\ CheckExit("clean", {}) /\ inputs.config.blocks = <<>>
           /\ inputs.config # Unreadable
  <2>1. inputs.config \in Config
    BY <1>4, ConfigsAssumption DEF IInv, TypeOK, Inputs
  <2> QED
    BY <1>1, <1>2, <1>4, <2>1, ExitCheckIInv DEF CheckOutcomes
<1>5. CASE /\ chk' = [CheckIdle EXCEPT !.pc = "catalog", !.cfg = inputs.config,
                        !.exitZero = exitZero]
           /\ inputs.config # Unreadable /\ inputs.config.blocks # <<>>
  <2>1. /\ chk'.pc = "catalog" /\ chk'.cfg = inputs.config /\ chk'.b = 1
        /\ chk'.outcome = "none" /\ chk'.findings = {}
    BY <1>5 DEF CheckIdle
  <2>2. inputs.config \in Configs
    BY <1>5 DEF IInv, TypeOK, Inputs
  <2>3. chk' \in CheckControl
    BY <1>5, <2>2 DEF CheckIdle, CheckControl, CheckPhases, CheckOutcomes, QueryTags
  <2>4. 1 \in DOMAIN inputs.config.blocks
    BY <1>5, <2>2, ConfigsAssumption DEF Config
  <2>5. CheckControlOK' /\ CheckFresh' /\ NothingFound'
    BY <1>1, <2>1, <2>2, <2>4
    DEF CheckControlOK, CheckFresh, NothingFound, TargetChecks
  <2>6. CleanPasses' /\ FindingsAreReal' /\ ErrorIsReal'
    BY <2>1 DEF CleanPasses, Clean, FindingsAreReal, ErrorIsReal, AllJustified
  <2> QED
    BY <1>1, <2>3, <2>5, <2>6 DEF CheckIInv
<1> QED
  BY <1>3, <1>4, <1>5 DEF StartCheck, Hopeless

\* The end of a run that reports nothing at all.
LEMMA CheckFails ==
  ASSUME CheckIInv, CheckExit("err", {}), UNCHANGED vars, still' = still,
         still => Hopeless
  PROVE  CheckIInv'
  BY ExitCheckIInv DEF CheckOutcomes, AllJustified, vars, CheckIInv

LEMMA CheckCatalogIInv ==
  ASSUME IInv, CheckIInv, CheckCatalog, UNCHANGED vars
  PROVE  CheckIInv'
<1> DEFINE schema == inputs.schema[cblock.schema]
<1>1. /\ chk.pc = "catalog" /\ still' = still /\ inputs' = inputs /\ disk' = disk
      /\ chk \in CheckControl
  BY DEF CheckCatalog, InCheck, vars, CheckIInv
<1>2. CASE ~schema.ok
  <2>1. ASSUME still PROVE Hopeless
    BY <1>1, <1>2, <2>1, CheckedBlock DEF Hopeless
  <2> QED
    BY <1>1, <1>2, <2>1, CheckFails DEF CheckCatalog
<1>3. CASE schema.ok
  <2>1. chk' = [chk EXCEPT !.pc = "targets", !.shape = schema.shape,
                           !.schemaTag = schema.shape]
    BY <1>3 DEF CheckCatalog, SchemaFingerprint
  <2>2. /\ chk'.pc = "targets" /\ chk'.cfg = chk.cfg /\ chk'.b = chk.b
        /\ chk'.outcome = chk.outcome /\ chk'.findings = chk.findings
        /\ chk'.shape = schema.shape /\ chk'.schemaTag = schema.shape
    BY <1>1, <2>1 DEF CheckControl
  <2>3. schema.shape \in Shapes
    <3>1. cblock.schema \in SchemaFiles
      BY <1>1, CheckBlockType DEF Block
    <3>2. schema \in Schema
      BY <3>1, ContentsAssumption DEF IInv, TypeOK, Inputs
    <3> QED
      BY <3>2 DEF Schema
  <2>4. chk' \in CheckControl
    BY <1>1, <2>1, <2>3 DEF CheckControl, CheckPhases
  <2>5. cblock' = cblock
    BY <2>2 DEF cblock
  <2>6. CheckControlOK' /\ CheckFresh'
    BY <1>1, <1>3, <2>2, <2>3, <2>5
    DEF CheckIInv, CheckControlOK, CheckFresh, TargetChecks
  <2>7. NothingFound'
    BY <1>1, <2>2, Frame DEF CheckIInv, NothingFound, TargetChecks
  <2>8. still => AllJustified(chk'.findings)
    BY <2>2 DEF CheckIInv, FindingsAreReal
  <2> QED
    BY <1>1, <2>2, <2>4, <2>6, <2>7, <2>8, StayCheckIInv
<1> QED
  BY <1>2, <1>3

LEMMA ValidateTargetsIInv ==
  ASSUME IInv, CheckIInv, ValidateTargets, UNCHANGED vars
  PROVE  CheckIInv'
<1> DEFINE bad == Unconstructible(cblock, inputs.overlay)
<1> DEFINE F == IF cblock.resolvable
                THEN chk.findings \cup UNION {Found({"SC-PRV09"}, j) : j \in bad}
                ELSE Found({"SC-PRV09"}, 0)
<1>1. /\ chk.pc = "targets" /\ still' = still /\ inputs' = inputs /\ disk' = disk
      /\ chk \in CheckControl /\ chk' = [chk EXCEPT !.pc = "queries", !.findings = F]
  BY DEF ValidateTargets, InCheck, vars, CheckIInv
<1>2. /\ chk'.pc = "queries" /\ chk'.cfg = chk.cfg /\ chk'.b = chk.b
      /\ chk'.outcome = chk.outcome /\ chk'.findings = F
      /\ chk'.shape = chk.shape /\ chk'.schemaTag = chk.schemaTag
  BY <1>1 DEF CheckControl
<1>3. bad \subseteq Nat
  <2>1. cblock.targets \in Seq(Target)
    BY <1>1, CheckBlockType
  <2>2. DOMAIN cblock.targets \subseteq Nat
    BY <2>1
  <2> QED
    BY <2>2 DEF Unconstructible
<1>4. /\ chk.findings \subseteq F /\ F \subseteq Finding
      /\ \A f \in F : f \in chk.findings \/ f.rule = "SC-PRV09"
      /\ F = {} => cblock.resolvable /\ bad = {}
  <2>1. \A j \in Nat : /\ Found({"SC-PRV09"}, j) \subseteq Finding
                       /\ chk.findings \subseteq Found({"SC-PRV09"}, j)
                       /\ Found({"SC-PRV09"}, j) # {}
                       /\ \A f \in Found({"SC-PRV09"}, j) :
                            f \in chk.findings \/ f.rule = "SC-PRV09"
    BY <1>1, FoundType DEF Rules
  <2>2. chk.findings \subseteq Finding
    BY <1>1 DEF CheckControl
  <2> HIDE DEF bad
  <2>3. CASE ~cblock.resolvable
    BY <2>1, <2>3
  <2>4. CASE cblock.resolvable
    <3>1. F = chk.findings \cup UNION {Found({"SC-PRV09"}, j) : j \in bad}
      BY <2>4
    <3> HIDE DEF F
    <3>2. \A f \in F : \/ f \in chk.findings
                      \/ \E j \in bad : f \in Found({"SC-PRV09"}, j)
      BY <3>1
    <3>3. \A j \in bad : Found({"SC-PRV09"}, j) \subseteq F
      BY <3>1
    <3>4. chk.findings \subseteq F
      BY <3>1
    <3>5. F \subseteq Finding
      BY <1>3, <2>1, <2>2, <3>2
    <3>6. \A f \in F : f \in chk.findings \/ f.rule = "SC-PRV09"
      BY <1>3, <2>1, <3>2
    <3>7. F = {} => bad = {}
      BY <1>3, <2>1, <3>3
    <3> QED
      BY <2>4, <3>4, <3>5, <3>6, <3>7
  <2> QED
    BY <2>3, <2>4
<1> HIDE DEF F
<1>5. chk' \in CheckControl
  BY <1>1, <1>4 DEF CheckControl, CheckPhases
<1>6. cblock' = cblock
  BY <1>2 DEF cblock
<1>7. CheckControlOK' /\ CheckFresh'
  BY <1>1, <1>2, <1>6 DEF CheckIInv, CheckControlOK, CheckFresh, TargetChecks
<1>8. NothingFound'
  <2>1. ASSUME still, F = {}
        PROVE  TargetsUsable(cblock) /\ \A i \in 1..(chk.b - 1) : BlockPasses(i)
    BY <1>1, <1>4, <2>1 DEF TargetsUsable, Unconstructible, CheckIInv, NothingFound
  <2>2. TargetsUsable(cblock)' = TargetsUsable(cblock)
    BY <1>1, <1>6 DEF TargetsUsable
  <2> QED
    BY <1>1, <1>2, <2>1, <2>2, Frame DEF NothingFound, TargetChecks
<1>9. still => AllJustified(chk'.findings)
  <2>1. ASSUME still PROVE AllJustified(F)
    <3>1. AllJustified(chk.findings)
      BY <2>1 DEF CheckIInv, FindingsAreReal
    <3>2. /\ cblock = inputs.config.blocks[chk.b]
          /\ chk.b \in DOMAIN inputs.config.blocks
      BY <1>1, <2>1, CheckedBlock
    <3>3. CASE ~cblock.resolvable
      <4>1. BlockDeserves(cblock, "SC-PRV09")
        BY <3>3 DEF BlockDeserves
      <4>2. \A f \in F : \/ f \in chk.findings
                         \/ f.rule = "SC-PRV09" /\ f.b = chk.b /\ f.t = 0
        BY <3>3 DEF F, Found
      <4> QED
        BY <3>1, <3>2, <4>1, <4>2 DEF AllJustified, Justified
    <3>4. CASE cblock.resolvable
      <4>1. \A j \in bad : /\ j \in DOMAIN cblock.targets
                           /\ TargetDeserves(cblock, cblock.targets[j], "SC-PRV09")
        BY DEF Unconstructible, TargetDeserves
      <4> HIDE DEF bad
      <4>2. \A f \in F : \/ f \in chk.findings
                         \/ \E j \in bad : f.rule = "SC-PRV09" /\ f.b = chk.b /\ f.t = j
        <5>1. F = chk.findings \cup UNION {Found({"SC-PRV09"}, j) : j \in bad}
          BY <3>4 DEF F
        <5> QED
          BY <5>1 DEF Found
      <4> QED
        BY <3>1, <3>2, <4>1, <4>2 DEF AllJustified, Justified
    <3> QED
      BY <3>3, <3>4
  <2> QED
    BY <1>2, <2>1
<1> QED
  BY <1>1, <1>2, <1>5, <1>7, <1>8, <1>9, StayCheckIInv

LEMMA CheckQueriesIInv ==
  ASSUME IInv, CheckIInv, CheckQueries, UNCHANGED vars
  PROVE  CheckIInv'
<1> DEFINE content == inputs.queries[cblock.queries]
<1> DEFINE analyzed == {q \in content.queries : Analyzes(chk.shape, q)}
<1> DEFINE rules == QueryRules(content, analyzed)
<1> DEFINE F == Found(rules, 0)
<1> DEFINE G == F \cup Found({"SC-PRV07"}, 0)
<1>1. /\ chk.pc = "queries" /\ still' = still /\ inputs' = inputs /\ disk' = disk
      /\ chk \in CheckControl /\ chk.pc # "idle"
  BY DEF CheckQueries, InCheck, vars, CheckIInv
<1>2. rules \subseteq {"SC-PRV10", "SC-PARSE02", "SC-C03"}
  BY DEF QueryRules
<1>3. /\ chk.findings \subseteq F /\ F \subseteq Finding
      /\ \A f \in F : f \in chk.findings \/ f.rule \in rules
      /\ F = {} => rules = {}
  BY <1>1, <1>2, FoundType DEF Rules
<1>4. /\ G \subseteq Finding /\ G # {} /\ chk.findings \subseteq G
      /\ \A f \in G : f \in chk.findings \/ f.rule \in rules \cup {"SC-PRV07"}
  <2>1. /\ Found({"SC-PRV07"}, 0) \subseteq Finding
        /\ Found({"SC-PRV07"}, 0) # {}
        /\ \A f \in Found({"SC-PRV07"}, 0) : f \in chk.findings \/ f.rule \in {"SC-PRV07"}
    BY <1>1, FoundType DEF Rules
  <2> HIDE DEF F
  <2> QED
    BY <1>3, <2>1
<1>5. ASSUME still
      PROVE  analyzed = Analyzed(cblock) /\ chk.cfg = inputs.config
             /\ chk.shape = inputs.schema[cblock.schema].shape
             /\ inputs.schema[cblock.schema].ok
  BY <1>1, <1>5 DEF CheckIInv, CheckFresh, Analyzed
<1>6. still => AllJustified(F) /\ (~cblock.resolvable => AllJustified(G))
  <2>1. ASSUME still PROVE AllJustified(F)
    BY <1>1, <1>5, <2>1, BlockFindings DEF BlockDeserves
  <2>2. ASSUME still, ~cblock.resolvable PROVE AllJustified(Found({"SC-PRV07"}, 0))
    BY <1>1, <2>2, BlockFindings DEF BlockDeserves
  <2> QED
    BY <2>1, <2>2 DEF AllJustified
<1>7. ASSUME still, F = {}, ~content.stray
      PROVE  /\ QueriesUsable(content, inputs.schema[cblock.schema].shape)
             /\ TargetsUsable(cblock)
             /\ \A i \in 1..(chk.b - 1) : BlockPasses(i)
  <2>1. analyzed = content.queries
    BY <1>3, <1>7 DEF QueryRules
  <2>2. chk.findings = {}
    BY <1>3, <1>7
  <2> QED
    BY <1>1, <1>5, <1>7, <2>1, <2>2 DEF QueriesUsable, CheckIInv, NothingFound
<1> HIDE DEF rules, F, G
<1>8. CASE content.stray
  <2>1. ASSUME still PROVE Hopeless
    BY <1>1, <1>8, <2>1, CheckedBlock DEF Hopeless
  <2> QED
    BY <1>1, <1>8, <2>1, CheckFails DEF CheckQueries
<1>9. CASE ~content.stray /\ ~cblock.resolvable
  <2>1. CheckNextBlock(G)
    BY <1>9 DEF CheckQueries, rules, F, G
  <2> QED
    BY <1>1, <1>4, <1>6, <1>9, <2>1, EndOfBlock
<1>10. CASE ~content.stray /\ cblock.resolvable /\ cblock.targets = <<>>
  <2>1. CheckNextBlock(F)
    BY <1>10 DEF CheckQueries, rules, F
  <2>2. ASSUME still, F = {} PROVE BlockPasses(chk.b)
    <3>1. cblock = inputs.config.blocks[chk.b]
      BY <1>5, <2>2 DEF cblock
    <3>2. InputsUsable(cblock)
      BY <1>5, <1>7, <1>10, <2>2 DEF InputsUsable, TargetsUsable
    <3>3. DOMAIN cblock.targets = {}
      BY <1>10
    <3> QED
      BY <3>1, <3>2, <3>3 DEF BlockPasses
  <2> QED
    BY <1>1, <1>3, <1>6, <2>1, <2>2, EndOfBlock
<1>11. CASE ~content.stray /\ cblock.resolvable /\ cblock.targets # <<>>
  <2> DEFINE tag == QueriesFingerprint(chk.shape, analyzed)
  <2>1. chk' = [chk EXCEPT !.pc = "options", !.t = 1, !.queriesTag = tag,
                           !.findings = F]
    BY <1>11 DEF CheckQueries, rules, F
  <2>2. /\ chk'.pc = "options" /\ chk'.cfg = chk.cfg /\ chk'.b = chk.b
        /\ chk'.t = 1 /\ chk'.outcome = chk.outcome /\ chk'.findings = F
        /\ chk'.shape = chk.shape /\ chk'.schemaTag = chk.schemaTag
        /\ chk'.queriesTag = tag
    BY <1>1, <2>1 DEF CheckControl
  <2>3. tag \in QueryTags
    <3>1. cblock \in Block
      BY <1>1, CheckBlockType
    <3>2. content \in QueryFile
      BY <3>1, ContentsAssumption DEF Block, IInv, TypeOK, Inputs
    <3>3. analyzed \in SUBSET Query /\ chk.shape \in Shapes
      BY <1>1, <3>2 DEF QueryFile, CheckIInv, CheckControlOK
    <3> QED
      BY <3>3, QueriesTagType
  <2>4. chk' \in CheckControl
    BY <1>1, <1>3, <2>1, <2>3 DEF CheckControl, CheckPhases
  <2>5. cblock' = cblock
    BY <2>2 DEF cblock
  <2>6. 1 \in DOMAIN cblock.targets
    BY <1>1, <1>11, CheckBlockType
  <2>7. CheckControlOK'
    BY <1>1, <2>2, <2>5, <2>6 DEF CheckIInv, CheckControlOK, TargetChecks
  <2>8. CheckFresh'
    <3>1. Analyzed(cblock)' = Analyzed(cblock)
      BY <1>1, <2>5 DEF Analyzed
    <3> QED
      BY <1>1, <1>5, <2>2, <2>5, <3>1 DEF CheckIInv, CheckFresh, TargetChecks
  <2>9. NothingFound'
    <3>1. TargetsUsable(cblock)' = TargetsUsable(cblock)
      BY <1>1, <2>5 DEF TargetsUsable
    <3>2. QueriesUsable(inputs.queries[cblock.queries],
                        inputs.schema[cblock.schema].shape)' =
            QueriesUsable(content, inputs.schema[cblock.schema].shape)
      BY <1>1, <2>5 DEF QueriesUsable
    <3> QED
      BY <1>1, <1>7, <1>11, <2>2, <3>1, <3>2, Frame DEF NothingFound, TargetChecks
  <2>10. still => AllJustified(chk'.findings)
    BY <1>6, <2>2
  <2> QED
    BY <1>1, <2>2, <2>4, <2>7, <2>8, <2>9, <2>10, StayCheckIInv
<1> QED
  BY <1>8, <1>9, <1>10, <1>11

LEMMA ReadOptionsIInv ==
  ASSUME IInv, CheckIInv, ReadOptions, UNCHANGED vars
  PROVE  CheckIInv'
<1> DEFINE content == OverlayContent(ctarget, inputs.overlay)
<1> DEFINE F == Found({"SC-PRV07"}, chk.t)
<1>1. /\ chk.pc = "options" /\ still' = still /\ inputs' = inputs /\ disk' = disk
      /\ chk \in CheckControl /\ chk.pc \in TargetChecks /\ chk.pc # "idle"
  BY DEF ReadOptions, InCheck, vars, CheckIInv, TargetChecks
<1>2. ctarget \in Target /\ chk.t \in DOMAIN cblock.targets
  BY <1>1, CheckBlockType
<1>3. CASE ~(Supports(ctarget.backend, cblock.engine) /\ content # "missing")
  <2>1. CheckNextTarget(F)
    BY <1>3 DEF ReadOptions
  <2>2. /\ chk.findings \subseteq F /\ F \subseteq Finding /\ F # {}
        /\ \A f \in F : f \in chk.findings \/ f.rule \in {"SC-PRV07"}
    <3>1. chk.t \in Nat
      BY <1>1 DEF CheckControl
    <3> QED
      BY <1>1, <3>1, FoundType DEF Rules
  <2>3. still => AllJustified(F)
    BY <1>1, <1>2, <1>3, TargetFindings DEF TargetDeserves, OptionsTellable
  <2> HIDE DEF F
  <2> QED
    BY <1>1, <2>1, <2>2, <2>3, EndOfTarget
<1>4. CASE Supports(ctarget.backend, cblock.engine) /\ content # "missing"
  <2> DEFINE tag == OptionsFingerprint(ctarget.options, content)
  <2>1. chk' = [chk EXCEPT !.pc = "main", !.optionsTag = tag]
    BY <1>4 DEF ReadOptions
  <2>2. /\ chk'.pc = "main" /\ chk'.cfg = chk.cfg /\ chk'.b = chk.b
        /\ chk'.t = chk.t /\ chk'.outcome = chk.outcome
        /\ chk'.findings = chk.findings /\ chk'.shape = chk.shape
        /\ chk'.schemaTag = chk.schemaTag /\ chk'.queriesTag = chk.queriesTag
        /\ chk'.optionsTag = tag
    BY <1>1, <2>1 DEF CheckControl
  <2>3. tag \in OptionTags
    <3>1. content \in OverlayContents \cup {None}
      BY <1>2 DEF OverlayContent, IInv, TypeOK, Inputs, Target
    <3> QED
      BY <1>2, <3>1 DEF OptionsFingerprint, OptionTags, Target
  <2>4. chk' \in CheckControl
    BY <1>1, <2>1, <2>3 DEF CheckControl, CheckPhases
  <2>5. cblock' = cblock /\ ctarget' = ctarget
    BY <2>2 DEF cblock, ctarget
  <2> HIDE DEF tag
  <2>6. CheckControlOK'
    BY <1>1, <2>2, <2>5 DEF CheckIInv, CheckControlOK, TargetChecks
  <2>7. CheckFresh'
    <3>1. Analyzed(cblock)' = Analyzed(cblock)
      BY <1>1, <2>5 DEF Analyzed
    <3>2. tag' = OptionsFingerprint(ctarget'.options,
                                    OverlayContent(ctarget', inputs'.overlay))
      BY DEF tag
    <3>3. tag' = tag
      BY <1>1, <2>5 DEF tag
    <3> QED
      BY <1>1, <2>2, <2>5, <3>1, <3>2, <3>3
      DEF CheckIInv, CheckFresh, TargetChecks
  <2>8. NothingFound'
    <3>1. TargetsUsable(cblock)' = TargetsUsable(cblock)
      BY <1>1, <2>5 DEF TargetsUsable
    <3>2. QueriesUsable(inputs.queries[cblock.queries],
                        inputs.schema[cblock.schema].shape)' =
            QueriesUsable(inputs.queries[cblock.queries],
                          inputs.schema[cblock.schema].shape)
      BY <1>1, <2>5 DEF QueriesUsable
    <3>3. \A j : TargetPasses(chk.b, j)' = TargetPasses(chk.b, j)
      BY <1>1, <2>2, Frame DEF TargetPasses, Passes
    <3> QED
      BY <1>1, <2>2, <3>1, <3>2, <3>3, Frame
      DEF CheckIInv, NothingFound, TargetChecks
  <2>9. still => AllJustified(chk'.findings)
    BY <2>2 DEF CheckIInv, FindingsAreReal
  <2> QED
    BY <1>1, <2>2, <2>4, <2>6, <2>7, <2>8, <2>9, StayCheckIInv
<1> QED
  BY <1>3, <1>4

\* While nothing moves, a file is compared with what the inputs ask for.
LEMMA ExpectationFresh ==
  ASSUME CheckIInv, chk.pc \in {"main", "rbs"}, still
  PROVE  /\ Expectation = Expected(cblock, ctarget)
         /\ chk.cfg = inputs.config /\ cblock = inputs.config.blocks[chk.b]
         /\ <<chk.b, chk.t>> \in AllTargets(inputs.config)
         /\ BlockAt(<<chk.b, chk.t>>) = cblock
         /\ TargetAt(inputs.config, <<chk.b, chk.t>>) = ctarget
<1>1. chk.pc # "idle" /\ chk.pc \in TargetChecks /\ chk.pc # "catalog"
  BY DEF TargetChecks
<1>2. /\ chk.cfg = inputs.config
      /\ chk.shape = inputs.schema[cblock.schema].shape
      /\ chk.schemaTag = chk.shape
      /\ chk.queriesTag = QueriesFingerprint(chk.shape, Analyzed(cblock))
      /\ chk.optionsTag =
           OptionsFingerprint(ctarget.options,
                              OverlayContent(ctarget, inputs.overlay))
  BY <1>1 DEF CheckIInv, CheckFresh
<1>3. Expectation = Expected(cblock, ctarget)
  BY <1>2 DEF Expectation, Expected, HeaderOf
<1>4. cblock = inputs.config.blocks[chk.b]
  BY <1>2 DEF cblock
<1>5. chk.b \in DOMAIN inputs.config.blocks /\ chk.t \in DOMAIN cblock.targets
  BY <1>1, <1>2, CheckBlockType
<1>6. <<chk.b, chk.t>> \in AllTargets(inputs.config)
  BY <1>4, <1>5, AllTargetsPairs
<1> QED
  BY <1>2, <1>3, <1>4, <1>6 DEF BlockAt, TargetAt, ctarget

\* Comparing one file: the findings are real and none means it passes.
LEMMA ArtifactIsChecked ==
  ASSUME IInv, CheckIInv, chk.pc \in {"main", "rbs"},
         NEW path, path \in ArtifactPaths(ctarget)
  PROVE  /\ ArtifactFindings(path) \subseteq Finding
         /\ chk.findings \subseteq ArtifactFindings(path)
         /\ still => AllJustified(ArtifactFindings(path))
         /\ still /\ ArtifactFindings(path) = {} =>
              Passes(Location(path), cblock, ctarget)
<1> DEFINE l == Location(path)
<1> DEFINE rules == VerifyArtifact(disk[l], Expectation)
<1>1. chk.pc # "idle" /\ chk.pc \in TargetChecks /\ chk \in CheckControl
  BY DEF TargetChecks, CheckIInv
<1>2. ctarget \in Target
  BY <1>1, CheckBlockType
<1>3. l \in Outputs(ctarget) /\ l \in Locations
  BY <1>2, OutputsAreLocations DEF Outputs
<1>4. disk[l] \in FileStates
  BY <1>3 DEF IInv, TypeOK
<1>5. rules \subseteq Rules
  BY <1>4, VerifyRules
<1>6. ArtifactFindings(path) = Found(rules, chk.t)
  BY DEF ArtifactFindings
<1> HIDE DEF rules
<1>7. /\ Found(rules, chk.t) \subseteq Finding
      /\ chk.findings \subseteq Found(rules, chk.t)
      /\ rules # {} => Found(rules, chk.t) # {}
      /\ \A f \in Found(rules, chk.t) : f \in chk.findings \/ f.rule \in rules
  <2>1. chk.t \in Nat
    BY <1>1 DEF CheckControl
  <2> QED
    BY <1>1, <1>5, <2>1, FoundType
<1>8. ASSUME still
      PROVE  AllJustified(Found(rules, chk.t))
  <2>1. Expectation = Expected(cblock, ctarget)
    BY <1>8, ExpectationFresh
  <2>2. \A r \in rules : r \in VerifyArtifact(disk[l], Expected(cblock, ctarget))
    BY <2>1 DEF rules
  <2> HIDE DEF l
  <2>3. \A r \in rules : TargetDeserves(cblock, ctarget, r)
    BY <1>3, <2>2 DEF TargetDeserves
  <2> QED
    BY <1>1, <1>8, <2>3, TargetFindings
<1>9. ASSUME still, rules = {}
      PROVE  Passes(l, cblock, ctarget)
  BY <1>9, ExpectationFresh DEF Passes, rules
<1> QED
  BY <1>6, <1>7, <1>8, <1>9

LEMMA VerifyMainIInv ==
  ASSUME IInv, CheckIInv, VerifyMain, UNCHANGED vars
  PROVE  CheckIInv'
<1> DEFINE F == ArtifactFindings(MainPath(ctarget))
<1>1. /\ chk.pc = "main" /\ still' = still /\ inputs' = inputs /\ disk' = disk
      /\ chk \in CheckControl /\ chk.pc \in TargetChecks /\ chk.pc # "idle"
  BY DEF VerifyMain, InCheck, vars, CheckIInv, TargetChecks
<1>2. MainPath(ctarget) \in ArtifactPaths(ctarget)
  BY DEF ArtifactPaths
<1>3. /\ F \subseteq Finding /\ chk.findings \subseteq F
      /\ still => AllJustified(F)
      /\ still /\ F = {} => Passes(Location(MainPath(ctarget)), cblock, ctarget)
  BY <1>1, <1>2, ArtifactIsChecked
<1>4. CASE ~EmitsRbs(ctarget.backend)
  <2>1. CheckNextTarget(F)
    BY <1>4 DEF VerifyMain
  <2>2. ASSUME still, F = {} PROVE TargetPasses(chk.b, chk.t)
    <3>1. cblock = inputs.config.blocks[chk.b]
      BY <1>1, <2>2, ExpectationFresh
    <3>2. Outputs(ctarget) = {Location(MainPath(ctarget))}
      BY <1>4 DEF Outputs, ArtifactPaths
    <3> QED
      BY <1>3, <2>2, <3>1, <3>2 DEF TargetPasses, ctarget
  <2> HIDE DEF F
  <2> QED
    BY <1>1, <1>3, <2>1, <2>2, EndOfTarget
<1>5. CASE EmitsRbs(ctarget.backend)
  <2>1. chk' = [chk EXCEPT !.pc = "rbs", !.findings = F]
    BY <1>5 DEF VerifyMain
  <2> HIDE DEF F
  <2>2. /\ chk'.pc = "rbs" /\ chk'.cfg = chk.cfg /\ chk'.b = chk.b
        /\ chk'.t = chk.t /\ chk'.outcome = chk.outcome
        /\ chk'.findings = F /\ chk'.shape = chk.shape
        /\ chk'.schemaTag = chk.schemaTag /\ chk'.queriesTag = chk.queriesTag
        /\ chk'.optionsTag = chk.optionsTag
    BY <1>1, <2>1 DEF CheckControl
  <2>3. chk' \in CheckControl
    BY <1>1, <1>3, <2>1 DEF CheckControl, CheckPhases
  <2>4. cblock' = cblock /\ ctarget' = ctarget
    BY <2>2 DEF cblock, ctarget
  <2>5. CheckControlOK'
    BY <1>1, <1>5, <2>2, <2>4 DEF CheckIInv, CheckControlOK, TargetChecks
  <2>6. CheckFresh'
    <3>1. Analyzed(cblock)' = Analyzed(cblock)
      BY <1>1, <2>4 DEF Analyzed
    <3> QED
      BY <1>1, <2>2, <2>4, <3>1 DEF CheckIInv, CheckFresh, TargetChecks
  <2>7. NothingFound'
    <3>1. TargetsUsable(cblock)' = TargetsUsable(cblock)
      BY <1>1, <2>4 DEF TargetsUsable
    <3>2. QueriesUsable(inputs.queries[cblock.queries],
                        inputs.schema[cblock.schema].shape)' =
            QueriesUsable(inputs.queries[cblock.queries],
                          inputs.schema[cblock.schema].shape)
      BY <1>1, <2>4 DEF QueriesUsable
    <3>3. \A j : TargetPasses(chk.b, j)' = TargetPasses(chk.b, j)
      BY <1>1, <2>2, Frame DEF TargetPasses, Passes
    <3>4. Passes(Location(MainPath(ctarget)), cblock, ctarget)' =
            Passes(Location(MainPath(ctarget)), cblock, ctarget)
      <4>1. Location(MainPath(ctarget))' = Location(MainPath(ctarget))
        BY <2>4 DEF Location, MainPath
      <4>2. Expected(cblock, ctarget)' = Expected(cblock, ctarget)
        BY <1>1, <2>4 DEF Expected, Analyzed
      <4> QED
        BY <1>1, <4>1, <4>2 DEF Passes
    <3>5. F = {} => chk.findings = {}
      BY <1>3
    <3> QED
      BY <1>1, <1>3, <2>2, <3>1, <3>2, <3>3, <3>4, <3>5, Frame
      DEF CheckIInv, NothingFound, TargetChecks
  <2> QED
    BY <1>1, <1>3, <2>2, <2>3, <2>5, <2>6, <2>7, StayCheckIInv
<1> QED
  BY <1>4, <1>5

LEMMA VerifyRbsIInv ==
  ASSUME IInv, CheckIInv, VerifyRbs, UNCHANGED vars
  PROVE  CheckIInv'
<1> DEFINE F == ArtifactFindings(RbsPath(ctarget))
<1>1. /\ chk.pc = "rbs" /\ still' = still /\ inputs' = inputs /\ disk' = disk
      /\ chk \in CheckControl /\ chk.pc \in TargetChecks /\ chk.pc # "idle"
      /\ CheckNextTarget(F)
  BY DEF VerifyRbs, InCheck, vars, CheckIInv, TargetChecks
<1>2. EmitsRbs(ctarget.backend) /\ RbsPath(ctarget) \in ArtifactPaths(ctarget)
  BY <1>1 DEF ArtifactPaths, CheckIInv, CheckControlOK
<1>3. /\ F \subseteq Finding /\ chk.findings \subseteq F
      /\ still => AllJustified(F)
      /\ still /\ F = {} => Passes(Location(RbsPath(ctarget)), cblock, ctarget)
  BY <1>1, <1>2, ArtifactIsChecked
<1>4. ASSUME still, F = {} PROVE TargetPasses(chk.b, chk.t)
  <2>1. cblock = inputs.config.blocks[chk.b]
    BY <1>1, <1>4, ExpectationFresh
  <2>2. Outputs(ctarget) = {Location(MainPath(ctarget)), Location(RbsPath(ctarget))}
    BY <1>2 DEF Outputs, ArtifactPaths
  <2>3. Passes(Location(MainPath(ctarget)), cblock, ctarget)
    BY <1>1, <1>3, <1>4 DEF CheckIInv, NothingFound
  <2> QED
    BY <1>3, <1>4, <2>1, <2>2, <2>3 DEF TargetPasses, ctarget
<1> HIDE DEF F
<1> QED
  BY <1>1, <1>3, <1>4, EndOfTarget

\* What check knows while the inputs, the disk and check itself stand still.
LEMMA QuietCheckIInv ==
  ASSUME CheckIInv, inputs' = inputs, disk' = disk, chk' = chk, still' = still
  PROVE  CheckIInv'
<1>1. cblock' = cblock /\ ctarget' = ctarget
  BY DEF cblock, ctarget
<1>2. CheckControlOK'
  BY <1>1 DEF CheckIInv, CheckControlOK
<1>3. /\ Analyzed(cblock)' = Analyzed(cblock)
      /\ TargetsUsable(cblock)' = TargetsUsable(cblock)
      /\ QueriesUsable(inputs.queries[cblock.queries],
                       inputs.schema[cblock.schema].shape)' =
           QueriesUsable(inputs.queries[cblock.queries],
                         inputs.schema[cblock.schema].shape)
      /\ OverlayContent(ctarget, inputs.overlay)' =
           OverlayContent(ctarget, inputs.overlay)
  BY <1>1 DEF Analyzed, TargetsUsable, QueriesUsable, OverlayContent
<1>4. CheckFresh'
  BY <1>1, <1>3 DEF CheckIInv, CheckFresh
<1>5. \A j : TargetPasses(chk.b, j)' = TargetPasses(chk.b, j)
  <2>1. \A i, j : TargetPasses(i, j)' = TargetPasses(i, j)
    BY Frame
  <2> QED
    BY <2>1
<1>6. Passes(Location(MainPath(ctarget)), cblock, ctarget)' =
        Passes(Location(MainPath(ctarget)), cblock, ctarget)
  <2>1. Location(MainPath(ctarget))' = Location(MainPath(ctarget))
    BY <1>1 DEF Location, MainPath
  <2>2. Expected(cblock, ctarget)' = Expected(cblock, ctarget)
    BY <1>1 DEF Expected, Analyzed
  <2> QED
    BY <2>1, <2>2 DEF Passes
<1>7. NothingFound'
  BY <1>3, <1>5, <1>6, Frame DEF CheckIInv, NothingFound
<1>8. CleanPasses'
  BY Frame DEF CheckIInv, CleanPasses, Clean
<1>9. FindingsAreReal' /\ ErrorIsReal'
  <2>1. AllJustified(chk.findings)' = AllJustified(chk.findings)
    <3>1. \A F : AllJustified(F)' = AllJustified(F)
      BY Frame
    <3>2. AllJustified(chk.findings)' = AllJustified(chk'.findings)
      BY <3>1 DEF AllJustified, Justified
    <3> QED
      BY <3>1, <3>2
  <2> QED
    BY <2>1, Frame DEF CheckIInv, FindingsAreReal, ErrorIsReal
<1> QED
  BY <1>2, <1>4, <1>7, <1>8, <1>9 DEF CheckIInv

\* A write or an edit under the check voids what it knows.
LEMMA OutsideIInv ==
  ASSUME CheckIInv, Outside
  PROVE  CheckIInv'
<1>1. chk' = chk /\ still' \in BOOLEAN
  BY DEF Outside, CheckIInv
<1>2. CASE still' = still /\ inputs' = inputs /\ disk' = disk
  BY <1>1, <1>2, QuietCheckIInv
<1>3. CASE ~still'
  <2>1. CheckControlOK'
    BY <1>1 DEF CheckIInv, CheckControlOK, cblock, ctarget
  <2>2. CheckFresh' /\ NothingFound' /\ CleanPasses' /\ FindingsAreReal' /\ ErrorIsReal'
    BY <1>3 DEF CheckFresh, NothingFound, CleanPasses, Clean, FindingsAreReal,
                ErrorIsReal
  <2> QED
    BY <1>1, <2>1, <2>2 DEF CheckIInv
<1> QED
  BY <1>2, <1>3 DEF Outside, CheckIInv

LEMMA NextCheckIInv == IInv /\ CheckIInv /\ [CheckNext]_allVars => CheckIInv'
<1> SUFFICES ASSUME IInv, CheckIInv, [CheckNext]_allVars
             PROVE  CheckIInv'
  OBVIOUS
<1>1. CASE Outside
  BY <1>1, OutsideIInv
<1>2. ASSUME NEW exitZero \in BOOLEAN, StartCheck(exitZero), UNCHANGED vars
      PROVE  CheckIInv'
  BY <1>2, StartCheckIInv
<1>3. CASE CheckStep /\ UNCHANGED vars
  BY <1>3, CheckCatalogIInv, ValidateTargetsIInv, CheckQueriesIInv,
     ReadOptionsIInv, VerifyMainIInv, VerifyRbsIInv DEF CheckStep
<1>4. CASE UNCHANGED allVars
  BY <1>4, QuietCheckIInv DEF allVars, checkVars, vars
<1> QED
  BY <1>1, <1>2, <1>3, <1>4 DEF CheckNext

\* While nothing moves under it, a check compares every file with what the
\* inputs ask for, its drift is real and its silence is earned, for every
\* configuration and every interleaving with generate and the editor.
THEOREM CheckSpecIInv == CheckSpec => []CheckIInv
<1>1. CheckInit => CheckIInv
  <2> SUFFICES ASSUME CheckInit PROVE CheckIInv
    OBVIOUS
  <2>1. chk = CheckIdle /\ still = FALSE
    BY DEF CheckInit
  <2>2. chk \in CheckControl
    BY <2>1 DEF CheckIdle, CheckControl, CheckPhases, CheckOutcomes, QueryTags
  <2>3. CheckControlOK
    BY <2>1 DEF CheckIdle, CheckControlOK, TargetChecks
  <2>4. CheckFresh /\ NothingFound /\ CleanPasses
    BY <2>1 DEF CheckFresh, NothingFound, CleanPasses, Clean
  <2>5. FindingsAreReal /\ ErrorIsReal
    BY <2>1 DEF FindingsAreReal, ErrorIsReal
  <2> QED
    BY <2>1, <2>2, <2>3, <2>4, <2>5 DEF CheckIInv
<1>2. CheckSpec => []IInv
  BY CheckSpecImpliesSpec, SpecIInv, PTL
<1> QED
  BY <1>1, <1>2, NextCheckIInv, PTL DEF CheckSpec

-----------------------------------------------------------------------------
(* What a report means. *)

\* Every variable of check and of generate keeps a value of its kind.
THEOREM CheckSpecTypeOK == CheckSpec => []CheckTypeOK
<1>1. CheckIInv /\ TypeOK => CheckTypeOK
  BY DEF CheckIInv, CheckTypeOK
<1> QED
  BY <1>1, CheckSpecIInv, CheckSpecImpliesSpec, SpecTypeOK, PTL

\* An empty report over inputs and files nobody touched means that generate
\* gets past the schema, the queries and every target of every block.
THEOREM CheckSpecCleanMeansUsable == CheckSpec => []CleanMeansUsable
<1>1. CheckIInv => CleanMeansUsable
  BY DEF CheckIInv, CleanPasses, BlockPasses, CleanMeansUsable
<1> QED
  BY <1>1, CheckSpecIInv, PTL

\* A file that passes has a complete header whose every field that is there is
\* the expected one.
LEMMA PassingHeader ==
  ASSUME NEW l, NEW blk, NEW t, Passes(l, blk, t), disk[l].kind = "file",
         NEW f \in HeaderFields
  PROVE  \/ disk[l].header[f] = Expected(blk, t)[f]
         \/ f \in OptionalFields /\ disk[l].header[f] = None
<1>1. IsComplete(disk[l].header)
  BY DEF Passes, VerifyArtifact
<1>2. {RuleOf[g] : g \in Drifted(disk[l].header, Expected(blk, t))} = {}
  BY <1>1 DEF Passes, VerifyArtifact
<1>3. f \notin Drifted(disk[l].header, Expected(blk, t))
  BY <1>2
<1> QED
  BY <1>3 DEF Drifted

\* An output present under a clean report was generated from what the inputs
\* hold now.
LEMMA PresentIsCurrent ==
  ASSUME IInv, OptionsTold, CheckIInv, Clean,
         NEW i \in DOMAIN inputs.config.blocks,
         NEW j \in DOMAIN inputs.config.blocks[i].targets,
         NEW l \in Locations, l \in Outputs(inputs.config.blocks[i].targets[j]),
         disk[l].kind = "file", disk[l].body # Truncated
  PROVE  LET blk == inputs.config.blocks[i]
             shape == inputs.schema[blk.schema].shape
             body == disk[l].body
         IN /\ body.schema = shape
            /\ QueriesFingerprint(shape, body.queries) =
                 QueriesFingerprint(shape, inputs.queries[blk.queries].queries)
            /\ body.engine = blk.engine
            /\ body.backend = blk.targets[j].backend
            /\ body.options = blk.targets[j].options
<1> DEFINE blk == inputs.config.blocks[i]
<1> DEFINE t == blk.targets[j]
<1> DEFINE shape == inputs.schema[blk.schema].shape
<1> DEFINE header == disk[l].header
<1> DEFINE body == disk[l].body
<1> DEFINE content == inputs.queries[blk.queries]
<1>1. Passes(l, blk, t) /\ QueriesUsable(content, shape)
  BY DEF CheckIInv, CleanPasses, BlockPasses, TargetPasses, InputsUsable
<1>2. \A f \in HeaderFields : \/ header[f] = Expected(blk, t)[f]
                              \/ f \in OptionalFields /\ header[f] = None
  <2> TAKE f \in HeaderFields
  <2>1. Passes(l, blk, t) /\ disk[l].kind = "file"
    BY <1>1
  <2> HIDE DEF blk, t
  <2> QED
    BY <2>1, PassingHeader
<1>3. disk[l] \in FileStates
  BY DEF IInv, TypeOK
<1>4. header \in Header /\ body \in Body
  BY <1>3 DEF FileStates
<1>5. header.version = Version /\ header.schema = shape
      /\ header.engine = blk.engine /\ header.backend = t.backend
  BY <1>2 DEF HeaderFields, OptionalFields, Expected, HeaderOf
<1>6. /\ header.queries \in {QueriesFingerprint(shape, Analyzed(blk)), None}
      /\ header.options \in {OptionsFingerprint(t.options,
                               OverlayContent(t, inputs.overlay)), None}
  BY <1>2 DEF HeaderFields, Expected, HeaderOf
<1>7. Intact(disk[l])
  BY <1>5 DEF Intact
<1>8. HeaderTells(header, body)
  BY <1>7 DEF IInv, HeadersTell
<1>9. header.options # None /\ header.options.options = body.options
  BY <1>7 DEF OptionsTold
<1>10. body.schema = shape /\ body.engine = blk.engine /\ body.backend = t.backend
  BY <1>5, <1>8 DEF HeaderTells
<1>11. body.options = t.options
  <2> DEFINE overlay == OverlayContent(t, inputs.overlay)
  <2>1. header.options = OptionsFingerprint(t.options, overlay)
    BY <1>6, <1>9
  <2>2. OptionsFingerprint(t.options, overlay).options = t.options
    BY DEF OptionsFingerprint
  <2> QED
    BY <1>9, <2>1, <2>2
<1>12. QueriesFingerprint(shape, body.queries) =
         QueriesFingerprint(shape, content.queries)
  <2>1. header.queries = QueriesFingerprint(shape, body.queries)
    BY <1>8, <1>10 DEF HeaderTells
  <2>2. header.queries # None
    <3>1. body.queries \in SUBSET Query /\ shape \in Shapes
      BY <1>4, <1>10 DEF Body
    <3> QED
      BY <2>1, <3>1, DistinctAssumption
  <2>3. Analyzed(blk) = content.queries
    BY <1>1 DEF Analyzed, QueriesUsable
  <2> QED
    BY <1>6, <2>1, <2>2, <2>3
<1> QED
  BY <1>10, <1>11, <1>12

\* An empty report over inputs and files nobody touched means that every
\* output present was generated from a schema and a query set with the
\* fingerprints the inputs have now, for the backend, the engine and the
\* options configured.
THEOREM CheckSpecCleanMeansCurrent == CheckSpec => []CleanMeansCurrent
<1>1. IInv /\ OptionsTold /\ CheckIInv => CleanMeansCurrent
  <2> SUFFICES ASSUME IInv, OptionsTold, CheckIInv, Clean, NEW p \in Present
               PROVE  LET body == disk[p[2]].body
                          t == TargetAt(inputs.config, p[1])
                      IN /\ body.schema = CurrentShape(p[1])
                         /\ QueriesFingerprint(body.schema, body.queries) =
                              QueriesFingerprint(body.schema, CurrentQueries(p[1]))
                         /\ body.engine = BlockAt(p[1]).engine
                         /\ body.backend = t.backend
                         /\ body.options = t.options
    BY DEF CleanMeansCurrent
  <2>1. PICK x \in AllTargets(inputs.config) :
          \E l \in Outputs(TargetAt(inputs.config, x)) :
             p = <<x, l>> /\ disk[l].kind = "file" /\ disk[l].body # Truncated
    BY DEF Present
  <2>6. PICK l \in Outputs(TargetAt(inputs.config, x)) :
          p = <<x, l>> /\ disk[l].kind = "file" /\ disk[l].body # Truncated
    BY <2>1
  <2>2. PICK i \in DOMAIN inputs.config.blocks :
          \E j \in DOMAIN inputs.config.blocks[i].targets : x = <<i, j>>
    BY AllTargetsPairs
  <2>3. PICK j \in DOMAIN inputs.config.blocks[i].targets : x = <<i, j>>
    BY <2>2
  <2>4. /\ BlockAt(x) = inputs.config.blocks[i]
        /\ TargetAt(inputs.config, x) = inputs.config.blocks[i].targets[j]
    BY <2>3 DEF BlockAt, TargetAt
  <2>5. l \in Locations
    <3>1. inputs.config \in Config
      BY DEF CheckIInv, CleanPasses
    <3>2. inputs.config.blocks[i] \in Block
      BY <3>1 DEF Config
    <3>3. inputs.config.blocks[i].targets[j] \in Target
      BY <3>2 DEF Block
    <3> QED
      BY <2>4, <3>3, OutputsAreLocations
  <2>7. /\ l \in Outputs(inputs.config.blocks[i].targets[j])
        /\ disk[l].kind = "file" /\ disk[l].body # Truncated
    BY <2>4, <2>6
  <2>8. LET blk == inputs.config.blocks[i]
            shape == inputs.schema[blk.schema].shape
            body == disk[l].body
        IN /\ body.schema = shape
           /\ QueriesFingerprint(shape, body.queries) =
                QueriesFingerprint(shape, inputs.queries[blk.queries].queries)
           /\ body.engine = blk.engine
           /\ body.backend = blk.targets[j].backend
           /\ body.options = blk.targets[j].options
    BY <2>5, <2>7, PresentIsCurrent
  <2>9. p[1] = x /\ p[2] = l
    BY <2>6
  <2> QED
    BY <2>4, <2>8, <2>9 DEF CurrentShape, CurrentQueries
<1> QED
  BY <1>1, CheckSpecImpliesSpec, SpecIInv, SpecOptionsTold, CheckSpecIInv, PTL

\* verify_artifact has nothing to say of a file exactly when it is not there or
\* has a complete header, each field of which is the expected one or is optional
\* and missing.
THEOREM VerifyArtifactAccepts ==
  ASSUME NEW file \in FileStates, NEW expected
  PROVE  VerifyArtifact(file, expected) = {} <=>
           \/ file.kind = "absent"
           \/ /\ file.kind = "file"
              /\ IsComplete(file.header)
              /\ \A f \in HeaderFields :
                   \/ file.header[f] = expected[f]
                   \/ f \in OptionalFields /\ file.header[f] = None
<1>1. file.kind \in {"absent", "unreadable", "headerless", "file"}
  BY DEF FileStates
<1>2. CASE file.kind # "file"
  BY <1>1, <1>2 DEF VerifyArtifact
<1>3. CASE file.kind = "file"
  <2>1. VerifyArtifact(file, expected) =
          IF IsComplete(file.header)
          THEN {RuleOf[f] : f \in Drifted(file.header, expected)}
          ELSE {"SC-PRV06"}
    BY <1>3 DEF VerifyArtifact
  <2>2. VerifyArtifact(file, expected) = {} <=>
          IsComplete(file.header) /\ Drifted(file.header, expected) = {}
    BY <2>1
  <2> QED
    BY <1>3, <2>2 DEF Drifted
<1> QED
  BY <1>2, <1>3

\* A check raises no false alarm: while nothing moves under it, every finding is
\* deserved by the block and the target it points to.
THEOREM CheckSpecFindingsAreReal == CheckSpec => []FindingsAreReal
<1>1. CheckIInv => FindingsAreReal
  BY DEF CheckIInv
<1> QED
  BY <1>1, CheckSpecIInv, PTL

\* Every target of an accepted block resolves.
LEMMA AcceptedTarget ==
  ASSUME NEW blk, blk.targets \in Seq(Target), BlockAccepted(blk),
         NEW j \in DOMAIN blk.targets
  PROVE  /\ blk.targets[j] \in Target
         /\ TargetResolves(blk, blk.targets[j], inputs.overlay, TRUE)
<1>1. j \in 1..Len(blk.targets)
  OBVIOUS
<1>2. \A n \in 1..Len(blk.targets) :
        TargetResolves(blk, blk.targets[n], inputs.overlay, TRUE)
  BY DEF BlockAccepted, TargetsResolve
<1>3. blk.targets[j] \in Target
  OBVIOUS
<1> QED
  BY <1>1, <1>2, <1>3

\* A file as a run from scratch leaves it passes.
LEMMA FreshFilesPass ==
  ASSUME NEW blk \in Block, NEW t \in Target,
         inputs.schema[blk.schema].shape \in Shapes,
         Analyzed(blk) = inputs.queries[blk.queries].queries,
         NEW l, disk[l] = FreshFile(blk, t, inputs)
  PROVE  VerifyArtifact(disk[l], Expected(blk, t)) = {}
<1>1. disk[l].kind = "file" /\ disk[l].header = Expected(blk, t)
  BY DEF FreshFile, GeneratedFile, Expected, SchemaFingerprint
<1>2. Drifted(disk[l].header, Expected(blk, t)) = {}
  BY <1>1 DEF Drifted
<1>3. IsComplete(Expected(blk, t))
  <2>1. blk.engine # None /\ t.backend # None /\ Version # None
    BY DistinctAssumption, VersionAssumption DEF Block, Target
  <2>2. inputs.schema[blk.schema].shape # None
    BY DistinctAssumption
  <2> QED
    BY <2>1, <2>2 DEF IsComplete, HeaderFields, OptionalFields, Expected, HeaderOf
<1> QED
  BY <1>1, <1>2, <1>3 DEF VerifyArtifact

\* What generate wrote passes: after a run that succeeded over inputs nobody
\* changed, a check of them reports only what generate has no objection to.
THEOREM CheckSpecGeneratedPasses == CheckSpec => []GeneratedPasses
<1>1. IInv /\ FreshInv /\ InputsAccepted /\ CheckIInv => GeneratedPasses
  <2> SUFFICES ASSUME IInv, FreshInv, InputsAccepted, CheckIInv,
                      gen.outcome \in {"ok", "invalid"}, steady, still,
                      Disjoint(inputs.config)
               PROVE  /\ chk.outcome # "err"
                      /\ \A f \in chk.findings :
                           \/ f.rule \in {"SC-PRV10", "SC-C03"}
                           \/ /\ f.rule = "SC-PRV09"
                              /\ Escapes(inputs.config.blocks[f.b].targets[f.t].dir)
    BY DEF GeneratedPasses
  <2>1. /\ inputs.config \in Configs /\ SourcesValid
        /\ \A i \in DOMAIN inputs.config.blocks :
             /\ BlockAccepted(inputs.config.blocks[i])
             /\ BlockUsable(i)
    BY DEF InputsAccepted, SourcesValid, FreshInv, QueriesWereUsable
  <2>2. chk.outcome # "err"
    <3>1. inputs.config # Unreadable
      BY <2>1 DEF SourcesValid
    <3>2. ~Hopeless
      BY <2>1, <3>1 DEF Hopeless, SourcesValid, BlockAccepted, BlockUsable, QueriesUsable
    <3> QED
      BY <3>2 DEF CheckIInv, ErrorIsReal
  <2>3. ASSUME NEW f \in chk.findings
        PROVE  \/ f.rule \in {"SC-PRV10", "SC-C03"}
               \/ /\ f.rule = "SC-PRV09"
                  /\ Escapes(inputs.config.blocks[f.b].targets[f.t].dir)
    <3> DEFINE blk == inputs.config.blocks[f.b]
    <3>1. /\ f.b \in DOMAIN inputs.config.blocks
          /\ \/ f.t = 0 /\ BlockDeserves(blk, f.rule)
             \/ f.t \in DOMAIN blk.targets /\ TargetDeserves(blk, blk.targets[f.t], f.rule)
      BY DEF CheckIInv, FindingsAreReal, AllJustified, Justified
    <3>2. blk \in Block /\ blk.targets \in Seq(Target)
      <4>1. inputs.config \in Config
        BY <2>1, ConfigsAssumption
      <4>2. blk \in Block
        BY <3>1, <4>1 DEF Config
      <4> QED
        BY <4>2 DEF Block
    <3>3. /\ BlockAccepted(blk)
          /\ Analyzed(blk) = inputs.queries[blk.queries].queries
      BY <2>1, <3>1 DEF BlockUsable, QueriesUsable, Analyzed
    <3>4. CASE BlockDeserves(blk, f.rule)
      BY <3>3, <3>4 DEF BlockDeserves, BlockAccepted, QueryRules
    <3>5. CASE f.t \in DOMAIN blk.targets /\ TargetDeserves(blk, blk.targets[f.t], f.rule)
      <4> DEFINE t == blk.targets[f.t]
      <4>1. t \in Target /\ TargetResolves(blk, t, inputs.overlay, TRUE)
        BY <3>2, <3>3, <3>5, AcceptedTarget
      <4> DEFINE x == <<f.b, f.t>>
      <4>2. /\ x \in AllTargets(inputs.config) /\ TargetAt(inputs.config, x) = t
            /\ inputs.config.blocks[x[1]] = blk
        BY <3>1, <3>5, AllTargetsPairs DEF TargetAt
      <4> HIDE DEF x, t
      <4>3. CASE f.rule = "SC-PRV09" /\ ~TargetResolves(blk, t, inputs.overlay, FALSE)
        <5>1. Escapes(t.dir)
          BY <4>1, <4>3 DEF TargetResolves, Contained
        <5> QED
          BY <4>3, <5>1 DEF t
      <4>4. OptionsTellable(blk, t)
        BY <4>1, DistinctAssumption
           DEF TargetResolves, OptionsTellable, OverlayContent, OverlayApplies
      <4>5. ASSUME NEW l \in Outputs(t)
            PROVE  VerifyArtifact(disk[l], Expected(blk, t)) = {}
        <5>1. disk[l] = FreshFile(blk, t, inputs)
          BY <4>2 DEF FreshInv, SuccessIsFresh
        <5>2. inputs.schema[blk.schema].shape \in Shapes
          BY <3>2, ContentsAssumption DEF Block, IInv, TypeOK, Inputs, Schema
        <5> QED
          BY <3>2, <3>3, <4>1, <5>1, <5>2, FreshFilesPass
      <4> QED
        BY <3>5, <4>3, <4>4, <4>5 DEF TargetDeserves, t
    <3> QED
      BY <3>1, <3>4, <3>5
  <2> QED
    BY <2>2, <2>3
<1> QED
  BY <1>1, CheckSpecImpliesSpec, SpecIInv, SpecFreshInv, SpecInputsAccepted,
     CheckSpecIInv, PTL

-----------------------------------------------------------------------------
(* What a report names. *)

\* The findings a block has coming for its targets, and for its queries.
WantedTargets(i) ==
  LET blk == inputs.config.blocks[i] IN
  IF blk.resolvable
  THEN {[rule |-> "SC-PRV09", b |-> i, t |-> j] :
          j \in {k \in DOMAIN blk.targets :
                  ~TargetResolves(blk, blk.targets[k], inputs.overlay, FALSE)}}
  ELSE {[rule |-> "SC-PRV09", b |-> i, t |-> 0]}

WantedQueries(i) ==
  LET blk == inputs.config.blocks[i] IN
  {[rule |-> r, b |-> i, t |-> 0] :
     r \in QueryRules(inputs.queries[blk.queries], Analyzed(blk))}

Wanted(i) == WantedTargets(i) \cup WantedQueries(i)

\* While nothing moves, a check has what the blocks and phases behind it have
\* coming.
MissedNothing ==
  still /\ chk.pc # "idle" =>
    /\ \A i \in 1..(chk.b - 1) : Wanted(i) \subseteq chk.findings
    /\ chk.pc \notin {"catalog", "targets"} => WantedTargets(chk.b) \subseteq chk.findings
    /\ chk.pc \in TargetChecks => WantedQueries(chk.b) \subseteq chk.findings

\* A report leaves out only rules that are off.
ReportsWanted ==
  chk.outcome \in {"clean", "ok", "errors"} /\ still =>
    \A i \in DOMAIN inputs.config.blocks :
      Reported(inputs.config, Wanted(i)) \subseteq chk.findings

Complete == MissedNothing /\ ReportsWanted

LEMMA WantedFrame ==
  ASSUME inputs' = inputs
  PROVE  \A i : /\ WantedTargets(i)' = WantedTargets(i)
                /\ WantedQueries(i)' = WantedQueries(i)
                /\ Wanted(i)' = Wanted(i)
<1>1. \A i : WantedTargets(i)' = WantedTargets(i)
  BY DEF WantedTargets
<1>2. \A i : WantedQueries(i)' = WantedQueries(i)
  BY DEF WantedQueries, Analyzed
<1> QED
  BY <1>1, <1>2 DEF Wanted

\* A check that fails reports nothing.
LEMMA ErrComplete ==
  ASSUME CheckExit("err", {})
  PROVE  Complete'
<1>1. chk'.pc = "idle" /\ chk'.outcome = "err"
  BY DEF CheckExit, CheckIdle
<1> QED
  BY <1>1 DEF Complete, MissedNothing, ReportsWanted

LEMMA NextBlockComplete ==
  ASSUME CheckIInv, Complete, chk.pc # "idle", inputs' = inputs, still' = still,
         NEW F, CheckNextBlock(F), chk.findings \subseteq F,
         still => Wanted(chk.b) \subseteq F
  PROVE  Complete'
<1>1. /\ chk.cfg.blocks \in Seq(Block) /\ chk.b \in 1..Len(chk.cfg.blocks)
      /\ Len(chk.cfg.blocks) \in Nat
  BY CheckBlockType
<1>2. ASSUME still
      PROVE  chk.cfg = inputs.config /\ \A i \in 1..chk.b : Wanted(i) \subseteq F
  <2>1. \A i \in 1..(chk.b - 1) : Wanted(i) \subseteq F
    BY <1>2 DEF Complete, MissedNothing
  <2>2. 1..chk.b = 1..(chk.b - 1) \cup {chk.b}
    BY <1>1
  <2> QED
    BY <1>2, <2>1, <2>2 DEF CheckIInv, CheckFresh
<1>3. CASE chk.b < Len(chk.cfg.blocks)
  <2>1. /\ chk'.pc = "catalog" /\ chk'.b = chk.b + 1
        /\ chk'.outcome = "none" /\ chk'.findings = F
    BY <1>3 DEF CheckNextBlock, CheckIdle
  <2>2. (chk.b + 1) - 1 = chk.b
    BY <1>1
  <2> QED
    BY <1>2, <2>1, <2>2, WantedFrame DEF Complete, MissedNothing, ReportsWanted, TargetChecks
<1>4. CASE ~(chk.b < Len(chk.cfg.blocks))
  <2>1. chk'.pc = "idle" /\ chk'.findings = Reported(chk.cfg, F)
    BY <1>4 DEF CheckNextBlock, Report, CheckExit, CheckIdle
  <2>2. chk.b = Len(chk.cfg.blocks)
    BY <1>1, <1>4
  <2>3. ASSUME still, NEW i \in DOMAIN inputs.config.blocks
        PROVE  Reported(inputs.config, Wanted(i)) \subseteq Reported(chk.cfg, F)
    <3>1. i \in 1..chk.b
      BY <1>1, <1>2, <2>2, <2>3
    <3> QED
      BY <1>2, <2>3, <3>1 DEF Reported
  <2>4. ReportsWanted'
    <3>1. \A i, c : Reported(c, Wanted(i))' = Reported(c, Wanted(i))
      BY WantedFrame DEF Reported, SeverityOf
    <3> QED
      BY <2>1, <2>3, <3>1, WantedFrame DEF ReportsWanted, Reported, SeverityOf
  <2> QED
    BY <2>1, <2>4 DEF Complete, MissedNothing
<1> QED
  BY <1>3, <1>4

\* What is found in a target check comes on top.
LEMMA TargetStepComplete ==
  ASSUME CheckIInv, Complete, chk.pc \in TargetChecks, inputs' = inputs, still' = still,
         NEW F, chk.findings \subseteq F,
         \/ CheckNextTarget(F)
         \/ /\ chk'.pc \in TargetChecks /\ chk'.b = chk.b
            /\ chk'.outcome = chk.outcome /\ chk'.findings = F
  PROVE  Complete'
<1>1. chk.pc # "idle" /\ chk.outcome = "none" /\ chk \in CheckControl
  BY DEF CheckIInv, CheckControlOK, TargetChecks
<1>2. still => Wanted(chk.b) \subseteq F
  BY <1>1 DEF Complete, MissedNothing, Wanted, TargetChecks
<1>3. CASE /\ chk'.pc \in TargetChecks /\ chk'.b = chk.b
           /\ chk'.outcome = chk.outcome /\ chk'.findings = F
  BY <1>1, <1>3, WantedFrame DEF Complete, MissedNothing, ReportsWanted, TargetChecks
<1>4. CASE CheckNextTarget(F) /\ chk.t < Len(cblock.targets)
  <2>1. /\ chk'.pc = "options" /\ chk'.b = chk.b
        /\ chk'.outcome = chk.outcome /\ chk'.findings = F
    BY <1>1, <1>4 DEF CheckNextTarget, CheckControl
  <2> QED
    BY <1>1, <2>1, WantedFrame DEF Complete, MissedNothing, ReportsWanted, TargetChecks
<1>5. CASE CheckNextTarget(F) /\ ~(chk.t < Len(cblock.targets))
  BY <1>1, <1>2, <1>5, NextBlockComplete DEF CheckNextTarget
<1> QED
  BY <1>3, <1>4, <1>5

LEMMA CheckStepComplete ==
  ASSUME CheckIInv, Complete, CheckStep, inputs' = inputs
  PROVE  Complete'
<1>0. chk \in CheckControl /\ still' = still
  BY DEF CheckIInv, CheckStep, CheckCatalog, ValidateTargets, CheckQueries, ReadOptions,
         VerifyMain, VerifyRbs
<1>1. CASE CheckCatalog
  <2>1. CASE CheckExit("err", {})
    BY <2>1, ErrComplete
  <2>2. CASE ~CheckExit("err", {})
    <3>1. /\ chk.pc = "catalog" /\ chk'.pc = "targets" /\ chk'.b = chk.b
          /\ chk'.outcome = chk.outcome /\ chk'.findings = chk.findings
      BY <1>0, <1>1, <2>2 DEF CheckCatalog, InCheck, CheckControl
    <3>2. chk.outcome = "none"
      BY <3>1 DEF CheckIInv, CheckControlOK
    <3> QED
      BY <1>0, <3>1, <3>2, WantedFrame DEF Complete, MissedNothing, ReportsWanted, TargetChecks
  <2> QED
    BY <2>1, <2>2
<1>2. CASE ValidateTargets
  <2> DEFINE rest == UNION {Found({"SC-PRV09"}, j) : j \in Unconstructible(cblock, inputs.overlay)}
  <2>1. /\ chk.pc = "targets" /\ chk'.pc = "queries" /\ chk'.b = chk.b
        /\ chk'.outcome = chk.outcome
        /\ chk'.findings = IF cblock.resolvable THEN chk.findings \cup rest
                                               ELSE Found({"SC-PRV09"}, 0)
    BY <1>0, <1>2 DEF ValidateTargets, InCheck, CheckControl
  <2>2. chk.outcome = "none"
    BY <2>1 DEF CheckIInv, CheckControlOK
  <2>3. chk.findings \subseteq chk'.findings
    BY <2>1 DEF Found
  <2>4. ASSUME still PROVE WantedTargets(chk.b) \subseteq chk'.findings
    <3>1. cblock = inputs.config.blocks[chk.b]
      BY <2>1, <2>4, CheckedBlock
    <3>2. CASE cblock.resolvable
      <4>1. ASSUME NEW j \in Unconstructible(cblock, inputs.overlay)
            PROVE  [rule |-> "SC-PRV09", b |-> chk.b, t |-> j] \in rest
        BY <4>1 DEF Found
      <4>2. WantedTargets(chk.b) \subseteq rest
        BY <3>1, <3>2, <4>1 DEF WantedTargets, Unconstructible
      <4> QED
        BY <2>1, <3>2, <4>2
    <3>3. CASE ~cblock.resolvable
      BY <2>1, <3>1, <3>3 DEF WantedTargets, Found
    <3> QED
      BY <3>2, <3>3
  <2> QED
    BY <1>0, <2>1, <2>2, <2>3, <2>4, WantedFrame
       DEF Complete, MissedNothing, ReportsWanted, TargetChecks
<1>3. CASE CheckQueries
  <2> DEFINE content == inputs.queries[cblock.queries]
             analyzed == {q \in content.queries : Analyzes(chk.shape, q)}
             findings == Found(QueryRules(content, analyzed), 0)
  <2>1. chk.pc = "queries" /\ chk.outcome = "none" /\ chk.findings \subseteq findings
    BY <1>3 DEF CheckQueries, InCheck, CheckIInv, CheckControlOK, Found
  <2>2. ASSUME still PROVE Wanted(chk.b) \subseteq findings
    <3>1. /\ cblock = inputs.config.blocks[chk.b]
          /\ chk.shape = inputs.schema[cblock.schema].shape
      BY <2>1, <2>2, CheckedBlock DEF CheckIInv, CheckFresh
    <3>2. analyzed = Analyzed(cblock)
      BY <3>1 DEF Analyzed
    <3> HIDE DEF analyzed
    <3>3. WantedQueries(chk.b) \subseteq findings
      <4> DEFINE rules == QueryRules(content, analyzed)
      <4>1. WantedQueries(chk.b) = {[rule |-> r, b |-> chk.b, t |-> 0] : r \in rules}
        BY <3>1, <3>2 DEF WantedQueries
      <4> HIDE DEF rules
      <4>2. \A r \in rules : [rule |-> r, b |-> chk.b, t |-> 0] \in Found(rules, 0)
        BY DEF Found
      <4> QED
        BY <4>1, <4>2 DEF rules
    <3>4. WantedTargets(chk.b) \subseteq findings
      BY <2>1, <2>2 DEF Complete, MissedNothing
    <3> QED
      BY <3>3, <3>4 DEF Wanted
  <2> HIDE DEF findings
  <2>3. CASE CheckExit("err", {})
    BY <2>3, ErrComplete
  <2>4. CASE CheckNextBlock(findings \cup Found({"SC-PRV07"}, 0))
    <3> DEFINE F == findings \cup Found({"SC-PRV07"}, 0)
    <3>1. chk.findings \subseteq F /\ (still => Wanted(chk.b) \subseteq F)
      BY <2>1, <2>2
    <3> HIDE DEF F
    <3> QED
      BY <1>0, <2>1, <2>4, <3>1, NextBlockComplete DEF F
  <2>5. CASE CheckNextBlock(findings)
    BY <1>0, <2>1, <2>2, <2>5, NextBlockComplete
  <2>6. CASE /\ chk'.pc = "options" /\ chk'.b = chk.b
             /\ chk'.outcome = chk.outcome /\ chk'.findings = findings
    BY <1>0, <2>1, <2>2, <2>6, WantedFrame
       DEF Complete, MissedNothing, ReportsWanted, Wanted, TargetChecks
  <2>7. \/ CheckExit("err", {})
        \/ CheckNextBlock(findings \cup Found({"SC-PRV07"}, 0))
        \/ CheckNextBlock(findings)
        \/ /\ chk'.pc = "options" /\ chk'.b = chk.b
           /\ chk'.outcome = chk.outcome /\ chk'.findings = findings
    BY <1>0, <1>3 DEF CheckQueries, CheckControl, findings
  <2> QED
    BY <2>3, <2>4, <2>5, <2>6, <2>7
<1>4. CASE ReadOptions
  <2>1. chk.pc = "options"
    BY <1>4 DEF ReadOptions, InCheck
  <2>2. CASE CheckNextTarget(Found({"SC-PRV07"}, chk.t))
    <3>1. chk.findings \subseteq Found({"SC-PRV07"}, chk.t)
      BY DEF Found
    <3> QED
      BY <1>0, <2>1, <2>2, <3>1, TargetStepComplete DEF TargetChecks
  <2>3. CASE ~CheckNextTarget(Found({"SC-PRV07"}, chk.t))
    <3>1. /\ chk'.pc = "main" /\ chk'.b = chk.b
          /\ chk'.outcome = chk.outcome /\ chk'.findings = chk.findings
      BY <1>0, <1>4, <2>3 DEF ReadOptions, CheckControl
    <3> QED
      BY <1>0, <2>1, <3>1, TargetStepComplete DEF TargetChecks
  <2> QED
    BY <2>2, <2>3
<1>5. CASE VerifyMain
  <2> DEFINE F == ArtifactFindings(MainPath(ctarget))
  <2>1. chk.pc = "main" /\ chk.findings \subseteq F
    BY <1>5 DEF VerifyMain, InCheck, ArtifactFindings, Found
  <2>2. \/ CheckNextTarget(F)
        \/ /\ chk'.pc = "rbs" /\ chk'.b = chk.b
           /\ chk'.outcome = chk.outcome /\ chk'.findings = F
    BY <1>0, <1>5 DEF VerifyMain, CheckControl
  <2> HIDE DEF F
  <2> QED
    BY <1>0, <2>1, <2>2, TargetStepComplete DEF TargetChecks
<1>6. CASE VerifyRbs
  <2> DEFINE F == ArtifactFindings(RbsPath(ctarget))
  <2>1. chk.pc = "rbs" /\ chk.findings \subseteq F /\ CheckNextTarget(F)
    BY <1>6 DEF VerifyRbs, InCheck, ArtifactFindings, Found
  <2> HIDE DEF F
  <2> QED
    BY <1>0, <2>1, TargetStepComplete DEF TargetChecks
<1> QED
  BY <1>1, <1>2, <1>3, <1>4, <1>5, <1>6 DEF CheckStep

LEMMA StartComplete ==
  ASSUME NEW exitZero \in BOOLEAN, StartCheck(exitZero), inputs' = inputs
  PROVE  Complete'
<1>1. CASE CheckExit("err", {})
  BY <1>1, ErrComplete
<1>2. CASE CheckExit("clean", {}) /\ inputs.config.blocks = <<>>
  <2>1. chk'.pc = "idle" /\ DOMAIN inputs'.config.blocks = {}
    BY <1>2 DEF CheckExit, CheckIdle
  <2> QED
    BY <2>1 DEF Complete, MissedNothing, ReportsWanted
<1>3. CASE chk' = [CheckIdle EXCEPT !.pc = "catalog", !.cfg = inputs.config,
                     !.exitZero = exitZero]
  <2>1. chk'.pc = "catalog" /\ chk'.b = 1 /\ chk'.outcome = "none"
    BY <1>3 DEF CheckIdle
  <2>2. 1..(chk'.b - 1) = {}
    BY <2>1
  <2> QED
    BY <2>1, <2>2 DEF Complete, MissedNothing, ReportsWanted, TargetChecks
<1> QED
  BY <1>1, <1>2, <1>3 DEF StartCheck

\* One mistake hides no other: a report names every mistake of every block and
\* target, whatever else it names.
THEOREM CheckSpecReportMissesNothing == CheckSpec => []ReportMissesNothing
<1>1. CheckInit => Complete
  BY DEF CheckInit, CheckIdle, Complete, MissedNothing, ReportsWanted
<1>2. ASSUME CheckIInv, Complete, [CheckNext]_allVars
      PROVE  Complete'
  <2>1. ASSUME inputs' = inputs, chk' = chk, still' = still \/ ~still'
        PROVE  Complete'
    <3>1. \A i : Reported(inputs.config, Wanted(i))' = Reported(inputs.config, Wanted(i))
      BY <2>1, WantedFrame DEF Reported, SeverityOf
    <3> QED
      BY <1>2, <2>1, <3>1, WantedFrame DEF Complete, MissedNothing, ReportsWanted
  <2>2. CASE UNCHANGED allVars
    BY <2>1, <2>2 DEF allVars, vars, checkVars
  <2>3. CASE Outside
    <3>1. CASE inputs' = inputs
      BY <1>2, <2>1, <2>3, <3>1 DEF Outside, CheckIInv
    <3>2. CASE inputs' # inputs
      <4>1. ~still'
        BY <2>3, <3>2 DEF Outside
      <4> QED
        BY <4>1 DEF Complete, MissedNothing, ReportsWanted
    <3> QED
      BY <3>1, <3>2
  <2>4. CASE (\E exitZero \in BOOLEAN : StartCheck(exitZero)) /\ UNCHANGED vars
    BY <2>4, StartComplete DEF vars
  <2>5. CASE CheckStep /\ UNCHANGED vars
    BY <1>2, <2>5, CheckStepComplete DEF vars
  <2> QED
    BY <1>2, <2>2, <2>3, <2>4, <2>5 DEF CheckNext
<1>3. Complete => ReportMissesNothing
  <2> SUFFICES ASSUME Complete, chk.outcome \in {"clean", "ok", "errors"}, still,
                      NEW i \in DOMAIN inputs.config.blocks
               PROVE  BlockSaid(inputs.config.blocks[i], i)
    BY DEF ReportMissesNothing
  <2> DEFINE blk == inputs.config.blocks[i]
  <2>1. \A f \in Wanted(i) : SeverityOf(inputs.config, f.rule) # "off" => f \in chk.findings
    BY DEF Complete, ReportsWanted, Reported
  <2>2. ASSUME NEW r, NEW j, [rule |-> r, b |-> i, t |-> j] \in Wanted(i)
        PROVE  Says(r, i, j)
    BY <2>1, <2>2 DEF Says
  <2>3. \A r \in QueryRules(inputs.queries[blk.queries], Analyzed(blk)) :
          [rule |-> r, b |-> i, t |-> 0] \in Wanted(i)
    BY DEF Wanted, WantedQueries
  <2>4. ASSUME NEW q \in inputs.queries[blk.queries].queries,
               ~Analyzes(inputs.schema[blk.schema].shape, q)
        PROVE  Says("SC-PARSE02", i, 0)
    BY <2>2, <2>3, <2>4 DEF QueryRules, Analyzed
  <2>5. ASSUME NEW q \in inputs.queries[blk.queries].queries,
               NEW r \in inputs.queries[blk.queries].queries,
               q # r, q.name = r.name, Analyzes(inputs.schema[blk.schema].shape, q),
               Analyzes(inputs.schema[blk.schema].shape, r)
        PROVE  Says("SC-C03", i, 0)
    <3>1. q \in Analyzed(blk) /\ r \in Analyzed(blk)
      BY <2>5 DEF Analyzed
    <3>2. "SC-C03" \in QueryRules(inputs.queries[blk.queries], Analyzed(blk))
      BY <2>5, <3>1 DEF QueryRules
    <3> QED
      BY <2>2, <2>3, <3>2
  <2>6. IF blk.resolvable
        THEN \A j \in DOMAIN blk.targets :
               ~TargetResolves(blk, blk.targets[j], inputs.overlay, FALSE)
                 => [rule |-> "SC-PRV09", b |-> i, t |-> j] \in Wanted(i)
        ELSE [rule |-> "SC-PRV09", b |-> i, t |-> 0] \in Wanted(i)
    BY DEF Wanted, WantedTargets
  <2> QED
    BY <2>2, <2>4, <2>5, <2>6 DEF BlockSaid
<1> QED
  BY <1>1, <1>2, <1>3, CheckSpecIInv, PTL DEF CheckSpec

-----------------------------------------------------------------------------
(* A check is finite. *)

\* What a check has left to do, most significant first: blocks, phases of the
\* block (its targets are verified in the last one), targets, stages of a target.
CheckBlocksLeft ==
  IF chk.pc = "idle" THEN 0 ELSE Len(chk.cfg.blocks) + 1 - chk.b

CheckPhasesLeft ==
  CASE chk.pc = "catalog" -> 3
    [] chk.pc = "targets" -> 2
    [] chk.pc = "queries" -> 1
    [] OTHER              -> 0

CheckTargetsLeft ==
  IF chk.pc \in TargetChecks THEN Len(cblock.targets) + 1 - chk.t ELSE 0

CheckStagesLeft ==
  CASE chk.pc = "options" -> 3
    [] chk.pc = "main"    -> 2
    [] chk.pc = "rbs"     -> 1
    [] OTHER              -> 0

CheckShrinks ==
  \/ CheckBlocksLeft' < CheckBlocksLeft
  \/ /\ CheckBlocksLeft' = CheckBlocksLeft
     /\ \/ CheckPhasesLeft' < CheckPhasesLeft
        \/ /\ CheckPhasesLeft' = CheckPhasesLeft
           /\ \/ CheckTargetsLeft' < CheckTargetsLeft
              \/ /\ CheckTargetsLeft' = CheckTargetsLeft
                 /\ CheckStagesLeft' < CheckStagesLeft

\* Each of the four is a natural number, so that CheckShrinks is well-founded.
CheckLeftIsNatural ==
  /\ CheckBlocksLeft \in Nat
  /\ CheckPhasesLeft \in Nat
  /\ CheckTargetsLeft \in Nat
  /\ CheckStagesLeft \in Nat

LEMMA CheckLeftType ==
  ASSUME CheckIInv
  PROVE  /\ CheckLeftIsNatural
         /\ chk.pc # "idle" => CheckBlocksLeft > 0
<1>1. CheckPhasesLeft \in Nat /\ CheckStagesLeft \in Nat
  BY DEF CheckPhasesLeft, CheckStagesLeft
<1>2. CASE chk.pc = "idle"
  BY <1>1, <1>2 DEF CheckLeftIsNatural, CheckBlocksLeft, CheckTargetsLeft, TargetChecks
<1>3. CASE chk.pc # "idle"
  <2>1. chk.cfg.blocks \in Seq(Block) /\ chk.b \in DOMAIN chk.cfg.blocks
    BY <1>3, CheckBlockType
  <2>2. CheckBlocksLeft \in Nat /\ CheckBlocksLeft > 0
    <3>1. Len(chk.cfg.blocks) \in Nat /\ chk.b \in 1..Len(chk.cfg.blocks)
      BY <2>1
    <3> QED
      BY <1>3, <3>1 DEF CheckBlocksLeft
  <2>3. CheckTargetsLeft \in Nat
    <3>1. CASE chk.pc \in TargetChecks
      <4>1. cblock.targets \in Seq(Target) /\ chk.t \in DOMAIN cblock.targets
        BY <1>3, <3>1, CheckBlockType
      <4> QED
        BY <3>1, <4>1 DEF CheckTargetsLeft
    <3>2. CASE chk.pc \notin TargetChecks
      BY <3>2 DEF CheckTargetsLeft
    <3> QED
      BY <3>1, <3>2
  <2> QED
    BY <1>1, <2>2, <2>3 DEF CheckLeftIsNatural
<1> QED
  BY <1>2, <1>3

LEMMA CheckExitShrinks ==
  ASSUME CheckIInv, chk.pc # "idle", chk'.pc = "idle"
  PROVE  CheckShrinks
<1>1. CheckBlocksLeft' = 0
  BY DEF CheckBlocksLeft
<1> QED
  BY <1>1, CheckLeftType DEF CheckShrinks

LEMMA CheckExits == ASSUME NEW outcome, NEW F, CheckExit(outcome, F) PROVE chk'.pc = "idle"
  BY DEF CheckExit, CheckIdle

LEMMA NextBlockShrinks ==
  ASSUME CheckIInv, chk.pc # "idle", NEW F, CheckNextBlock(F)
  PROVE  CheckShrinks
<1>1. CASE chk.b < Len(chk.cfg.blocks)
  <2>1. chk'.pc = "catalog" /\ chk'.cfg = chk.cfg /\ chk'.b = chk.b + 1
    BY <1>1 DEF CheckNextBlock, CheckIdle
  <2>2. chk.cfg.blocks \in Seq(Block) /\ chk.b \in DOMAIN chk.cfg.blocks
    BY CheckBlockType
  <2>3. CheckBlocksLeft' < CheckBlocksLeft
    BY <2>1, <2>2 DEF CheckBlocksLeft
  <2> QED
    BY <2>3 DEF CheckShrinks
<1>2. CASE ~(chk.b < Len(chk.cfg.blocks))
  <2>1. chk'.pc = "idle"
    BY <1>2, CheckExits DEF CheckNextBlock, Report
  <2> QED
    BY <2>1, CheckExitShrinks
<1> QED
  BY <1>1, <1>2

LEMMA NextTargetShrinks ==
  ASSUME CheckIInv, chk.pc \in TargetChecks, NEW F, CheckNextTarget(F)
  PROVE  CheckShrinks
<1>0. chk.pc # "idle" /\ chk \in CheckControl
  BY DEF TargetChecks, CheckIInv
<1>1. CASE chk.t < Len(cblock.targets)
  <2>1. chk' = [chk EXCEPT !.pc = "options", !.t = @ + 1, !.findings = F]
    BY <1>1 DEF CheckNextTarget
  <2>2. chk'.pc = "options" /\ chk'.cfg = chk.cfg /\ chk'.b = chk.b /\ chk'.t = chk.t + 1
    BY <1>0, <2>1 DEF CheckControl
  <2>3. cblock' = cblock
    BY <2>2 DEF cblock
  <2>4. cblock.targets \in Seq(Target) /\ chk.t \in DOMAIN cblock.targets
    BY <1>0, CheckBlockType
  <2>5. CheckTargetsLeft' < CheckTargetsLeft
    BY <2>2, <2>3, <2>4 DEF CheckTargetsLeft, TargetChecks
  <2>6. CheckBlocksLeft' = CheckBlocksLeft /\ CheckPhasesLeft' = CheckPhasesLeft
    BY <1>0, <2>2 DEF CheckBlocksLeft, CheckPhasesLeft, TargetChecks
  <2> QED
    BY <2>5, <2>6 DEF CheckShrinks
<1>2. CASE ~(chk.t < Len(cblock.targets))
  BY <1>0, <1>2, NextBlockShrinks DEF CheckNextTarget
<1> QED
  BY <1>1, <1>2

\* A step that stays in its block and goes to a later phase of it.
LEMMA CheckPhaseShrinks ==
  ASSUME chk.pc # "idle", chk'.pc # "idle", chk'.cfg = chk.cfg, chk'.b = chk.b,
         CheckPhasesLeft' < CheckPhasesLeft
  PROVE  CheckShrinks
  BY DEF CheckShrinks, CheckBlocksLeft

\* A step that stays at its target and goes to a later stage of it.
LEMMA CheckStageShrinks ==
  ASSUME chk.pc \in TargetChecks, chk'.pc \in TargetChecks,
         chk'.cfg = chk.cfg, chk'.b = chk.b, chk'.t = chk.t,
         CheckStagesLeft' < CheckStagesLeft
  PROVE  CheckShrinks
<1>1. cblock' = cblock
  BY DEF cblock
<1>2. CheckBlocksLeft' = CheckBlocksLeft /\ CheckPhasesLeft' = CheckPhasesLeft
  BY DEF CheckBlocksLeft, CheckPhasesLeft, TargetChecks
<1>3. CheckTargetsLeft' = CheckTargetsLeft
  BY <1>1 DEF CheckTargetsLeft
<1> QED
  BY <1>2, <1>3 DEF CheckShrinks

LEMMA CheckStepShrinks == ASSUME CheckIInv, CheckStep PROVE CheckShrinks
<1>0. chk \in CheckControl
  BY DEF CheckIInv
<1>1. CASE CheckCatalog
  <2>1. chk.pc = "catalog"
    BY <1>1 DEF CheckCatalog, InCheck
  <2>2. CASE CheckExit("err", {})
    BY <2>1, <2>2, CheckExits, CheckExitShrinks
  <2>3. CASE ~CheckExit("err", {})
    <3>1. chk'.pc = "targets" /\ chk'.cfg = chk.cfg /\ chk'.b = chk.b
      BY <1>0, <1>1, <2>3 DEF CheckCatalog, CheckControl
    <3>2. CheckPhasesLeft = 3 /\ CheckPhasesLeft' = 2
      BY <2>1, <3>1 DEF CheckPhasesLeft
    <3> QED
      BY <2>1, <3>1, <3>2, CheckPhaseShrinks
  <2> QED
    BY <2>2, <2>3
<1>2. CASE ValidateTargets
  <2>1. /\ chk.pc = "targets" /\ chk'.pc = "queries"
        /\ chk'.cfg = chk.cfg /\ chk'.b = chk.b
    BY <1>0, <1>2 DEF ValidateTargets, InCheck, CheckControl
  <2>2. CheckPhasesLeft = 2 /\ CheckPhasesLeft' = 1
    BY <2>1 DEF CheckPhasesLeft
  <2> QED
    BY <2>1, <2>2, CheckPhaseShrinks
<1>3. CASE CheckQueries
  <2>1. chk.pc = "queries"
    BY <1>3 DEF CheckQueries, InCheck
  <2>2. \/ CheckExit("err", {})
        \/ \E F : CheckNextBlock(F)
        \/ /\ chk'.pc = "options" /\ chk'.cfg = chk.cfg /\ chk'.b = chk.b
    BY <1>0, <1>3 DEF CheckQueries, CheckControl
  <2>3. CASE CheckExit("err", {})
    BY <2>1, <2>3, CheckExits, CheckExitShrinks
  <2>4. CASE \E F : CheckNextBlock(F)
    BY <2>1, <2>4, NextBlockShrinks
  <2>5. CASE chk'.pc = "options" /\ chk'.cfg = chk.cfg /\ chk'.b = chk.b
    <3>1. CheckPhasesLeft = 1 /\ CheckPhasesLeft' = 0
      BY <2>1, <2>5 DEF CheckPhasesLeft
    <3> QED
      BY <2>1, <2>5, <3>1, CheckPhaseShrinks
  <2> QED
    BY <2>2, <2>3, <2>4, <2>5
<1>4. CASE ReadOptions
  <2>1. chk.pc = "options"
    BY <1>4 DEF ReadOptions, InCheck
  <2>2. \/ \E F : CheckNextTarget(F)
        \/ /\ chk'.pc = "main" /\ chk'.cfg = chk.cfg
           /\ chk'.b = chk.b /\ chk'.t = chk.t
    BY <1>0, <1>4 DEF ReadOptions, CheckControl
  <2>3. CASE \E F : CheckNextTarget(F)
    BY <2>1, <2>3, NextTargetShrinks DEF TargetChecks
  <2>4. CASE /\ chk'.pc = "main" /\ chk'.cfg = chk.cfg
             /\ chk'.b = chk.b /\ chk'.t = chk.t
    <3>1. CheckStagesLeft = 3 /\ CheckStagesLeft' = 2
      BY <2>1, <2>4 DEF CheckStagesLeft
    <3> QED
      BY <2>1, <2>4, <3>1, CheckStageShrinks DEF TargetChecks
  <2> QED
    BY <2>2, <2>3, <2>4
<1>5. CASE VerifyMain
  <2>1. chk.pc = "main"
    BY <1>5 DEF VerifyMain, InCheck
  <2>2. \/ \E F : CheckNextTarget(F)
        \/ /\ chk'.pc = "rbs" /\ chk'.cfg = chk.cfg
           /\ chk'.b = chk.b /\ chk'.t = chk.t
    BY <1>0, <1>5 DEF VerifyMain, CheckControl
  <2>3. CASE \E F : CheckNextTarget(F)
    BY <2>1, <2>3, NextTargetShrinks DEF TargetChecks
  <2>4. CASE /\ chk'.pc = "rbs" /\ chk'.cfg = chk.cfg
             /\ chk'.b = chk.b /\ chk'.t = chk.t
    <3>1. CheckStagesLeft = 2 /\ CheckStagesLeft' = 1
      BY <2>1, <2>4 DEF CheckStagesLeft
    <3> QED
      BY <2>1, <2>4, <3>1, CheckStageShrinks DEF TargetChecks
  <2> QED
    BY <2>2, <2>3, <2>4
<1>6. CASE VerifyRbs
  <2>1. chk.pc \in TargetChecks /\ \E F : CheckNextTarget(F)
    BY <1>6 DEF VerifyRbs, InCheck, TargetChecks
  <2> QED
    BY <2>1, NextTargetShrinks
<1> QED
  BY <1>1, <1>2, <1>3, <1>4, <1>5, <1>6 DEF CheckStep

\* Once a check has started, every step of it leaves it less to do, and what
\* generate and the user do meanwhile leaves it as much: a check takes finitely
\* many steps.
THEOREM CheckSpecShrinks ==
  CheckSpec => []CheckLeftIsNatural
                 /\ [][chk.pc # "idle" => CheckShrinks \/ UNCHANGED chk]_allVars
<1>1. CheckIInv => CheckLeftIsNatural
  BY CheckLeftType
<1>2. ASSUME CheckIInv, [CheckNext]_allVars
      PROVE  [chk.pc # "idle" => CheckShrinks \/ UNCHANGED chk]_allVars
  <2>1. CASE Outside
    BY <2>1 DEF Outside
  <2>2. CASE \E exitZero \in BOOLEAN : StartCheck(exitZero)
    BY <2>2 DEF StartCheck, InCheck
  <2>3. CASE CheckStep
    BY <1>2, <2>3, CheckStepShrinks
  <2> QED
    BY <1>2, <2>1, <2>2, <2>3 DEF CheckNext
<1> QED
  BY <1>1, <1>2, CheckSpecIInv, PTL DEF CheckSpec
=============================================================================
