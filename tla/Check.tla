-------------------------------- MODULE Check --------------------------------
(***************************************************************************)
(* `scythe check' next to `scythe generate' and the editor: a second       *)
(* process that reads the same inputs block by block, collects findings    *)
(* about queries, targets and the provenance of the files on disk, and     *)
(* reports them all at the end.  SQL lint rules and the live database are  *)
(* not part of this module.                                                *)
(***************************************************************************)
EXTENDS Generate

VARIABLES
  chk,      \* control state and memory of the run of check
  still     \* history: neither inputs nor disk changed since it began

checkVars == <<chk, still>>
allVars == <<vars, checkVars>>

-----------------------------------------------------------------------------
CheckPhases == {"idle", "catalog", "targets", "queries", "options", "main", "rbs"}

\* "clean": an empty report; "ok": a report, exit 0; "errors": exit 2;
\* "err": exit 1 and no report.
CheckOutcomes == {"none", "clean", "ok", "errors", "err"}

Finding == [rule : Rules \cup {"SC-C03"}, b : Nat, t : Nat]

CheckIdle ==
  [pc |-> "idle", outcome |-> "none", cfg |-> None, exitZero |-> FALSE,
   b |-> 1, t |-> 1, shape |-> None, schemaTag |-> None, queriesTag |-> {},
   optionsTag |-> None, findings |-> {}]

cblock == chk.cfg.blocks[chk.b]
ctarget == cblock.targets[chk.t]

InCheck(phase) == chk.pc = phase

CheckExit(outcome, findings) ==
  chk' = [CheckIdle EXCEPT !.outcome = outcome, !.findings = findings]

Found(rules, t) == chk.findings \cup [rule : rules, b : {chk.b}, t : {t}]

-----------------------------------------------------------------------------
(* The report. *)

SeverityOf(cfg, rule) ==
  IF rule = "SC-C03" THEN "error" ELSE cfg.severity[rule]

Reported(cfg, findings) ==
  {f \in findings : SeverityOf(cfg, f.rule) # "off"}

\* run_check's tail and check_exit_code.
Report(findings) ==
  LET reported == Reported(chk.cfg, findings)
      errors == {f \in reported : SeverityOf(chk.cfg, f.rule) = "error"}
  IN CheckExit(CASE reported = {}                    -> "clean"
                 [] errors # {} /\ ~chk.exitZero     -> "errors"
                 [] OTHER                            -> "ok",
               reported)

CheckNextBlock(findings) ==
  IF chk.b < Len(chk.cfg.blocks)
  THEN chk' = [CheckIdle EXCEPT !.pc = "catalog", !.cfg = chk.cfg,
                 !.exitZero = chk.exitZero, !.b = chk.b + 1,
                 !.findings = findings]
  ELSE Report(findings)

\* The next target of the block, or the next block.
CheckNextTarget(findings) ==
  IF chk.t < Len(cblock.targets)
  THEN chk' = [chk EXCEPT !.pc = "options", !.t = @ + 1, !.findings = findings]
  ELSE CheckNextBlock(findings)

-----------------------------------------------------------------------------
(* The run of check.  No step of it changes a file. *)

StartCheck(exitZero) ==
  /\ InCheck("idle")
  /\ still' = TRUE
  /\ IF \/ inputs.config = Unreadable
        \/ \E i \in DOMAIN inputs.config.blocks :
             ~SchemaSourceValid(inputs.config.blocks[i])
     THEN CheckExit("err", {})
     ELSE IF inputs.config.blocks = <<>>
     THEN CheckExit("clean", {})
     ELSE chk' = [CheckIdle EXCEPT !.pc = "catalog", !.cfg = inputs.config,
                    !.exitZero = exitZero]

\* A schema that does not load aborts the run: what was found is lost.
CheckCatalog ==
  /\ InCheck("catalog")
  /\ UNCHANGED still
  /\ LET schema == inputs.schema[cblock.schema] IN
     IF schema.ok
     THEN chk' = [chk EXCEPT !.pc = "targets", !.shape = schema.shape,
                             !.schemaTag = SchemaFingerprint(schema)]
     ELSE CheckExit("err", {})

\* Mutants: check accepts paths that leave the project, only looks at the
\* backend and the engine, or returns at the first target that fails, as it
\* does when the targets of the block do not resolve.
UnconstructibleEscaping(blk, overlay) ==
  {j \in DOMAIN blk.targets :
     ~TargetResolves(blk, blk.targets[j], overlay, TRUE)}
Unsupported(blk, overlay) ==
  {j \in DOMAIN blk.targets :
     ~Supports(blk.targets[j].backend, blk.engine)}

UnconstructibleFirst(blk, overlay) ==
  {j \in DOMAIN blk.targets :
     /\ ~TargetResolves(blk, blk.targets[j], overlay, FALSE)
     /\ \A k \in 1..j-1 : TargetResolves(blk, blk.targets[k], overlay, FALSE)}

\* validate_gen_targets_constructible, without --allow-output-escape.
Unconstructible(blk, overlay) ==
  {j \in DOMAIN blk.targets :
     ~TargetResolves(blk, blk.targets[j], overlay, FALSE)}

ValidateTargets ==
  /\ InCheck("targets")
  /\ UNCHANGED still
  /\ chk' = [chk EXCEPT !.pc = "queries", !.findings =
       IF cblock.resolvable
       THEN @ \cup UNION {Found({"SC-PRV09"}, j) :
                             j \in Unconstructible(cblock, inputs.overlay)}
       ELSE Found({"SC-PRV09"}, 0)]

\* Mutant: a duplicate name is reported under an id no registry knows.
QueryRulesUnregistered(content, analyzed) ==
  IF \E q, r \in content.queries : q # r THEN {"SC-C99"} ELSE {}

\* Queries that fail to analyze are findings and drop out of the set the
\* fingerprint is taken over.
QueryRules(content, analyzed) ==
  (IF content.queries = {} THEN {"SC-PRV10"} ELSE {})
    \cup (IF analyzed # content.queries THEN {"SC-PARSE02"} ELSE {})
    \cup (IF \E q, r \in analyzed : q # r /\ q.name = r.name
          THEN {"SC-C03"} ELSE {})

CheckQueries ==
  /\ InCheck("queries")
  /\ UNCHANGED still
  /\ LET content == inputs.queries[cblock.queries]
         analyzed == {q \in content.queries : Analyzes(chk.shape, q)}
         findings == Found(QueryRules(content, analyzed), 0)
     IN IF content.stray
        THEN CheckExit("err", {})
        ELSE IF ~cblock.resolvable
        THEN CheckNextBlock(findings \cup Found({"SC-PRV07"}, 0))
        ELSE IF cblock.targets = <<>>
        THEN CheckNextBlock(findings)
        ELSE chk' = [chk EXCEPT !.pc = "options", !.t = 1,
                       !.queriesTag = QueriesFingerprint(chk.shape, analyzed),
                       !.findings = findings]

\* The head of verify_provenance's loop.
ReadOptions ==
  /\ InCheck("options")
  /\ UNCHANGED still
  /\ LET content == OverlayContent(ctarget, inputs.overlay) IN
     IF Supports(ctarget.backend, cblock.engine) /\ content # "missing"
     THEN chk' = [chk EXCEPT !.pc = "main", !.optionsTag =
                    OptionsFingerprint(ctarget.options, content)]
     ELSE CheckNextTarget(Found({"SC-PRV07"}, chk.t))

\* Mutant: the fingerprint is taken after the queries were handed to the
\* live verification.
ExpectationMoved ==
  [version |-> Version, backend |-> ctarget.backend, engine |-> cblock.engine,
   schema |-> chk.schemaTag, queries |-> {}, options |-> chk.optionsTag]

Expectation ==
  [version |-> Version, backend |-> ctarget.backend, engine |-> cblock.engine,
   schema |-> chk.schemaTag, queries |-> chk.queriesTag,
   options |-> chk.optionsTag]

ArtifactFindings(path) ==
  Found(VerifyArtifact(disk[Location(path)], Expectation), chk.t)

VerifyMain ==
  /\ InCheck("main")
  /\ UNCHANGED still
  /\ LET findings == ArtifactFindings(MainPath(ctarget)) IN
     IF EmitsRbs(ctarget.backend)
     THEN chk' = [chk EXCEPT !.pc = "rbs", !.findings = findings]
     ELSE CheckNextTarget(findings)

VerifyRbs ==
  /\ InCheck("rbs")
  /\ UNCHANGED still
  /\ CheckNextTarget(ArtifactFindings(RbsPath(ctarget)))

CheckStep ==
  \/ CheckCatalog \/ ValidateTargets \/ CheckQueries
  \/ ReadOptions \/ VerifyMain \/ VerifyRbs

-----------------------------------------------------------------------------
CheckInit == Init /\ chk = CheckIdle /\ still = FALSE

\* A step of generate or of the editor, seen by check.
Outside ==
  /\ Next
  /\ still' = (still /\ UNCHANGED <<inputs, disk>>)
  /\ UNCHANGED chk

CheckNext ==
  \/ Outside
  \/ (\E exitZero \in BOOLEAN : StartCheck(exitZero)) /\ UNCHANGED vars
  \/ CheckStep /\ UNCHANGED vars

CheckSpec == CheckInit /\ [][CheckNext]_allVars

-----------------------------------------------------------------------------
CheckControl ==
  [pc : CheckPhases, outcome : CheckOutcomes, cfg : Configs \cup {None},
   exitZero : BOOLEAN, b : Nat, t : Nat, shape : Shapes \cup {None},
   schemaTag : Shapes \cup {None}, queriesTag : QueryTags,
   optionsTag : OptionTags \cup {None},
   findings : SUBSET Finding]

\* Every variable holds a value of its kind.
CheckTypeOK == TypeOK /\ chk \in CheckControl /\ still \in BOOLEAN

-----------------------------------------------------------------------------
(* What an empty report means when nothing moved under the check. *)

Clean ==
  /\ chk.outcome = "clean" /\ still
  /\ \A r \in Rules : inputs.config.severity[r] # "off"

\* Every configured output that is on disk in one piece.
Present ==
  UNION {{<<x, l>> : l \in {k \in Outputs(TargetAt(inputs.config, x)) :
                              disk[k].kind = "file"
                                /\ disk[k].body # Truncated}} :
           x \in AllTargets(inputs.config)}

BlockAt(x) == inputs.config.blocks[x[1]]

CurrentShape(x) == inputs.schema[BlockAt(x).schema].shape
CurrentQueries(x) == inputs.queries[BlockAt(x).queries].queries

\* An empty report means that every output present was generated for the
\* configured backend and engine from a schema and a query set with the
\* fingerprints the inputs have now.
CleanMeansCurrent ==
  Clean =>
    \A p \in Present :
      LET body == disk[p[2]].body
          t == TargetAt(inputs.config, p[1])
      IN /\ body.schema = CurrentShape(p[1])
         /\ QueriesFingerprint(body.schema, body.queries) =
              QueriesFingerprint(body.schema, CurrentQueries(p[1]))
         /\ body.engine = BlockAt(p[1]).engine
         /\ body.backend = t.backend
         /\ body.options = t.options

\* An empty report means that every output present embeds the SQL the query
\* files hold now.
CleanMeansCurrentText ==
  Clean => \A p \in Present :
             disk[p[2]].body.queries = CurrentQueries(p[1])

\* Everything generate checks about one block before it writes, except the
\* overrides and the output paths.
InputsUsable(blk) ==
  /\ inputs.schema[blk.schema].ok
  /\ QueriesUsable(inputs.queries[blk.queries], inputs.schema[blk.schema].shape)
  /\ blk.resolvable
  /\ \A j \in DOMAIN blk.targets :
       TargetResolves(blk, blk.targets[j], inputs.overlay, FALSE)

\* An empty report means generate gets past the schema, the queries and
\* every target of every block.
CleanMeansUsable ==
  Clean => \A i \in DOMAIN inputs.config.blocks :
             InputsUsable(inputs.config.blocks[i])

\* An empty report means generate gets as far as writing its first byte.
CleanMeansGenerateAccepts ==
  Clean => \A i \in DOMAIN inputs.config.blocks :
             LET blk == inputs.config.blocks[i] IN
             /\ InputsUsable(blk)
             /\ OverridesResolve(blk.overrides,
                                 inputs.queries[blk.queries].queries)
             /\ PathsDistinct(blk.targets)

\* After a run of generate that succeeded, a check over unchanged inputs and
\* disk gets to its report, and that says nothing but what generate has no
\* objection to: an empty query file, a name taken twice, and with
\* --allow-output-escape an output outside of the project.
GeneratedPasses ==
  /\ gen.outcome \in {"ok", "invalid"} /\ steady
  /\ chk.outcome # "none" /\ still
  /\ Disjoint(inputs.config)
  => /\ chk.outcome # "err"
     /\ \A f \in chk.findings :
          \/ f.rule \in {"SC-PRV10", "SC-C03"}
          \/ f.rule = "SC-PRV09" /\ Escapes(inputs.config.blocks[f.b].targets[f.t].dir)

\* A finding of the report, unless its rule is off.
Says(rule, i, j) ==
  SeverityOf(inputs.config, rule) # "off" =>
    [rule |-> rule, b |-> i, t |-> j] \in chk.findings

\* What generate refuses in a block is in the report: each query that does not
\* analyze, names taken twice, and each target that cannot be built.
BlockSaid(blk, i) ==
  LET shape == inputs.schema[blk.schema].shape
      queries == inputs.queries[blk.queries].queries
  IN /\ \A q \in queries : ~Analyzes(shape, q) => Says("SC-PARSE02", i, 0)
     /\ \A q, r \in queries :
          q # r /\ q.name = r.name /\ Analyzes(shape, q) /\ Analyzes(shape, r)
            => Says("SC-C03", i, 0)
     /\ IF blk.resolvable
        THEN \A j \in DOMAIN blk.targets :
               ~TargetResolves(blk, blk.targets[j], inputs.overlay, FALSE)
                 => Says("SC-PRV09", i, j)
        ELSE Says("SC-PRV09", i, 0)

\* One mistake hides no other: a report over inputs that did not move, be it
\* clean or not, names every mistake of every block and target, whatever else
\* is wrong before it, behind it or beside it (#209: what one query or target
\* costs is one finding, not those that were already collected).
ReportMissesNothing ==
  chk.outcome \in {"clean", "ok", "errors"} /\ still =>
    \A i \in DOMAIN inputs.config.blocks : BlockSaid(inputs.config.blocks[i], i)

==============================================================================
