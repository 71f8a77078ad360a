-------------------------------- MODULE Migrate --------------------------------
(***************************************************************************)
(* `scythe migrate': write scythe.toml from a sqlc configuration, then     *)
(* convert the listed query files in place, one after the other, each with *)
(* a backup beside it.  The user edits files at any time, runs the command *)
(* again, and a run may fail or be killed at any point.                    *)
(* (crates/scythe-cli/src/commands/migrate.rs.)                            *)
(*                                                                         *)
(* A text is known by what it holds that migrate tells apart, and by which *)
(* of the user's edits it is, or was converted from; std::fs::write leaves *)
(* part of it when it is cut.                                              *)
(***************************************************************************)
EXTENDS Naturals, Sequences

\* What a file may hold of sqlc's.
Marks ==
  {"annotated",   \* `-- name: X :one', the strict annotation
   "mistyped",    \* a line that begins like one
   "hidden",      \* one indented, or in a block comment
   "named",       \* sqlc.arg(x) or sqlc.narg(x), below the strict annotations
   "malformed",   \* sqlc.arg(...) spelled otherwise, or above the annotations
   "other"}       \* sqlc.embed, sqlc.slice

CONSTANTS
  Files,       \* query files
  Contents,    \* what the user may write into one
  Lists,       \* what the `queries' entries of sqlc.yaml may resolve to
  MaxVersion   \* bound: edits of each file

ASSUME MigrateBounds ==
  /\ "scythe.toml" \notin Files
  /\ Contents \subseteq SUBSET Marks
  /\ Lists \subseteq Seq(Files)
  /\ MaxVersion \in Nat

VARIABLES
  queries,    \* the query files
  backups,    \* their .sql.bak
  toml,       \* scythe.toml
  tomlBackup, \* scythe.toml.bak
  own,        \* history: what the user last wrote into a query file
  ownToml,    \* history: ... and into scythe.toml
  run,        \* the command
  overtaken,  \* history: files saved between the read and the write of a run
  again,      \* history: a run found a scythe.toml that is not the user's
  edited      \* history: files edited since the run began

vars == <<queries, backups, toml, tomlBackup, own, ownToml, run, overtaken, again,
          edited>>

-----------------------------------------------------------------------------
\* "scythe" is in what migrate has written.
Text == [form : SUBSET (Marks \cup {"absent", "scythe"}), version : 0..MaxVersion,
         whole : BOOLEAN]

Write(form, version) == [form |-> form, version |-> version, whole |-> TRUE]
Cut(text) == [text EXCEPT !.whole = FALSE]
Absent == Write({"absent"}, 0)
Own(version) == Write({}, version)

Config == "scythe.toml"
Outcomes == {"none", "ok", "error", "killed"}

Idle(outcome) ==
  [pc |-> "idle", outcome |-> outcome, list |-> <<>>, i |-> 0, content |-> Absent]

Init ==
  /\ queries \in [Files -> {Write(form, 0) : form \in Contents}]
  /\ backups = [f \in Files |-> Absent]
  /\ toml \in {Absent, Own(0)}
  /\ tomlBackup = Absent
  /\ own = queries
  /\ ownToml = toml
  /\ run = Idle("none")
  /\ overtaken = {}
  /\ again = FALSE
  /\ edited = {}

-----------------------------------------------------------------------------
(* The user. *)

EditQueries(f, form) ==
  LET text == Write(form, own[f].version + 1)
  IN /\ own[f].version < MaxVersion
     /\ queries' = [queries EXCEPT ![f] = text]
     /\ own' = [own EXCEPT ![f] = text]
     /\ overtaken' = overtaken \ {f}
     /\ edited' = edited \cup {f}
     /\ UNCHANGED <<backups, toml, tomlBackup, ownToml, run, again>>

EditToml ==
  LET text == Own(ownToml.version + 1)
  IN /\ ownToml.version < MaxVersion
     /\ toml' = text
     /\ ownToml' = text
     /\ overtaken' = overtaken \ {Config}
     /\ again' = FALSE
     /\ UNCHANGED <<queries, backups, tomlBackup, own, run, edited>>

-----------------------------------------------------------------------------
(* The command. *)

filesAndHistory == <<queries, backups, toml, tomlBackup, own, ownToml, overtaken>>

Step(pc) == run' = [run EXCEPT !.pc = pc]

\* An error that is reported, or the end of the process.
Stops == \E outcome \in {"error", "killed"} : run' = Idle(outcome)

\* sqlc.yaml is read and resolved, before anything is written.
Start(list) ==
  /\ run.pc = "idle"
  /\ run' = [Idle("none") EXCEPT !.pc = "back up config", !.list = list, !.i = 1]
  /\ again' = (again \/ (toml # Absent /\ toml # ownToml))
  /\ edited' = {}
  /\ UNCHANGED filesAndHistory

\* A mutation of ConfigBackedUp: what is there is overwritten.
ConfigBackedUpNever(old) == FALSE

\* dest.exists()
ConfigBackedUp(old) == old # Absent

\* convert_config, its tail: an existing scythe.toml is read and backed up.
BackUpConfig ==
  /\ run.pc = "back up config"
  /\ IF ConfigBackedUp(toml)
     THEN \/ /\ tomlBackup' = toml
             /\ run' = [run EXCEPT !.pc = "config", !.content = toml]
          \/ tomlBackup' = Cut(toml) /\ Stops
          \/ UNCHANGED tomlBackup /\ Stops
     ELSE /\ run' = [run EXCEPT !.pc = "config", !.content = toml]
          /\ UNCHANGED tomlBackup
  /\ UNCHANGED <<queries, backups, toml, own, ownToml, overtaken, again, edited>>

\* A file the user saved after the command had read it is lost.
Overtakes(f, now) == overtaken' = overtaken \cup (IF now # run.content THEN {f} ELSE {})

WriteConfig ==
  LET generated == Write({"scythe"}, 0)
  IN /\ run.pc = "config"
     /\ \/ toml' = generated /\ Step("next")
        \/ toml' = Cut(generated) /\ Stops
     /\ Overtakes(Config, toml)
     /\ UNCHANGED <<queries, backups, tomlBackup, own, ownToml, again, edited>>

file == run.list[run.i]

\* A mutation of Advanced: the step is not left.
AdvancedStaying == [run EXCEPT !.i = @ + 1]

Advanced == [run EXCEPT !.pc = "next", !.i = @ + 1]

\* A mutation of Refused: the file with no strict annotation returns first.
RefusedAnnotated(text) ==
  "annotated" \in text.form /\ text.form \cap {"mistyped", "malformed"} # {}

\* convert_query_content refuses a line that begins like an annotation, and a
\* parameter that is still there after the conversion; of the parameters of a
\* file without an annotation it never hears.
Refused(text) ==
  \/ "mistyped" \in text.form
  \/ {"annotated", "malformed"} \subseteq text.form

\* The strict annotations and the named parameters below them are rewritten; a
\* file without an annotation is left alone, and so is everything else.
Converted(text) ==
  IF "annotated" \in text.form
  THEN [text EXCEPT !.form = (@ \ {"annotated", "named"}) \cup {"scythe"}]
  ELSE text

\* A mutation of BackedUp: the copy is taken after the conversion.
BackedUpConverted(text) == Converted(text)

BackedUp(text) == text

\* convert_single_file, up to its backup.
ReadQueries ==
  /\ run.pc = "next"
  /\ run.i <= Len(run.list)
  /\ LET text == queries[file]
     IN IF Refused(text)
        THEN run' = Idle("error") /\ UNCHANGED backups
        ELSE IF Converted(text) = text
        THEN run' = Advanced /\ UNCHANGED backups
        ELSE \/ /\ backups' = [backups EXCEPT ![file] = BackedUp(text)]
                /\ run' = [run EXCEPT !.pc = "write", !.content = text]
             \/ backups' = [backups EXCEPT ![file] = Cut(BackedUp(text))] /\ Stops
  /\ UNCHANGED <<queries, toml, tomlBackup, own, ownToml, overtaken, again, edited>>

WriteQueries ==
  LET converted == Converted(run.content)
  IN /\ run.pc = "write"
     /\ \/ /\ queries' = [queries EXCEPT ![file] = converted]
           /\ run' = Advanced
        \/ queries' = [queries EXCEPT ![file] = Cut(converted)] /\ Stops
     /\ Overtakes(file, queries[file])
     /\ UNCHANGED <<backups, toml, tomlBackup, own, ownToml, again, edited>>

Finish ==
  /\ run.pc = "next"
  /\ run.i > Len(run.list)
  /\ run' = Idle("ok")
  /\ UNCHANGED <<filesAndHistory, again, edited>>

\* A read that fails, a write that cannot begin, a kill between two steps.
Abort ==
  /\ run.pc # "idle"
  /\ Stops
  /\ UNCHANGED <<filesAndHistory, again, edited>>

Next ==
  \/ \E f \in Files, form \in Contents : EditQueries(f, form)
  \/ EditToml
  \/ \E list \in Lists : Start(list)
  \/ BackUpConfig \/ WriteConfig
  \/ ReadQueries \/ WriteQueries \/ Finish \/ Abort

Spec == Init /\ [][Next]_vars

-----------------------------------------------------------------------------
\* Type invariant.
TypeOK ==
  /\ queries \in [Files -> Text]
  /\ backups \in [Files -> Text]
  /\ toml \in Text
  /\ tomlBackup \in Text
  /\ own \in [Files -> Text]
  /\ ownToml \in Text
  /\ run \in [pc : {"idle", "back up config", "config", "next", "write"},
              outcome : Outcomes, list : Lists \cup {<<>>}, i : Nat, content : Text]
  /\ run.pc # "idle" => run.list \in Lists /\ run.i \in 1..Len(run.list) + 1
  /\ run.pc = "write" => run.i <= Len(run.list)
  /\ overtaken \subseteq Files \cup {Config}
  /\ again \in BOOLEAN
  /\ edited \subseteq Files

\* What the user last wrote into a query file is, whole, in the file or in its
\* backup, through any number of runs that fail or are killed wherever, unless
\* the user saved it while a run was converting that very file.
QueriesSurvive ==
  \A f \in Files \ overtaken : own[f] \in {queries[f], backups[f]}

\* ... and so is the user's scythe.toml, for as long as no run starts from the
\* one an earlier run wrote.
ConfigSurvivesOneRun ==
  Config \notin overtaken /\ ~again => ownToml \in {toml, tomlBackup}

\* A run that ends well leaves no annotation at the beginning of a line, strict
\* or mistyped, in any listed file, and no sqlc.arg or sqlc.narg in any it
\* converted, but for the files the user edited during the run: no such query
\* is skipped in silence (#152), whichever earlier run converted it and wherever
\* that run ended.  Hidden annotations, sqlc.embed and sqlc.slice, and the
\* parameters of files without an annotation do pass in silence.
SuccessMeansConverted ==
  [][run'.outcome = "ok" /\ run.pc # "idle" =>
       \A i \in DOMAIN run.list :
         LET form == queries[run.list[i]].form IN
         run.list[i] \notin edited =>
           /\ form \cap {"annotated", "mistyped"} = {}
           /\ "scythe" \in form => form \cap {"named", "malformed"} = {}]_vars

\* ... which is less than that it leaves nothing of sqlc's.
SuccessLeavesNothing ==
  [][run'.outcome = "ok" /\ run.pc # "idle" =>
       \A i \in DOMAIN run.list :
         run.list[i] \notin edited => queries[run.list[i]].form \cap Marks = {}]_vars

\* "migrate must not destroy a hand-written scythe.toml": no exception for a
\* run after another.
ConfigSurvives == Config \notin overtaken => ownToml \in {toml, tomlBackup}
=============================================================================
