---------------------------- MODULE MigrateProofs ----------------------------
(* What a user wrote survives `scythe migrate', for any set of query files,   *)
(* any lists of them and any number of edits.                                 *)
EXTENDS Migrate, TLAPS

-----------------------------------------------------------------------------
(* Types. *)

LEMMA VersionType ==
  ASSUME NEW text \in Text
  PROVE  text.version \in Nat
  <1>1. text.version \in 0..MaxVersion
    BY DEF Text
  <1> QED
    BY <1>1, MigrateBounds

LEMMA WriteType ==
  ASSUME NEW form \in SUBSET (Marks \cup {"absent", "scythe"}), NEW version \in 0..MaxVersion
  PROVE  Write(form, version) \in Text
  BY DEF Write, Text

LEMMA CutType ==
  ASSUME NEW text \in Text
  PROVE  Cut(text) \in Text
  BY DEF Cut, Text

LEMMA ConvertedType ==
  ASSUME NEW text \in Text
  PROVE  /\ Converted(text) \in Text
         /\ BackedUp(text) \in Text
         /\ Converted(text) # text => "annotated" \in text.form
  BY DEF Converted, BackedUp, Text

LEMMA ZeroVersion == 0 \in 0..MaxVersion
  BY MigrateBounds

LEMMA AbsentType == Absent \in Text
  BY WriteType, ZeroVersion DEF Absent

LEMMA ContentsType == Contents \subseteq SUBSET (Marks \cup {"absent", "scythe"})
  BY MigrateBounds

LEMMA OwnType ==
  ASSUME NEW version \in 0..MaxVersion
  PROVE  Own(version) \in Text /\ Own(version) # Absent
  BY WriteType DEF Own, Absent, Write

Run == [pc : {"idle", "back up config", "config", "next", "write"},
        outcome : Outcomes, list : Lists \cup {<<>>}, i : Nat, content : Text]

LEMMA IdleType ==
  ASSUME NEW outcome \in Outcomes
  PROVE  Idle(outcome) \in Run /\ Idle(outcome).pc = "idle"
  BY AbsentType DEF Idle, Run

LEMMA StopsType ==
  ASSUME Stops
  PROVE  run' \in Run /\ run'.pc = "idle"
  BY IdleType DEF Stops, Outcomes

\* The conjuncts of TypeOK about the command.
RunOK ==
  /\ run \in Run
  /\ run.pc # "idle" => run.list \in Lists /\ run.i \in 1..Len(run.list) + 1
  /\ run.pc = "write" => run.i <= Len(run.list)

LEMMA ListLength ==
  ASSUME NEW list \in Lists
  PROVE  Len(list) \in Nat /\ \A i \in 1..Len(list) : list[i] \in Files
  BY MigrateBounds

LEMMA FileType ==
  ASSUME RunOK, run.pc # "idle", run.i <= Len(run.list)
  PROVE  file \in Files
  BY ListLength DEF RunOK, file

LEMMA AdvancedType ==
  ASSUME RunOK, run.pc # "idle", run.i <= Len(run.list)
  PROVE  /\ Advanced \in Run
         /\ Advanced.pc = "next" /\ Advanced.list = run.list
         /\ Advanced.i = run.i + 1 /\ Advanced.outcome = run.outcome
  <1>1. run \in Run /\ run.i \in Nat
    BY DEF RunOK, Run
  <1>2. run.i + 1 \in Nat
    BY <1>1
  <1> QED
    BY <1>1, <1>2 DEF Run, Advanced

LEMMA RunOKKept == ASSUME RunOK, UNCHANGED run PROVE RunOK'
  BY DEF RunOK, Run

LEMMA TypeOKInit == Init => TypeOK
  <1> SUFFICES ASSUME Init PROVE TypeOK
    OBVIOUS
  <1>1. queries \in [Files -> Text]
    BY WriteType, ContentsType, ZeroVersion DEF Init
  <1>2. /\ backups \in [Files -> Text] /\ toml \in Text /\ tomlBackup \in Text
        /\ own \in [Files -> Text] /\ ownToml \in Text
    BY <1>1, AbsentType, OwnType, ZeroVersion DEF Init
  <1>3. run \in Run /\ run.pc = "idle"
    BY IdleType DEF Init, Outcomes
  <1> QED
    BY <1>1, <1>2, <1>3 DEF Init, TypeOK, Run

LEMMA TypeOKNext == TypeOK /\ [Next]_vars => TypeOK'
  <1> SUFFICES ASSUME TypeOK, [Next]_vars PROVE TypeOK'
    OBVIOUS
  <1>r. RunOK
    BY DEF TypeOK, RunOK, Run
  <1> DEFINE Others == /\ queries \in [Files -> Text] /\ backups \in [Files -> Text]
                       /\ toml \in Text /\ tomlBackup \in Text
                       /\ own \in [Files -> Text] /\ ownToml \in Text
                       /\ overtaken \subseteq Files \cup {Config}
                       /\ again \in BOOLEAN /\ edited \subseteq Files
  <1>o. Others
    BY DEF TypeOK
  <1>q. RunOK' /\ Others' => TypeOK'
    BY DEF TypeOK, RunOK, Run
  <1>s. ASSUME Stops PROVE RunOK'
    BY <1>s, StopsType DEF RunOK
  <1>1. ASSUME NEW f \in Files, NEW form \in Contents, EditQueries(f, form)
        PROVE  TypeOK'
    <2> DEFINE text == Write(form, own[f].version + 1)
    <2>1. text \in Text
      <3>1. form \in SUBSET (Marks \cup {"absent", "scythe"})
        BY ContentsType
      <3>2. own[f].version + 1 \in 0..MaxVersion
        <4>1. own[f].version \in Nat /\ own[f].version < MaxVersion
          BY <1>1, <1>o, VersionType DEF EditQueries
        <4> QED
          BY <4>1, MigrateBounds
      <3> QED
        BY <3>1, <3>2, WriteType
    <2>2. RunOK'
      BY <1>1, <1>r, RunOKKept DEF EditQueries
    <2>3. Others'
      BY <1>1, <1>o, <2>1 DEF EditQueries
    <2> QED
      BY <1>q, <2>2, <2>3
  <1>2. CASE EditToml
    <2> DEFINE text == Own(ownToml.version + 1)
    <2>1. text \in Text
      BY <1>2, <1>o, OwnType, MigrateBounds DEF EditToml, Text
    <2>2. RunOK'
      BY <1>2, <1>r, RunOKKept DEF EditToml
    <2>3. Others'
      BY <1>2, <1>o, <2>1 DEF EditToml
    <2> QED
      BY <1>q, <2>2, <2>3
  <1>3. ASSUME NEW list \in Lists, Start(list)
        PROVE  TypeOK'
    <2>1. RunOK'
      <3>1. Idle("none") \in Run
        BY IdleType DEF Outcomes
      <3>2. run' \in Run /\ run'.pc = "back up config" /\ run'.list = list /\ run'.i = 1
        BY <1>3, <3>1 DEF Start, Run
      <3>3. 1 \in 1..Len(list) + 1
        BY ListLength
      <3> QED
        BY <3>2, <3>3 DEF RunOK
    <2>2. Others'
      BY <1>3, <1>o DEF Start, filesAndHistory
    <2> QED
      BY <1>q, <2>1, <2>2
  <1>4. CASE BackUpConfig
    <2>1. RunOK'
      <3>1. CASE Stops
        BY <3>1, <1>s
      <3>2. CASE run' = [run EXCEPT !.pc = "config", !.content = toml]
        BY <1>4, <1>r, <1>o, <3>2 DEF RunOK, Run, BackUpConfig
      <3> QED
        BY <1>4, <3>1, <3>2 DEF BackUpConfig
    <2>2. tomlBackup' \in Text
      BY <1>4, <1>o, CutType DEF BackUpConfig
    <2>3. Others'
      BY <1>4, <1>o, <2>2 DEF BackUpConfig
    <2> QED
      BY <1>q, <2>1, <2>3
  <1>5. CASE WriteConfig
    <2>1. RunOK'
      BY <1>5, <1>r, <1>s DEF WriteConfig, Step, RunOK, Run
    <2>2. toml' \in Text
      BY <1>5, WriteType, CutType, ZeroVersion DEF WriteConfig
    <2>3. Others'
      BY <1>5, <1>o, <2>2 DEF WriteConfig, Overtakes
    <2> QED
      BY <1>q, <2>1, <2>3
  <1>6. CASE ReadQueries
    <2>0. run.pc # "idle" /\ run.i <= Len(run.list) /\ file \in Files
      BY <1>6, <1>r, FileType DEF ReadQueries
    <2> DEFINE text == queries[file]
    <2>t. text \in Text
      BY <2>0, <1>o
    <2>1. RunOK'
      <3>1. CASE Stops
        BY <3>1, <1>s
      <3>2. CASE run' = Idle("error")
        BY <3>2, IdleType DEF RunOK, Outcomes
      <3>3. CASE run' = Advanced
        BY <3>3, <2>0, <1>r, AdvancedType, ListLength DEF RunOK
      <3>4. CASE run' = [run EXCEPT !.pc = "write", !.content = text]
        BY <3>4, <2>0, <2>t, <1>r DEF RunOK, Run
      <3> QED
        BY <1>6, <3>1, <3>2, <3>3, <3>4 DEF ReadQueries
    <2>2. backups' \in [Files -> Text]
      BY <1>6, <1>o, <2>0, <2>t, CutType, ConvertedType DEF ReadQueries
    <2>3. Others'
      BY <1>6, <1>o, <2>2 DEF ReadQueries
    <2> QED
      BY <1>q, <2>1, <2>3
  <1>7. CASE WriteQueries
    <2>0. run.pc # "idle" /\ run.i <= Len(run.list) /\ file \in Files
      BY <1>7, <1>r, FileType DEF WriteQueries, RunOK
    <2>1. RunOK'
      <3>1. CASE Stops
        BY <3>1, <1>s
      <3>2. CASE run' = Advanced
        BY <3>2, <2>0, <1>r, AdvancedType, ListLength DEF RunOK
      <3> QED
        BY <1>7, <3>1, <3>2 DEF WriteQueries
    <2>2. queries' \in [Files -> Text]
      <3>1. Converted(run.content) \in Text /\ Cut(Converted(run.content)) \in Text
        BY <1>r, ConvertedType, CutType DEF RunOK, Run
      <3> QED
        BY <1>7, <1>o, <2>0, <3>1 DEF WriteQueries
    <2>3. Others'
      BY <1>7, <1>o, <2>0, <2>2 DEF WriteQueries, Overtakes
    <2> QED
      BY <1>q, <2>1, <2>3
  <1>8. CASE Finish
    <2>1. RunOK'
      BY <1>8, IdleType DEF Finish, RunOK, Outcomes
    <2>2. Others'
      BY <1>8, <1>o DEF Finish, filesAndHistory
    <2> QED
      BY <1>q, <2>1, <2>2
  <1>9. CASE Abort
    <2>1. Others'
      BY <1>9, <1>o DEF Abort, filesAndHistory
    <2> QED
      BY <1>9, <1>q, <1>s, <2>1 DEF Abort
  <1>10. CASE UNCHANGED vars
    <2>1. RunOK'
      BY <1>10, <1>r, RunOKKept DEF vars
    <2>2. Others'
      BY <1>10, <1>o DEF vars
    <2> QED
      BY <1>q, <2>1, <2>2
  <1> QED
    BY <1>1, <1>2, <1>3, <1>4, <1>5, <1>6, <1>7, <1>8, <1>9, <1>10 DEF Next

\* Every reachable state of a migration is well typed.
THEOREM SpecTypeOK == Spec => []TypeOK
  <1>1. Init => TypeOK
    BY TypeOKInit
  <1>2. TypeOK /\ [Next]_vars => TypeOK'
    BY TypeOKNext
  <1> QED
    BY <1>1, <1>2, PTL DEF Spec

-----------------------------------------------------------------------------
(* Query files.  A file whose own text is no longer in it holds something   *)
(* migrate wrote, whole or cut, and no run makes a backup of that.          *)

FileSurvives(f) ==
  f \notin overtaken =>
    \/ own[f] = queries[f]
    \/ own[f] = backups[f] /\ "annotated" \notin queries[f].form

\* What a run is about to overwrite is in the backup, as it was read.
Prepared ==
  run.pc = "write" =>
    /\ "annotated" \in run.content.form /\ ~Refused(run.content)
    /\ backups[file] = run.content

QueriesInv == Prepared /\ \A f \in Files : FileSurvives(f)

LEMMA QueriesInvInit == Init => QueriesInv
  BY IdleType DEF Init, QueriesInv, Prepared, FileSurvives, Outcomes

LEMMA ScytheForm ==
  ASSUME NEW text \in Text, "annotated" \in text.form
  PROVE  /\ Converted(text).form = (text.form \ {"annotated", "named"}) \cup {"scythe"}
         /\ Cut(Converted(text)).form = Converted(text).form
  BY DEF Converted, Cut, Text

\* A step that leaves the files and what is known of them alone.
LEMMA QueriesInvKept ==
  ASSUME QueriesInv, UNCHANGED <<queries, backups, own>>,
         overtaken \subseteq overtaken' \cup {Config},
         run'.pc = "write" => UNCHANGED run
  PROVE  QueriesInv'
  <1>1. Prepared'
    BY DEF QueriesInv, Prepared, file
  <1>2. \A f \in Files : FileSurvives(f)'
    BY MigrateBounds DEF QueriesInv, FileSurvives, Config
  <1> QED
    BY <1>1, <1>2 DEF QueriesInv

LEMMA QueriesInvNext ==
  ASSUME TypeOK, QueriesInv, [Next]_vars
  PROVE  QueriesInv'
  <1>r. RunOK
    BY DEF TypeOK, RunOK, Run
  <1>s. Stops => run'.pc # "write"
    BY StopsType
  <1>1. ASSUME NEW f \in Files, NEW form \in Contents, EditQueries(f, form)
        PROVE  QueriesInv'
    <2>1. Prepared'
      BY <1>1 DEF EditQueries, QueriesInv, Prepared, file
    <2>2. \A g \in Files : FileSurvives(g)'
      BY <1>1 DEF EditQueries, QueriesInv, FileSurvives, TypeOK
    <2> QED
      BY <2>1, <2>2 DEF QueriesInv
  <1>2. CASE EditToml
    BY <1>2, QueriesInvKept DEF EditToml
  <1>3. ASSUME NEW list \in Lists, Start(list)
        PROVE  QueriesInv'
    <2>1. run'.pc # "write"
      BY <1>3, IdleType DEF Start, Outcomes, Run
    <2> QED
      BY <1>3, <2>1, QueriesInvKept DEF Start, filesAndHistory
  <1>4. CASE BackUpConfig
    <2>1. run'.pc # "write"
      BY <1>4, <1>r, <1>s DEF BackUpConfig, RunOK, Run
    <2> QED
      BY <1>4, <2>1, QueriesInvKept DEF BackUpConfig
  <1>5. CASE WriteConfig
    <2>1. run'.pc # "write"
      BY <1>5, <1>r, <1>s DEF WriteConfig, Step, RunOK, Run
    <2> QED
      BY <1>5, <2>1, QueriesInvKept DEF WriteConfig, Overtakes
  <1>6. CASE ReadQueries
    <2>0. run.pc = "next" /\ run.i <= Len(run.list) /\ file \in Files
      BY <1>6, <1>r, FileType DEF ReadQueries
    <2> DEFINE text == queries[file]
    <2>t. text \in Text
      BY <2>0 DEF TypeOK
    <2>1. CASE UNCHANGED backups /\ run'.pc # "write"
      BY <1>6, <2>1, QueriesInvKept DEF ReadQueries
    <2>2. ASSUME Converted(text) # text, NEW copy,
                 backups' = [backups EXCEPT ![file] = copy]
          PROVE  \A f \in Files : FileSurvives(f)'
      <3>1. "annotated" \in text.form
        BY <2>2, <2>t, ConvertedType
      <3> QED
        BY <1>6, <2>0, <2>2, <3>1 DEF ReadQueries, QueriesInv, FileSurvives, TypeOK
    <2>3. ASSUME Converted(text) # text, ~Refused(text),
                 backups' = [backups EXCEPT ![file] = BackedUp(text)],
                 run' = [run EXCEPT !.pc = "write", !.content = text]
          PROVE  QueriesInv'
      <3>1. "annotated" \in text.form
        BY <2>3, <2>t, ConvertedType
      <3>2. run'.content = text /\ file' = file
        BY <2>3, <1>r DEF RunOK, Run, file
      <3>3. Prepared'
        BY <1>6, <2>0, <2>3, <3>1, <3>2 DEF ReadQueries, Prepared, BackedUp, TypeOK
      <3> QED
        BY <2>2, <2>3, <3>3 DEF QueriesInv
    <2>4. ASSUME Converted(text) # text,
                 backups' = [backups EXCEPT ![file] = Cut(BackedUp(text))], Stops
          PROVE  QueriesInv'
      BY <2>2, <2>4, <1>s DEF QueriesInv, Prepared
    <2>5. Idle("error").pc # "write"
      BY IdleType DEF Outcomes
    <2>6. Advanced.pc # "write"
      BY <2>0, <1>r, AdvancedType
    <2> QED
      BY <1>6, <2>1, <2>3, <2>4, <2>5, <2>6 DEF ReadQueries
  <1>7. CASE WriteQueries
    <2>0. run.pc = "write" /\ run.i <= Len(run.list) /\ file \in Files
      BY <1>7, <1>r, FileType DEF WriteQueries, RunOK
    <2> DEFINE text == run.content
    <2>t. text \in Text /\ "annotated" \in text.form /\ backups[file] = text
      BY <2>0, <1>r DEF QueriesInv, Prepared, RunOK, Run
    <2>1. run'.pc # "write"
      <3>1. Advanced.pc # "write"
        BY <2>0, <1>r, AdvancedType
      <3> QED
        BY <1>7, <1>s, <3>1 DEF WriteQueries
    <2>2. PICK now : queries' = [queries EXCEPT ![file] = now] /\ "annotated" \notin now.form
      BY <1>7, <2>t, ScytheForm DEF WriteQueries
    <2>3. ASSUME NEW f \in Files PROVE FileSurvives(f)'
      <3>1. CASE f # file
        BY <1>7, <2>2, <3>1 DEF WriteQueries, Overtakes, QueriesInv, FileSurvives, TypeOK
      <3>2. CASE f = file
        <4>1. queries'[f] = now
          BY <2>2, <3>2 DEF TypeOK
        <4>2. CASE queries[file] # text
          BY <1>7, <3>2, <4>2 DEF WriteQueries, Overtakes, FileSurvives
        <4>3. CASE queries[file] = text
          BY <1>7, <2>t, <2>2, <3>2, <4>1, <4>3
             DEF WriteQueries, Overtakes, QueriesInv, FileSurvives
        <4> QED
          BY <4>2, <4>3
      <3> QED
        BY <3>1, <3>2
    <2> QED
      BY <2>1, <2>3 DEF QueriesInv, Prepared
  <1>8. CASE Finish
    <2>1. run'.pc # "write"
      BY <1>8, IdleType DEF Finish, Outcomes
    <2> QED
      BY <1>8, <2>1, QueriesInvKept DEF Finish, filesAndHistory
  <1>9. CASE Abort
    BY <1>9, <1>s, QueriesInvKept DEF Abort, filesAndHistory
  <1>10. CASE UNCHANGED vars
    BY <1>10, QueriesInvKept DEF vars
  <1> QED
    BY <1>1, <1>2, <1>3, <1>4, <1>5, <1>6, <1>7, <1>8, <1>9, <1>10 DEF Next

\* What the user last wrote into a query file is whole in the file or in its
\* backup, whatever number of runs fail or are killed wherever, unless it was
\* saved while a run was converting that file.
THEOREM SpecQueriesSurvive == Spec => []QueriesSurvive
  <1>1. Init => QueriesInv
    BY QueriesInvInit
  <1>2. TypeOK /\ QueriesInv /\ [Next]_vars => QueriesInv'
    BY QueriesInvNext
  <1>3. QueriesInv => QueriesSurvive
    BY DEF QueriesInv, FileSurvives, QueriesSurvive
  <1> QED
    BY <1>1, <1>2, <1>3, SpecTypeOK, PTL DEF Spec

-----------------------------------------------------------------------------
(* scythe.toml. *)

\* A run that is to write it has, unless it is not the user's, the user's own
\* before it.
Fresh ==
  ~again /\ run.pc \in {"back up config", "config"} => toml = ownToml

\* What it read is in the backup; a later text of the user's differs from it.
Copied ==
  /\ run.pc = "config" /\ ~again /\ toml = run.content => tomlBackup = toml
  /\ run.pc = "config" /\ run.content.form = {} =>
       run.content.version <= ownToml.version

ConfigInv ==
  /\ Fresh
  /\ Copied
  /\ toml = Absent => ownToml = Absent
  /\ toml.form = {} => toml.version <= ownToml.version
  /\ ~again /\ ownToml = Absent => tomlBackup = Absent
  /\ ConfigSurvivesOneRun

LEMMA ConfigInvInit == Init => ConfigInv
  BY IdleType, ZeroVersion
     DEF Init, ConfigInv, Fresh, Copied, ConfigSurvivesOneRun, Outcomes, Absent, Own, Write

\* A step that is not about scythe.toml.
LEMMA ConfigInvKept ==
  ASSUME ConfigInv, UNCHANGED <<toml, tomlBackup, ownToml, again>>,
         overtaken \subseteq overtaken' \cup Files,
         run'.pc \in {"back up config", "config"} => UNCHANGED run
  PROVE  ConfigInv'
  BY MigrateBounds DEF ConfigInv, Fresh, Copied, ConfigSurvivesOneRun, Config

LEMMA ConfigInvNext ==
  ASSUME TypeOK, ConfigInv, [Next]_vars
  PROVE  ConfigInv'
  <1>r. RunOK
    BY DEF TypeOK, RunOK, Run
  <1>s. Stops => run'.pc = "idle"
    BY StopsType
  <1>1. ASSUME NEW f \in Files, NEW form \in Contents, EditQueries(f, form)
        PROVE  ConfigInv'
    BY <1>1, ConfigInvKept DEF EditQueries
  <1>2. CASE EditToml
    <2> DEFINE text == Own(ownToml.version + 1)
    <2>1. toml' = text /\ ownToml' = text /\ ~again' /\ UNCHANGED <<tomlBackup, run>>
      BY <1>2 DEF EditToml
    <2>2. text # Absent /\ text.version = ownToml.version + 1
      BY DEF Write, Absent, Own
    <2>3. ownToml.version \in Nat
      BY VersionType DEF TypeOK
    <2>4. run.pc = "config" => text # run.content
      BY <2>2, <2>3 DEF ConfigInv, Copied, Own, Write
    <2>5. Copied'
      <3>1. run.pc = "config" /\ run.content.form = {} =>
              run.content.version <= ownToml.version
        BY DEF ConfigInv, Copied
      <3>2. run.content.version \in Nat
        BY <1>r, VersionType DEF RunOK, Run
      <3> QED
        BY <2>1, <2>2, <2>3, <2>4, <3>1, <3>2 DEF Copied
    <2>6. text.version <= text.version
      BY <2>2, <2>3
    <2> QED
      BY <2>1, <2>2, <2>5, <2>6 DEF ConfigInv, Fresh, ConfigSurvivesOneRun
  <1>3. ASSUME NEW list \in Lists, Start(list)
        PROVE  ConfigInv'
    <2>1. run'.pc = "back up config" /\ UNCHANGED <<toml, tomlBackup, ownToml, overtaken>>
      BY <1>3, IdleType DEF Start, Run, filesAndHistory, Outcomes
    <2>2. ~again' => ~again /\ toml = ownToml
      BY <1>3 DEF Start, ConfigInv, TypeOK
    <2> QED
      BY <2>1, <2>2 DEF ConfigInv, Fresh, Copied, ConfigSurvivesOneRun
  <1>4. CASE BackUpConfig
    <2>1. UNCHANGED <<toml, ownToml, overtaken, again>> /\ run.pc = "back up config"
      BY <1>4 DEF BackUpConfig
    <2>2. ~again => toml = ownToml
      BY <2>1 DEF ConfigInv, Fresh
    <2>3. toml = Absent => UNCHANGED tomlBackup
      BY <1>4 DEF BackUpConfig, ConfigBackedUp
    <2>4. CASE run'.pc = "idle"
      BY <2>1, <2>2, <2>3, <2>4 DEF ConfigInv, Fresh, Copied, ConfigSurvivesOneRun
    <2>5. CASE run' = [run EXCEPT !.pc = "config", !.content = toml]
      <3>1. run'.pc = "config" /\ run'.content = toml
        BY <2>5, <1>r DEF RunOK, Run
      <3>2. ~again => tomlBackup' = toml
        <4>1. CASE toml = Absent
          BY <2>2, <2>3, <4>1 DEF ConfigInv
        <4>2. CASE toml # Absent
          BY <1>4, <1>s, <2>1, <3>1, <4>2 DEF BackUpConfig, ConfigBackedUp
        <4> QED
          BY <4>1, <4>2
      <3> QED
        BY <2>1, <2>2, <3>1, <3>2 DEF ConfigInv, Fresh, Copied, ConfigSurvivesOneRun
    <2> QED
      BY <1>4, <1>s, <2>4, <2>5 DEF BackUpConfig
  <1>5. CASE WriteConfig
    <2>1. run'.pc \in {"idle", "next"} /\ UNCHANGED <<ownToml, tomlBackup, again>>
      BY <1>5, <1>r, <1>s DEF WriteConfig, Step, RunOK, Run
    <2>2. toml'.form = {"scythe"} /\ toml' # Absent
      BY <1>5 DEF WriteConfig, Write, Cut, Absent
    <2>3. ~again /\ toml = run.content => tomlBackup = ownToml
      BY <1>5 DEF WriteConfig, ConfigInv, Fresh, Copied
    <2>4. toml # run.content => Config \in overtaken'
      BY <1>5 DEF WriteConfig, Overtakes
    <2> QED
      BY <2>1, <2>2, <2>3, <2>4 DEF ConfigInv, Fresh, Copied, ConfigSurvivesOneRun
  <1>6. CASE ReadQueries
    <2>1. run'.pc \notin {"back up config", "config"}
      <3>1. run.pc = "next" /\ run.i <= Len(run.list)
        BY <1>6 DEF ReadQueries
      <3>2. Advanced.pc = "next"
        BY <3>1, <1>r, AdvancedType
      <3>3. [run EXCEPT !.pc = "write", !.content = queries[file]].pc = "write"
        BY <1>r DEF RunOK, Run
      <3>4. Idle("error").pc = "idle"
        BY IdleType DEF Outcomes
      <3> QED
        BY <1>6, <1>s, <3>2, <3>3, <3>4 DEF ReadQueries
    <2> QED
      BY <1>6, <2>1, ConfigInvKept DEF ReadQueries
  <1>7. CASE WriteQueries
    <2>0. run.pc # "idle" /\ run.i <= Len(run.list) /\ file \in Files
      BY <1>7, <1>r, FileType DEF WriteQueries, RunOK
    <2>1. run'.pc \notin {"back up config", "config"}
      BY <1>7, <1>s, <1>r, <2>0, AdvancedType DEF WriteQueries
    <2>2. overtaken \subseteq overtaken' \cup Files
      BY <1>7 DEF WriteQueries, Overtakes
    <2> QED
      BY <1>7, <2>1, <2>2, ConfigInvKept DEF WriteQueries
  <1>8. CASE Finish
    <2>1. run'.pc = "idle"
      BY <1>8, IdleType DEF Finish, Outcomes
    <2> QED
      BY <1>8, <2>1, ConfigInvKept DEF Finish, filesAndHistory
  <1>9. CASE Abort
    BY <1>9, <1>s, ConfigInvKept DEF Abort, filesAndHistory
  <1>10. CASE UNCHANGED vars
    BY <1>10, ConfigInvKept DEF vars
  <1> QED
    BY <1>1, <1>2, <1>3, <1>4, <1>5, <1>6, <1>7, <1>8, <1>9, <1>10 DEF Next

\* The user's scythe.toml is whole in place or in its backup, wherever a run
\* fails, as long as no run starts from the file an earlier run wrote.
THEOREM SpecConfigSurvivesOneRun == Spec => []ConfigSurvivesOneRun
  <1>1. Init => ConfigInv
    BY ConfigInvInit
  <1>2. TypeOK /\ ConfigInv /\ [Next]_vars => ConfigInv'
    BY ConfigInvNext
  <1>3. ConfigInv => ConfigSurvivesOneRun
    BY DEF ConfigInv
  <1> QED
    BY <1>1, <1>2, <1>3, SpecTypeOK, PTL DEF Spec

-----------------------------------------------------------------------------
(* What a run that ends well has done. *)

\* Nothing is left in a text that migrate converts or refuses.
Done(text) ==
  /\ text.form \cap {"annotated", "mistyped"} = {}
  /\ "scythe" \in text.form => text.form \cap {"named", "malformed"} = {}

Settled(i) ==
  run.list[i] \notin edited => Done(queries[run.list[i]])

\* What migrate has written holds nothing that it should have converted.
WrittenInv ==
  \A f \in Files :
    "scythe" \in queries[f].form => queries[f].form \cap {"annotated", "named", "malformed"} = {}

\* The part of the list that the run is through with.
Progress ==
  /\ run.pc # "idle" => run.outcome = "none"
  /\ run.pc \in {"back up config", "config"} => run.i = 1
  /\ run.pc # "idle" => \A i \in 1..Len(run.list) : i < run.i => Settled(i)

LEMMA UnconvertedForm ==
  ASSUME NEW text \in Text, Converted(text) = text
  PROVE  "annotated" \notin text.form
  BY DEF Converted, Text

LEMMA WrittenInvInit == Init => WrittenInv
  BY MigrateBounds DEF Init, WrittenInv, Write, Marks

LEMMA WrittenInvNext ==
  ASSUME TypeOK, Prepared, WrittenInv, [Next]_vars
  PROVE  WrittenInv'
  <1>1. ASSUME NEW f \in Files, NEW form \in Contents, EditQueries(f, form)
        PROVE  WrittenInv'
    <2>1. "scythe" \notin form
      BY MigrateBounds DEF Marks
    <2> QED
      BY <1>1, <2>1 DEF EditQueries, Write, WrittenInv, TypeOK
  <1>2. CASE WriteQueries
    <2>0. run.content \in Text /\ run.pc = "write"
      BY <1>2 DEF WriteQueries, TypeOK
    <2>1. PICK now : /\ queries' = [queries EXCEPT ![file] = now]
                     /\ now.form = Converted(run.content).form
      BY <1>2, <2>0, ScytheForm DEF WriteQueries, Prepared
    <2>2. now.form \cap {"annotated", "named", "malformed"} = {}
      BY <2>0, <2>1, ScytheForm DEF Prepared, Refused
    <2> QED
      BY <2>1, <2>2 DEF WrittenInv, TypeOK
  <1>3. CASE UNCHANGED queries
    BY <1>3 DEF WrittenInv
  <1>4. ASSUME NEW list \in Lists, Start(list) PROVE UNCHANGED queries
    BY <1>4 DEF Start, filesAndHistory
  <1>5. EditToml \/ BackUpConfig \/ WriteConfig \/ ReadQueries \/ Finish \/ Abort
          \/ UNCHANGED vars => UNCHANGED queries
    BY DEF EditToml, BackUpConfig, WriteConfig, ReadQueries, Finish, Abort, filesAndHistory, vars
  <1> QED
    BY <1>1, <1>2, <1>3, <1>4, <1>5 DEF Next

LEMMA ProgressInit == Init => Progress
  BY IdleType DEF Init, Progress, Outcomes

\* A step within an entry of the list, or to the next one.
LEMMA ProgressKept ==
  ASSUME TypeOK, Progress, run.pc # "idle", UNCHANGED edited,
         run'.list = run.list, run'.outcome = run.outcome, run'.pc \in {"next", "write"} \/ run'.i = 1,
         run'.i \in Nat, run'.i <= run.i + 1,
         \A f \in Files : Done(queries[f]) => Done(queries'[f]),
         run'.i = run.i + 1 => Done(queries'[file])
  PROVE  Progress'
  <1>1. ASSUME NEW i \in 1..Len(run'.list), i < run'.i
        PROVE  Settled(i)'
    <2>1. run.list[i] \in Files /\ run.i \in Nat
      BY <1>1, ListLength DEF TypeOK
    <2>2. CASE i < run.i
      BY <1>1, <2>1, <2>2 DEF Progress, Settled
    <2>3. CASE i >= run.i
      <3>1. i = run.i /\ run'.i = run.i + 1
        BY <1>1, <2>1, <2>3
      <3> QED
        BY <3>1 DEF Settled, file
    <2> QED
      BY <1>1, <2>1, <2>2, <2>3
  <1> QED
    BY <1>1 DEF Progress

LEMMA ProgressNext ==
  ASSUME TypeOK, Prepared, WrittenInv, Progress, [Next]_vars
  PROVE  Progress'
  <1>r. RunOK
    BY DEF TypeOK, RunOK, Run
  <1>s. Stops => Progress'
    BY StopsType DEF Progress
  <1>i. run.i \in Nat /\ run.i <= run.i + 1 /\ run.i + 1 \in Nat /\ run.content \in Text
    <2>1. run.i \in Nat /\ run.content \in Text
      BY <1>r DEF RunOK, Run
    <2> QED
      BY <2>1
  <1>e. ASSUME NEW outcome \in Outcomes, run' = Idle(outcome) PROVE Progress'
    BY <1>e, IdleType DEF Progress
  <1>1. ASSUME NEW f \in Files, NEW form \in Contents, EditQueries(f, form)
        PROVE  Progress'
    <2>0. queries \in [Files -> Text] /\ UNCHANGED run /\ edited' = edited \cup {f}
          /\ \A g \in Files \ {f} : queries'[g] = queries[g]
      BY <1>1 DEF EditQueries, TypeOK
    <2>1. ASSUME NEW i \in 1..Len(run.list), i < run.i, run.pc # "idle"
          PROVE  Settled(i)'
      <3>1. run.list[i] \in Files
        BY <1>r, <2>1, ListLength DEF RunOK
      <3>2. Settled(i)
        BY <2>1 DEF Progress
      <3> QED
        BY <2>0, <3>1, <3>2 DEF Settled
    <2> QED
      BY <2>0, <2>1 DEF Progress
  <1>2. CASE EditToml
    BY <1>2 DEF EditToml, Progress, Settled
  <1>3. ASSUME NEW list \in Lists, Start(list)
        PROVE  Progress'
    <2>1. run' = [Idle("none") EXCEPT !.pc = "back up config", !.list = list, !.i = 1]
      BY <1>3 DEF Start
    <2>2. run'.i = 1 /\ run'.outcome = "none" /\ run'.list = list
      BY <2>1 DEF Idle
    <2>3. \A i \in 1..Len(run'.list) : ~(i < run'.i)
      BY <2>2, ListLength
    <2> QED
      BY <2>2, <2>3 DEF Progress
  <1>4. CASE BackUpConfig
    <2>1. CASE run' = [run EXCEPT !.pc = "config", !.content = toml]
      <3>1. run'.pc = "config" /\ run'.i = run.i /\ run'.list = run.list /\ run'.outcome = run.outcome
        BY <2>1, <1>r DEF RunOK, Run
      <3> QED
        BY <1>4, <3>1 DEF BackUpConfig, Progress, Settled
    <2> QED
      BY <1>4, <1>s, <2>1 DEF BackUpConfig
  <1>5. CASE WriteConfig
    <2>1. CASE Step("next")
      <3>1. run'.pc = "next" /\ run'.i = run.i /\ run'.list = run.list /\ run'.outcome = run.outcome
        BY <2>1, <1>r DEF Step, RunOK, Run
      <3> QED
        BY <1>5, <3>1 DEF WriteConfig, Progress, Settled
    <2> QED
      BY <1>5, <1>s, <2>1 DEF WriteConfig
  <1>6. CASE ReadQueries
    <2>0. run.pc = "next" /\ run.i <= Len(run.list) /\ file \in Files
      BY <1>6, <1>r, FileType DEF ReadQueries
    <2>1. ASSUME run' = Advanced, ~Refused(queries[file]),
                 Converted(queries[file]) = queries[file]
          PROVE  Progress'
      <3>1. Done(queries[file])
        <4>1. queries[file] \in Text /\ "annotated" \notin queries[file].form
          BY <2>0, <2>1, UnconvertedForm DEF TypeOK
        <4> QED
          BY <2>0, <2>1, <4>1 DEF Refused, Done, WrittenInv
      <3>2. run'.pc = "next" /\ run'.list = run.list /\ run'.i = run.i + 1 /\ run'.outcome = run.outcome
        BY <2>0, <2>1, <1>r, AdvancedType
      <3> QED
        BY <1>6, <1>i, <2>0, <3>1, <3>2, ProgressKept DEF ReadQueries
    <2>2. CASE run' = [run EXCEPT !.pc = "write", !.content = queries[file]]
      <3>1. run'.pc = "write" /\ run'.list = run.list /\ run'.i = run.i /\ run'.outcome = run.outcome
        BY <2>2, <1>r DEF RunOK, Run
      <3> QED
        BY <1>6, <1>i, <2>0, <3>1 DEF ReadQueries, Progress, Settled
    <2> QED
      BY <1>6, <1>s, <1>e, <2>1, <2>2 DEF ReadQueries, Outcomes
  <1>7. CASE WriteQueries
    <2>0. run.pc = "write" /\ run.i <= Len(run.list) /\ file \in Files
      BY <1>7, <1>r, FileType DEF WriteQueries, RunOK
    <2>1. ASSUME queries' = [queries EXCEPT ![file] = Converted(run.content)],
                 run' = Advanced
          PROVE  Progress'
      <3>1. run'.pc = "next" /\ run'.list = run.list /\ run'.i = run.i + 1 /\ run'.outcome = run.outcome
        BY <2>0, <2>1, <1>r, AdvancedType
      <3>2. Done(Converted(run.content))
        BY <1>i, <2>0, ScytheForm DEF Prepared, Refused, Done
      <3>3. queries'[file] = Converted(run.content)
            /\ \A g \in Files \ {file} : queries'[g] = queries[g]
        BY <2>0, <2>1 DEF TypeOK
      <3>4. UNCHANGED edited
        BY <1>7 DEF WriteQueries
      <3> QED
        BY <1>i, <2>0, <3>1, <3>2, <3>3, <3>4, ProgressKept
    <2> QED
      BY <1>7, <1>s, <2>1 DEF WriteQueries
  <1>8. CASE Finish
    BY <1>8, <1>e DEF Finish, Outcomes
  <1>9. CASE Abort
    BY <1>9, <1>s DEF Abort
  <1>10. CASE UNCHANGED vars
    BY <1>10 DEF vars, Progress, Settled
  <1> QED
    BY <1>1, <1>2, <1>3, <1>4, <1>5, <1>6, <1>7, <1>8, <1>9, <1>10 DEF Next

\* Only Finish ends a run well, with the whole list done.
LEMMA EndsWell ==
  ASSUME TypeOK, Progress, [Next]_vars, run'.outcome = "ok", run.pc # "idle"
  PROVE  \A i \in DOMAIN run.list : Settled(i)
  <1>r. RunOK
    BY DEF TypeOK, RunOK, Run
  <1>1. run.outcome = "none"
    BY DEF Progress
  <1>2. run'.outcome # run.outcome
    BY <1>1
  <1>3. Finish
    <2>1. ~Stops
      BY DEF Stops, Idle
    <2>2. ~UNCHANGED run
      BY <1>2
    <2>3. ~BackUpConfig /\ ~WriteConfig
      <3>1. [run EXCEPT !.pc = "config", !.content = toml].outcome = "none"
        BY <1>1, <1>r DEF RunOK, Run
      <3>2. [run EXCEPT !.pc = "next"].outcome = "none"
        BY <1>1, <1>r DEF RunOK, Run
      <3> QED
        BY <2>1, <3>1, <3>2 DEF BackUpConfig, WriteConfig, Step
    <2>4. ~ReadQueries /\ ~WriteQueries
      <3>1. Advanced.outcome = "none" /\ Idle("error").outcome = "error"
        BY <1>1, <1>r DEF Advanced, RunOK, Run, Idle
      <3>2. [run EXCEPT !.pc = "write", !.content = queries[file]].outcome = "none"
        BY <1>1, <1>r DEF RunOK, Run
      <3> QED
        BY <2>1, <3>1, <3>2 DEF ReadQueries, WriteQueries
    <2>5. ~Abort /\ ~EditToml
      BY <2>1, <2>2 DEF Abort, EditToml
    <2>6. \A f \in Files, form \in Contents : ~EditQueries(f, form)
      BY <2>2 DEF EditQueries
    <2>7. \A list \in Lists : ~Start(list)
      BY DEF Start
    <2> QED
      BY <2>2, <2>3, <2>4, <2>5, <2>6, <2>7 DEF Next, vars
  <1>4. run.i \in Nat /\ run.i > Len(run.list) /\ run.list \in Lists
    BY <1>3, <1>r DEF Finish, RunOK, Run
  <1>5. DOMAIN run.list = 1..Len(run.list) /\ Len(run.list) \in Nat
    BY <1>4, MigrateBounds
  <1>6. ASSUME NEW i \in 1..Len(run.list) PROVE Settled(i)
    <2>1. i < run.i
      BY <1>4, <1>5
    <2> QED
      BY <2>1 DEF Progress
  <1> QED
    BY <1>5, <1>6

\* A run that ends well has left no annotation unconverted at the beginning of
\* a line, and no sqlc.arg or sqlc.narg in a file it converted, but for what the
\* user edited during the run.
THEOREM SpecSuccessMeansConverted == Spec => SuccessMeansConverted
  <1>1. TypeOK /\ Progress /\ [Next]_vars =>
          [run'.outcome = "ok" /\ run.pc # "idle" => \A i \in DOMAIN run.list : Settled(i)]_vars
    BY EndsWell
  <1>2. TypeOK /\ QueriesInv /\ WrittenInv /\ Progress /\ [Next]_vars => Progress' /\ WrittenInv'
    BY ProgressNext, WrittenInvNext DEF QueriesInv
  <1>3. TypeOK /\ QueriesInv /\ [Next]_vars => QueriesInv'
    BY QueriesInvNext
  <1> QED
    BY <1>1, <1>2, <1>3, ProgressInit, WrittenInvInit, QueriesInvInit, SpecTypeOK, PTL
       DEF Spec, SuccessMeansConverted, Settled, Done
=============================================================================
