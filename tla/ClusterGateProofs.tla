--------------------------- MODULE ClusterGateProofs ---------------------------
(* `scythe audit --cluster-scope' fails closed: whatever the files, the sizes *)
(* of the pipes and of what is sent through them, and whatever the helpers do. *)
EXTENDS ClusterGate, TLAPS

-----------------------------------------------------------------------------
(* Types. *)

InputFile == [readable : BOOLEAN, statements : Seq(Statement)]

Codes == {"SC-CLUSTER01", "SC-CLUSTER02", "SC-CLUSTER03", "SC-CLUSTER04"}

Jobs == [mode : {"none", "file", "plpgsql", "sql"}, body : Bodies \cup {"none"}]

\* The conjuncts of TypeOK about the gate, and those about the pipes.
GateOK ==
  /\ files \in Inputs
  /\ file \in 1..Len(files) + 1
  /\ findings \subseteq Codes
  /\ job \in Jobs
  /\ rest \in Seq(Statement)
  /\ pc \in {"next", "sending", "waiting", "writing", "ended"}
  /\ pc \in {"sending", "waiting"} => job # NoJob
  /\ job.mode = "file" => file <= Len(files)
  /\ report \in {"old", "truncated", "new"}
  /\ status \in {"running", "clean", "findings", "error", "write error"}

HelperType ==
  [state : {"none", "reading", "answering", "exited"}, code : {0, 1},
   out : 0..MaxAmount, err : 0..MaxAmount, valid : BOOLEAN]

PipesType ==
  [stdin : 0..Capacity, stdout : 0..Capacity, stderr : 0..Capacity, open : BOOLEAN]

PipesOK == toSend \in 0..MaxAmount /\ helper \in HelperType /\ pipes \in PipesType

LEMMA TypeParts == TypeOK <=> GateOK /\ PipesOK
  BY DEF TypeOK, GateOK, PipesOK, Codes, Jobs, HelperType, PipesType

LEMMA FilesType ==
  ASSUME GateOK
  PROVE  /\ files \in Seq(InputFile)
         /\ Len(files) \in Nat
         /\ \A f \in 1..Len(files) :
              files[f] \in InputFile /\ files[f].statements \in Seq(Statement)
  <1>1. files \in Seq(InputFile)
    BY GateInputs DEF GateOK, InputFile
  <1>2. Len(files) \in Nat /\ \A f \in 1..Len(files) : files[f] \in InputFile
    BY <1>1
  <1>3. \A input \in InputFile : input.statements \in Seq(Statement)
    BY DEF InputFile
  <1> QED
    BY <1>1, <1>2, <1>3

LEMMA NothingType ==
  NoJob \in Jobs /\ NoHelper \in HelperType /\ NoPipes \in PipesType /\ NoJob.mode = "none"
  <1>1. 0 \in 0..MaxAmount /\ 0 \in 0..Capacity
    BY GateBounds
  <1> QED
    BY <1>1 DEF NoJob, Job, Jobs, NoHelper, HelperType, NoPipes, PipesType

LEMMA TypeOKInit == Init => TypeOK
  <1> SUFFICES ASSUME Init PROVE TypeOK
    OBVIOUS
  <1>0. files \in Inputs
    BY DEF Init
  <1>a. files \in Seq(InputFile)
    BY <1>0, GateInputs DEF InputFile
  <1>1. Len(files) \in Nat
    BY <1>a
  <1>2. GateOK
    BY <1>1, NothingType DEF Init, GateOK
  <1>3. PipesOK
    BY NothingType, GateBounds DEF Init, PipesOK
  <1> QED
    BY <1>2, <1>3, TypeParts

LEMMA GateKept == ASSUME GateOK, UNCHANGED <<gateVars, pc>> PROVE GateOK'
  BY DEF GateOK, gateVars

LEMMA TopLevelType == \A s \in Statement : TopLevel(s) \subseteq Codes
  BY DEF TopLevel, Codes

LEMMA InBodyType == \A body : InBody(body) \subseteq Codes
  BY DEF InBody, Codes

LEMMA FileDoneType ==
  ASSUME GateOK, FileDone
  PROVE  file' \in 1..Len(files) + 1
  <1>1. Len(files) \in Nat /\ file \in 1..Len(files) + 1
    BY FilesType DEF GateOK
  <1>2. CASE job.mode = "file"
    <2>1. file <= Len(files) /\ file' = file + 1
      BY <1>2 DEF GateOK, FileDone
    <2> QED
      BY <1>1, <2>1
  <1>3. CASE job.mode # "file"
    BY <1>1, <1>3 DEF FileDone
  <1> QED
    BY <1>2, <1>3

LEMMA UnparsedOK ==
  ASSUME GateOK, Unparsed
  PROVE  GateOK'
  <1>1. file' \in 1..Len(files) + 1
    BY FileDoneType DEF Unparsed
  <1>2. findings' \subseteq Codes
    BY DEF GateOK, Unparsed, Codes
  <1> QED
    BY <1>1, <1>2, NothingType DEF GateOK, Unparsed

LEMMA EntersType ==
  ASSUME NEW s \in Statement, s.kind \in Entered
  PROVE  Job(s.kind, s.body) \in Jobs
  BY DEF Statement, Entered, Job, Jobs

LEMMA FinishOK ==
  ASSUME GateOK, Finish
  PROVE  GateOK'
  <1>1. CASE ~Believed
    BY <1>1, UnparsedOK DEF Finish
  <1>2. CASE Believed
    <2>1. file' \in 1..Len(files) + 1
      BY <1>2, FileDoneType DEF Finish
    <2>2. rest' \in Seq(Statement)
      <3>1. job.mode = "file" => file \in 1..Len(files)
        <4>1. Len(files) \in Nat /\ file \in 1..Len(files) + 1
          BY FilesType DEF GateOK
        <4>2. job.mode = "file" => file <= Len(files)
          BY DEF GateOK
        <4> QED
          BY <4>1, <4>2
      <3>2. CASE job.mode = "file"
        BY <1>2, <3>1, <3>2, FilesType DEF Finish
      <3>3. CASE job.mode # "file"
        BY <1>2, <3>3 DEF Finish, GateOK
      <3> QED
        BY <3>2, <3>3
    <2>3. findings' \subseteq Codes
      BY <1>2, InBodyType DEF GateOK, Finish
    <2>4. job' \in Jobs /\ job'.mode \in {"none", "sql"}
      <3>1. Job("sql", job.body) \in Jobs
        BY DEF GateOK, Job, Jobs
      <3>2. Job("sql", job.body).mode = "sql"
        BY DEF Job
      <3> QED
        BY <1>2, <3>1, <3>2, NothingType DEF Finish
    <2>5. /\ UNCHANGED <<files, report, status>>
          /\ pc' = "next"
      BY <1>2 DEF Finish
    <2> QED
      BY <2>1, <2>2, <2>3, <2>4, <2>5 DEF GateOK
  <1> QED
    BY <1>1, <1>2

LEMMA TypeOKNext == TypeOK /\ [Next]_vars => TypeOK'
  <1> SUFFICES ASSUME TypeOK, [Next]_vars PROVE TypeOK'
    OBVIOUS
  <1>g. GateOK /\ PipesOK
    BY TypeParts
  <1>p. UNCHANGED <<toSend, helper, pipes>> => PipesOK'
    BY <1>g DEF PipesOK
  <1>q. GateOK' /\ PipesOK' => TypeOK'
    BY TypeParts, PTL
  <1>n. NoHelper \in HelperType /\ NoPipes \in PipesType /\ 0 \in 0..MaxAmount
    BY NothingType, GateBounds
  <1>1. CASE NextFile
    <2>1. Job("file", "none") \in Jobs
      BY DEF Job, Jobs
    <2>2. GateOK'
      BY <1>1, <1>g, <2>1, FilesType DEF NextFile, End, GateOK, NoJob, Job
    <2> QED
      BY <1>1, <1>p, <1>q, <2>2 DEF NextFile
  <1>2. CASE StartHelper
    <2>1. GateOK'
      BY <1>2, <1>g DEF StartHelper, GateOK, Opened
    <2>2. PipesOK'
      BY <1>2, <1>n DEF StartHelper, PipesOK, HelperType, PipesType
    <2> QED
      BY <1>q, <2>1, <2>2
  <1>3. CASE NoExecutable
    BY <1>3, <1>g, <1>p, <1>q, UnparsedOK DEF NoExecutable
  <1>4. CASE Send
    <2>1. GateOK'
      BY <1>4, <1>g, GateKept DEF Send
    <2>2. toSend' \in 0..MaxAmount /\ pipes.stdin + 1 \in 0..Capacity
      BY <1>4, <1>g, GateBounds DEF Send, PipesOK, PipesType
    <2>3. PipesOK'
      BY <1>4, <1>g, <2>2 DEF Send, PipesOK, PipesType
    <2> QED
      BY <1>q, <2>1, <2>3
  <1>5. CASE BrokenPipe
    <2>1. PipesOK'
      BY <1>5, <1>n DEF BrokenPipe, PipesOK
    <2> QED
      BY <1>5, <1>g, <1>q, <2>1, UnparsedOK DEF BrokenPipe
  <1>6. CASE Sent
    <2>1. GateOK'
      BY <1>6, <1>g DEF Sent, GateOK, gateVars
    <2>2. PipesOK'
      BY <1>6, <1>g DEF Sent, PipesOK, PipesType, Closed
    <2> QED
      BY <1>q, <2>1, <2>2
  <1>7. ASSUME NEW output \in {"stdout", "stderr"}, Receive(output)
        PROVE  TypeOK'
    <2>1. GateOK'
      BY <1>7, <1>g, GateKept DEF Receive
    <2>2. pipes[output] - 1 \in 0..Capacity
      BY <1>7, <1>g, GateBounds DEF Receive, PipesOK, PipesType
    <2>3. PipesOK'
      BY <1>7, <1>g, <2>2 DEF Receive, PipesOK, PipesType
    <2> QED
      BY <1>q, <2>1, <2>3
  <1>8. CASE Finish
    <2>1. PipesOK'
      BY <1>8, <1>g, <1>n DEF Finish, PipesOK
    <2> QED
      BY <1>8, <1>g, <1>q, <2>1, FinishOK
  <1>9. CASE Classify
    <2> DEFINE s == Head(rest)
    <2>0. rest \in Seq(Statement) /\ rest # <<>>
      BY <1>9, <1>g DEF Classify, GateOK
    <2>1. s \in Statement /\ Tail(rest) \in Seq(Statement)
      BY <2>0
    <2>2. job' \in Jobs /\ job'.mode # "file"
      BY <1>9, <2>1, EntersType, NothingType DEF Classify, Job, Entered
    <2>3. findings' \subseteq Codes
      BY <1>9, <1>g, <2>1, TopLevelType DEF Classify, GateOK
    <2>4. GateOK'
      BY <1>9, <1>g, <2>1, <2>2, <2>3 DEF Classify, GateOK
    <2> QED
      BY <1>9, <1>p, <1>q, <2>4 DEF Classify
  <1>10. CASE OpenReport
    <2>1. GateOK'
      BY <1>10, <1>g DEF OpenReport, End, GateOK
    <2> QED
      BY <1>10, <1>p, <1>q, <2>1 DEF OpenReport
  <1>11. CASE WriteReport
    <2>1. GateOK'
      BY <1>11, <1>g DEF WriteReport, End, GateOK
    <2> QED
      BY <1>11, <1>p, <1>q, <2>1 DEF WriteReport
  <1>12. CASE Helper
    <2>1. GateOK'
      BY <1>12, <1>g, GateKept DEF Helper, ReadInput, Answer, WriteOutput, Exit
    <2>2. CASE ReadInput
      <3>1. pipes.stdin - 1 \in 0..Capacity
        BY <1>g, <2>2, GateBounds DEF ReadInput, PipesOK, PipesType
      <3> QED
        BY <1>g, <1>q, <2>1, <2>2, <3>1 DEF ReadInput, PipesOK, PipesType
    <2>3. CASE Answer
      <3>1. \A amount \in 1..MaxAmount : amount \in 0..MaxAmount
        BY GateBounds
      <3>2. helper' \in HelperType
        <4>1. \A amount \in 1..MaxAmount, valid \in BOOLEAN :
                /\ [state |-> "answering", code |-> 0, out |-> amount, err |-> 0,
                    valid |-> valid] \in HelperType
                /\ [state |-> "answering", code |-> 1, out |-> 0, err |-> amount,
                    valid |-> FALSE] \in HelperType
          BY <1>n, <3>1 DEF HelperType
        <4> QED
          BY <2>3, <4>1 DEF Answer
      <3> QED
        BY <1>g, <1>q, <2>1, <2>3, <3>2 DEF Answer, PipesOK
    <2>4. CASE WriteOutput
      <3>1. CASE /\ helper.out > 0 /\ pipes.stdout < Capacity
                 /\ helper' = [helper EXCEPT !.out = @ - 1]
                 /\ pipes' = [pipes EXCEPT !.stdout = @ + 1]
        <4>1. helper.out - 1 \in 0..MaxAmount /\ pipes.stdout + 1 \in 0..Capacity
          BY <1>g, <3>1, GateBounds DEF PipesOK, PipesType, HelperType
        <4> QED
          BY <1>g, <1>q, <2>1, <2>4, <3>1, <4>1 DEF WriteOutput, PipesOK, PipesType, HelperType
      <3>2. CASE /\ helper.err > 0 /\ pipes.stderr < Capacity
                 /\ helper' = [helper EXCEPT !.err = @ - 1]
                 /\ pipes' = [pipes EXCEPT !.stderr = @ + 1]
        <4>1. helper.err - 1 \in 0..MaxAmount /\ pipes.stderr + 1 \in 0..Capacity
          BY <1>g, <3>2, GateBounds DEF PipesOK, PipesType, HelperType
        <4> QED
          BY <1>g, <1>q, <2>1, <2>4, <3>2, <4>1 DEF WriteOutput, PipesOK, PipesType, HelperType
      <3> QED
        BY <2>4, <3>1, <3>2 DEF WriteOutput
    <2>5. CASE Exit
      BY <1>g, <1>q, <2>1, <2>5 DEF Exit, PipesOK, HelperType
    <2> QED
      BY <1>12, <2>2, <2>3, <2>4, <2>5 DEF Helper
  <1>13. CASE Die
    <2>1. GateOK'
      BY <1>13, <1>g, GateKept DEF Die
    <2>2. 0 \in 0..MaxAmount /\ 0 \in 0..Capacity
      BY GateBounds
    <2>3. PipesOK'
      BY <1>13, <1>g, <2>2 DEF Die, PipesOK, PipesType, HelperType
    <2> QED
      BY <1>q, <2>1, <2>3
  <1>14. CASE UNCHANGED vars
    BY <1>14, <1>g, <1>p, <1>q, GateKept DEF vars, gateVars
  <1> QED
    BY <1>1, <1>2, <1>3, <1>4, <1>5, <1>6, <1>7, <1>8, <1>9, <1>10, <1>11, <1>12, <1>13, <1>14
       DEF Next, Command, Ended

\* Every reachable state of the gate is well typed.
THEOREM SpecTypeOK == Spec => []TypeOK
  <1>1. Init => TypeOK
    BY TypeOKInit
  <1>2. TypeOK /\ [Next]_vars => TypeOK'
    BY TypeOKNext
  <1> QED
    BY <1>1, <1>2, PTL DEF Spec
-----------------------------------------------------------------------------
(* The report: nothing is opened before every input has been gated.        *)

Untouched ==
  /\ pc \in {"next", "sending", "waiting"} => report = "old" /\ status = "running"
  /\ pc = "writing" => status = "running"
  /\ status = "error" => report = "old"
  /\ status = "clean" => pc = "ended"

LEMMA UnparsedUntouched == ASSUME Unparsed, report = "old", status = "running" PROVE Untouched'
  BY DEF Unparsed, Untouched

LEMMA UntouchedNext ==
  ASSUME Untouched, [Next]_vars
  PROVE  Untouched'
  <1>1. CASE NextFile
    BY <1>1 DEF NextFile, End, Untouched
  <1>2. CASE StartHelper
    BY <1>2 DEF StartHelper, Opened, Untouched
  <1>3. CASE NoExecutable
    BY <1>3, UnparsedUntouched DEF NoExecutable, Untouched
  <1>4. CASE BrokenPipe
    BY <1>4, UnparsedUntouched DEF BrokenPipe, Untouched
  <1>5. CASE Sent
    BY <1>5 DEF Sent, gateVars, Untouched
  <1>6. CASE Finish
    <2>1. report = "old" /\ status = "running"
      BY <1>6 DEF Finish, Untouched
    <2>2. CASE Believed
      BY <1>6, <2>1, <2>2 DEF Finish, Untouched
    <2>3. CASE ~Believed
      BY <1>6, <2>1, <2>3, UnparsedUntouched DEF Finish
    <2> QED
      BY <2>2, <2>3
  <1>7. CASE Classify
    BY <1>7 DEF Classify, Untouched
  <1>8. CASE OpenReport
    BY <1>8 DEF OpenReport, End, Untouched
  <1>9. CASE WriteReport
    BY <1>9 DEF WriteReport, End, Untouched
  <1>10. ASSUME UNCHANGED <<gateVars, pc>>
         PROVE  Untouched'
    BY <1>10 DEF gateVars, Untouched
  <1>11. CASE Send \/ (\E output \in {"stdout", "stderr"} : Receive(output)) \/ Helper \/ Die
    <2>1. UNCHANGED <<gateVars, pc>>
      BY <1>11 DEF Send, Receive, Helper, ReadInput, Answer, WriteOutput, Exit, Die
    <2> QED
      BY <1>10, <2>1
  <1>12. CASE UNCHANGED vars
    BY <1>10, <1>12 DEF vars, gateVars
  <1> QED
    BY <1>1, <1>2, <1>3, <1>4, <1>5, <1>6, <1>7, <1>8, <1>9, <1>11, <1>12
       DEF Next, Command, Ended

\* open_output comes after the last input is gated, so no failure before the
\* writing of the new report costs the user the old one.
THEOREM SpecReportSurvivesErrors == Spec => []ReportSurvivesErrors
  <1>1. Init => Untouched
    BY DEF Init, Untouched
  <1>2. Untouched /\ [Next]_vars => Untouched'
    BY UntouchedNext
  <1>3. Untouched => ReportSurvivesErrors
    BY DEF Untouched, ReportSurvivesErrors
  <1> QED
    BY <1>1, <1>2, <1>3, PTL DEF Spec

-----------------------------------------------------------------------------
(* A clean exit: as long as there is no finding, every statement of a file  *)
(* that is through is without fault or still to be looked at.               *)

Cleared(s) ==
  \/ s.kind = "local"
  \/ s.kind \in Entered /\ s.body \notin {"cluster", "dynamic"}

LEMMA ClearedIsLocal ==
  ASSUME NEW s \in Statement, Cleared(s)
  PROVE  PassedOver(s) \/ ProvenLocal(s)
  <1>1. s.kind \in Kinds /\ s.body \in Bodies \cup {"none"} /\ (s.body = "none" => s.kind \in Plain)
    BY DEF Statement
  <1>2. CASE s.kind = "local"
    BY <1>2 DEF ProvenLocal
  <1>3. CASE s.kind \in Entered
    <2>1. s.body \in Bodies \ {"cluster", "dynamic"}
      BY <1>1, <1>3 DEF Cleared, Entered, Plain
    <2> QED
      BY <1>3, <2>1 DEF Bodies, Plain, Procedural, PassedOver, ProvenLocal
  <1> QED
    BY <1>2, <1>3 DEF Cleared

Pending(s) ==
  \/ \E i \in DOMAIN rest : rest[i] = s
  \/ job.mode \in Entered /\ s.kind \in Entered /\ s.body = job.body

Settled(s) == Cleared(s) \/ Pending(s)

Looked(f) ==
  files[f].readable /\ \A i \in DOMAIN files[f].statements : Settled(files[f].statements[i])

Through ==
  /\ findings = {} => \A f \in 1..file - 1 : Looked(f)
  /\ job.mode = "file" => rest = <<>> /\ files[file].readable
  /\ pc = "writing" \/ status = "clean" => job = NoJob /\ rest = <<>> /\ file > Len(files)
  /\ status = "clean" => findings = {}

FailsClosed == TypeOK /\ Untouched /\ Through

LEMMA UnparsedThrough ==
  ASSUME FailsClosed, Unparsed, status = "running"
  PROVE  Through'
  BY NothingType DEF Unparsed, Through, NoJob, Job

LEMMA ThroughAreFiles == ASSUME GateOK PROVE \A f \in 1..file - 1 : f \in 1..Len(files)
  <1>1. Len(files) \in Nat /\ file \in 1..Len(files) + 1
    BY FilesType DEF GateOK
  <1> QED
    BY <1>1

\* With nothing to look at, what is settled is without fault.
LEMMA NothingPending ==
  ASSUME NEW s, Settled(s), job = NoJob, rest = <<>>
  PROVE  Cleared(s)
  BY DEF Settled, Pending, NoJob, Job, Entered

\* The files that are through stay so.
LEMMA LookedKept ==
  ASSUME TypeOK, files' = files, \A s \in Statement : Settled(s) => Settled(s)'
  PROVE  \A f \in 1..Len(files) : Looked(f) => Looked(f)'
  <1> SUFFICES ASSUME NEW f \in 1..Len(files), Looked(f) PROVE Looked(f)'
    OBVIOUS
  <1>1. files[f].statements \in Seq(Statement)
    BY FilesType, TypeParts
  <1>2. \A i \in DOMAIN files[f].statements : files[f].statements[i] \in Statement
    BY <1>1
  <1>3. \A i \in DOMAIN files[f].statements : Settled(files[f].statements[i])'
    BY <1>2 DEF Looked
  <1> QED
    BY <1>3 DEF Looked

LEMMA FinishThrough ==
  ASSUME FailsClosed, Finish
  PROVE  Through'
  <1>0. TypeOK /\ GateOK /\ Through /\ status = "running"
    BY TypeParts DEF FailsClosed, Untouched, Finish
  <1>1. CASE ~Believed
    BY <1>0, <1>1, UnparsedThrough DEF Finish
  <1>2. CASE Believed
    <2>1. files' = files /\ status' = status /\ pc' = "next" /\ FileDone
      BY <1>2 DEF Finish
    <2>2. job' = NoJob \/ job' = Job("sql", job.body)
      BY <1>2 DEF Finish
    <2>3. job'.mode # "file"
      BY <2>2 DEF NoJob, Job
    <2>4. \A f \in 1..file - 1 : f \in 1..Len(files)
      BY <1>0, ThroughAreFiles
    <2>5. CASE job.mode = "file"
      <3>1. rest = <<>> /\ files[file].readable /\ file \in 1..Len(files)
        BY <1>0, <2>5, FilesType DEF Through, GateOK
      <3>2. rest' = files[file].statements /\ findings' = findings /\ file' = file + 1
        BY <1>2, <2>1, <2>5 DEF Finish, FileDone
      <3>n. PICK n : n = file
        OBVIOUS
      <3>3. Looked(n)'
        BY <2>1, <3>1, <3>2, <3>n DEF Looked, Settled, Pending
      <3>4. \A s \in Statement : Settled(s) => Settled(s)'
        BY <2>5, <3>1 DEF Settled, Pending, Cleared, Entered
      <3>5. \A f \in 1..Len(files) : Looked(f) => Looked(f)'
        BY <1>0, <2>1, <3>4, LookedKept
      <3>6. findings' = {} => \A f \in 1..file' - 1 : Looked(f)'
        <4>1. \A f \in 1..file' - 1 : f \in 1..file - 1 \/ f = n
          BY <3>1, <3>2, <3>n
        <4> QED
          BY <1>0, <2>4, <3>2, <3>3, <3>5, <4>1 DEF Through
      <3> QED
        BY <1>0, <2>1, <2>3, <3>6 DEF Through
    <2>6. CASE job.mode # "file"
      <3>1. rest' = rest /\ file' = file
        BY <1>2, <2>1, <2>6 DEF Finish, FileDone
      <3>2. ASSUME findings' = {}
            PROVE  findings = {} /\ \A s \in Statement : Settled(s) => Settled(s)'
        <4>1. CASE Embedded
          <5>1. findings' = findings /\ job' = Job("sql", job.body)
            BY <1>2, <4>1 DEF Finish
          <5>2. job'.mode \in Entered /\ job'.body = job.body
            BY <5>1 DEF Job, Entered
          <5> QED
            BY <3>1, <3>2, <5>1, <5>2 DEF Settled, Pending, Cleared
        <4>2. CASE ~Embedded
          <5>1. findings' = findings \cup InBody(job.body)
            BY <1>2, <2>6, <4>2 DEF Finish
          <5>2. InBody(job.body) = {}
            BY <3>2, <5>1
          <5>3. job.body \notin {"cluster", "dynamic"}
            BY <5>2 DEF InBody
          <5>4. findings = {}
            BY <3>2, <5>1
          <5> QED
            BY <3>1, <5>3, <5>4 DEF Settled, Pending, Cleared
        <4> QED
          BY <4>1, <4>2
      <3>3. findings' = {} => \A f \in 1..file' - 1 : Looked(f)'
        BY <1>0, <2>1, <2>4, <3>1, <3>2, LookedKept DEF Through
      <3> QED
        BY <1>0, <2>1, <2>3, <3>3 DEF Through
    <2> QED
      BY <2>5, <2>6
  <1> QED
    BY <1>1, <1>2

LEMMA ClassifyThrough ==
  ASSUME FailsClosed, Classify
  PROVE  Through'
  <1>0. TypeOK /\ GateOK /\ Through /\ status = "running"
    BY TypeParts DEF FailsClosed, Untouched, Classify
  <1>h. PICK h : h = Head(rest)
    OBVIOUS
  <1>1. rest \in Seq(Statement) /\ rest # <<>>
    BY <1>0 DEF GateOK, Classify
  <1>2. \A i \in DOMAIN rest : rest[i] = h \/ \E k \in DOMAIN Tail(rest) : Tail(rest)[k] = rest[i]
    <2> SUFFICES ASSUME NEW i \in DOMAIN rest, i # 1
                 PROVE  \E k \in DOMAIN Tail(rest) : Tail(rest)[k] = rest[i]
      BY <1>1, <1>h
    <2>1. i - 1 \in DOMAIN Tail(rest) /\ Tail(rest)[i - 1] = rest[i]
      BY <1>1
    <2> QED
      BY <2>1
  <1>3. h \in Statement
    BY <1>1, <1>h
  <1>4. job = NoJob /\ job'.mode # "file"
    BY <1>3, <1>h DEF Classify, NoJob, Job, Entered
  <1>5. ASSUME findings' = {}
        PROVE  findings = {} /\ \A s \in Statement : Settled(s) => Settled(s)'
    <2>1. findings = {} /\ TopLevel(h) = {}
      BY <1>5, <1>h DEF Classify
    <2>2. h.kind \notin {"cluster", "unlisted", "other"}
      BY <2>1 DEF TopLevel
    <2>3. h.kind = "local" \/ h.kind \in Entered
      BY <1>3, <2>2 DEF Statement, Kinds, Plain, Entered
    <2>4. Settled(h)'
      <3>1. CASE h.kind = "local"
        BY <3>1 DEF Settled, Cleared
      <3>2. CASE h.kind \in Entered
        <4>1. job' = Job(h.kind, h.body)
          BY <3>2, <1>h DEF Classify
        <4>2. job'.mode = h.kind /\ job'.body = h.body
          BY <4>1 DEF Job
        <4> QED
          BY <3>2, <4>2 DEF Settled, Pending
      <3> QED
        BY <2>3, <3>1, <3>2
    <2>5. rest' = Tail(rest)
      BY DEF Classify
    <2> SUFFICES ASSUME NEW s \in Statement, Settled(s) PROVE Settled(s)'
      BY <2>1
    <2>6. CASE Cleared(s)
      BY <2>6 DEF Settled, Cleared
    <2>7. CASE Pending(s)
      <3>1. PICK i \in DOMAIN rest : rest[i] = s
        BY <1>4, <2>7 DEF Pending, NoJob, Job, Entered
      <3>2. CASE s = h
        BY <2>4, <3>2
      <3>3. CASE \E k \in DOMAIN Tail(rest) : Tail(rest)[k] = s
        BY <2>5, <3>3 DEF Settled, Pending
      <3> QED
        BY <1>2, <3>1, <3>2, <3>3
    <2> QED
      BY <2>6, <2>7 DEF Settled
  <1>6. files' = files /\ file' = file /\ status' = status /\ pc' = "next"
    BY DEF Classify
  <1>7. \A f \in 1..file - 1 : f \in 1..Len(files)
    BY <1>0, ThroughAreFiles
  <1>8. findings' = {} => \A f \in 1..file' - 1 : Looked(f)'
    BY <1>0, <1>5, <1>6, <1>7, LookedKept DEF Through
  <1> QED
    BY <1>0, <1>4, <1>6, <1>8 DEF Through

LEMMA ThroughNext ==
  ASSUME FailsClosed, [Next]_vars
  PROVE  Through'
  <1>0. TypeOK /\ GateOK /\ Untouched /\ Through
    BY TypeParts DEF FailsClosed
  <1>1. CASE NextFile
    <2>1. files' = files /\ file' = file /\ rest' = rest /\ findings' = findings
          /\ job = NoJob /\ rest = <<>>
      BY <1>1 DEF NextFile
    <2>2. \A s \in Statement : Settled(s) => Settled(s)'
      BY <2>1, NothingPending DEF Settled, Cleared
    <2>3. findings' = {} => \A f \in 1..file' - 1 : Looked(f)'
      <3>1. \A f \in 1..file - 1 : f \in 1..Len(files)
        BY <1>0, ThroughAreFiles
      <3> QED
        BY <1>0, <2>1, <2>2, <3>1, LookedKept DEF Through
    <2>4. CASE files[file].readable
      <3>1. job'.mode = "file" /\ pc' = "next" /\ status' = "running"
        BY <1>0, <1>1, <2>4 DEF NextFile, Job, Untouched
      <3> QED
        BY <2>1, <2>3, <2>4, <3>1 DEF Through
    <2>5. CASE ~files[file].readable
      <3>1. job' = NoJob /\ pc' = "ended" /\ status' = "error"
        BY <1>1, <2>1, <2>5 DEF NextFile, End
      <3>2. job'.mode # "file"
        BY <3>1 DEF NoJob, Job
      <3> QED
        BY <2>3, <3>1, <3>2 DEF Through
    <2> QED
      BY <2>4, <2>5
  <1>2. ASSUME UNCHANGED <<files, file, job, rest, findings, status>>, pc' # "writing" \/ pc' = pc
        PROVE  Through'
    BY <1>0, <1>2 DEF Through, Looked, Settled, Pending, Cleared
  <1>3. CASE StartHelper \/ Send \/ Sent \/ (\E output \in {"stdout", "stderr"} : Receive(output))
             \/ Helper \/ Die \/ UNCHANGED vars
    <2>1. UNCHANGED <<files, file, job, rest, findings, status>> /\ (pc' # "writing" \/ pc' = pc)
      BY <1>3 DEF StartHelper, Send, Sent, Receive, Helper, ReadInput, Answer, WriteOutput, Exit,
                  Die, vars, gateVars
    <2> QED
      BY <1>2, <2>1
  <1>4. CASE NoExecutable \/ BrokenPipe
    BY <1>0, <1>4, UnparsedThrough DEF NoExecutable, BrokenPipe, Untouched
  <1>5. CASE Finish
    BY <1>5, FinishThrough
  <1>6. CASE Classify
    BY <1>6, ClassifyThrough
  <1>7. CASE OpenReport \/ WriteReport
    <2>1. UNCHANGED <<files, file, job, rest, findings>> /\ job = NoJob /\ rest = <<>>
          /\ file > Len(files)
      BY <1>0, <1>7 DEF OpenReport, WriteReport, Through
    <2>2. status' = "clean" => findings' = {}
      BY <1>0, <1>7 DEF OpenReport, WriteReport, End, Through, Untouched
    <2>3. findings' = {} => \A f \in 1..file' - 1 : Looked(f)'
      BY <1>0, <2>1 DEF Through, Looked, Settled, Pending, Cleared
    <2>4. job'.mode # "file"
      BY <2>1 DEF NoJob, Job
    <2> QED
      BY <2>1, <2>2, <2>3, <2>4 DEF Through
  <1> QED
    BY <1>1, <1>3, <1>4, <1>5, <1>6, <1>7 DEF Next, Command, Ended

\* Fail closed (cluster_scope/mod.rs): whatever the helpers do, a clean exit
\* follows the classification of every statement of every file and, but for the
\* bodies the walk passes over, of what each routine holds.
THEOREM SpecCleanMeansLocal == Spec => []CleanMeansLocal
  <1>1. Init => FailsClosed
    <2>1. Init => TypeOK
      BY TypeOKInit
    <2>2. Init => Untouched /\ Through
      BY DEF Init, Untouched, Through, NoJob, Job
    <2> QED
      BY <2>1, <2>2 DEF FailsClosed
  <1>2. FailsClosed /\ [Next]_vars => FailsClosed'
    BY TypeOKNext, UntouchedNext, ThroughNext DEF FailsClosed
  <1>3. FailsClosed => CleanMeansLocal
    <2> SUFFICES ASSUME FailsClosed, status = "clean", NEW f \in DOMAIN files
                 PROVE  /\ files[f].readable
                        /\ \A i \in DOMAIN files[f].statements :
                             \/ PassedOver(files[f].statements[i])
                             \/ ProvenLocal(files[f].statements[i])
      BY DEF CleanMeansLocal
    <2>1. GateOK /\ Through
      BY TypeParts DEF FailsClosed
    <2>2. f \in 1..file - 1
      <3>1. files \in Seq(InputFile) /\ Len(files) \in Nat
        BY <2>1, FilesType
      <3>2. f \in 1..Len(files)
        BY <3>1
      <3>3. file \in 1..Len(files) + 1 /\ file > Len(files)
        BY <2>1 DEF GateOK, Through
      <3> QED
        BY <3>1, <3>2, <3>3
    <2>3. Looked(f) /\ job = NoJob /\ rest = <<>>
      BY <2>1, <2>2 DEF Through
    <2>4. \A i \in DOMAIN files[f].statements :
            files[f].statements[i] \in Statement /\ Cleared(files[f].statements[i])
      <3>1. files[f].statements \in Seq(Statement)
        BY <2>1, FilesType, TypeParts DEF FailsClosed
      <3> QED
        BY <2>3, <3>1, NothingPending DEF Looked
    <2> QED
      BY <2>3, <2>4, ClearedIsLocal DEF Looked
  <1> QED
    BY <1>1, <1>2, <1>3, PTL DEF Spec

-----------------------------------------------------------------------------
(* The command ends: no state in which both processes wait, and no step     *)
(* that does not bring the end nearer.                                      *)

\* Where the command and its helper can be together.
HandOver ==
  /\ helper.state = "none" <=> pc \notin {"sending", "waiting"}
  /\ helper.state = "none" => toSend = 0
  /\ pc = "waiting" => toSend = 0
  /\ helper.state = "reading" =>
       helper.out = 0 /\ helper.err = 0 /\ pipes.stdout = 0 /\ pipes.stderr = 0
  /\ helper.state = "answering" => pc = "waiting"
  /\ pipes.open <=> pc = "sending"
  /\ job.mode = "none" => job = NoJob

LEMMA HandOverInit == Init => HandOver
  BY DEF Init, HandOver, NoHelper, NoPipes

LEMMA UnparsedHandOver ==
  ASSUME Unparsed, helper' = NoHelper, pipes' = NoPipes, toSend' = 0
  PROVE  HandOver'
  BY DEF Unparsed, HandOver, NoHelper, NoPipes

\* Steps of the pipes alone, by the process that takes them.
LEMMA PipesHandOver ==
  ASSUME TypeOK, HandOver, Send \/ (\E output \in {"stdout", "stderr"} : Receive(output))
                             \/ Helper \/ Die
  PROVE  HandOver'
  <1>0. PipesOK
    BY TypeParts
  <1>1. CASE Send
    BY <1>0, <1>1, GateBounds DEF Send, HandOver, gateVars, PipesOK, PipesType
  <1>2. ASSUME NEW output \in {"stdout", "stderr"}, Receive(output)
        PROVE  HandOver'
    <2>1. helper.state # "reading"
      BY <1>2 DEF Receive, HandOver
    <2>2. pipes'.open = pipes.open
      BY <1>0, <1>2 DEF Receive, PipesOK, PipesType
    <2> QED
      BY <1>2, <2>1, <2>2 DEF Receive, HandOver, gateVars
  <1>3. CASE ReadInput
    <2>1. /\ pipes'.open = pipes.open
          /\ pipes'.stdout = pipes.stdout
          /\ pipes'.stderr = pipes.stderr
      BY <1>0, <1>3 DEF ReadInput, PipesOK, PipesType
    <2> QED
      BY <1>3, <2>1 DEF ReadInput, HandOver, gateVars
  <1>4. CASE Answer
    <2>1. helper'.state = "answering" /\ helper.state = "reading" /\ ~pipes.open
      BY <1>4 DEF Answer
    <2>2. pc = "waiting"
      BY <2>1 DEF HandOver
    <2> QED
      BY <1>4, <2>1, <2>2 DEF Answer, HandOver, gateVars
  <1>5. CASE WriteOutput
    <2>1. helper'.state = "answering" /\ pipes'.open = pipes.open
      BY <1>0, <1>5 DEF WriteOutput, PipesOK, PipesType, HelperType
    <2> QED
      BY <1>5, <2>1 DEF WriteOutput, HandOver, gateVars
  <1>6. CASE Exit
    <2>1. helper'.state = "exited"
      BY <1>0, <1>6 DEF Exit, PipesOK, HelperType
    <2> QED
      BY <1>6, <2>1 DEF Exit, HandOver, gateVars
  <1>7. CASE Die
    <2>1. helper'.state = "exited" /\ pipes'.open = pipes.open
      BY <1>0, <1>7 DEF Die, PipesOK, PipesType, HelperType
    <2> QED
      BY <1>7, <2>1 DEF Die, HandOver, gateVars
  <1> QED
    BY <1>1, <1>2, <1>3, <1>4, <1>5, <1>6, <1>7 DEF Helper

LEMMA HandOverNext ==
  ASSUME TypeOK, HandOver, [Next]_vars
  PROVE  HandOver'
  <1>0. GateOK /\ PipesOK
    BY TypeParts
  <1>1. CASE NextFile
    BY <1>1 DEF NextFile, End, HandOver, Job
  <1>2. CASE StartHelper
    BY <1>2 DEF StartHelper, HandOver, NoHelper, NoPipes
  <1>3. CASE NoExecutable
    BY <1>3 DEF NoExecutable, Unparsed, HandOver
  <1>4. CASE BrokenPipe
    BY <1>4, UnparsedHandOver DEF BrokenPipe
  <1>5. CASE Sent
    <2>1. pipes' = [pipes EXCEPT !.open = FALSE]
      BY <1>5 DEF Sent, Closed
    <2>2. ~pipes'.open /\ pipes'.stdout = pipes.stdout /\ pipes'.stderr = pipes.stderr
      BY <1>0, <2>1 DEF PipesOK, PipesType
    <2> QED
      BY <1>5, <2>2 DEF Sent, HandOver, gateVars
  <1>6. CASE Finish
    <2>1. toSend' = 0 /\ helper' = NoHelper /\ pipes' = NoPipes
      BY <1>6 DEF Finish, HandOver
    <2>2. CASE Believed
      <3>1. pc' = "next" /\ (job' = NoJob \/ job'.mode = "sql")
        BY <1>6, <2>2 DEF Finish, Job
      <3>2. job'.mode = "none" => job' = NoJob
        BY <3>1
      <3> QED
        BY <2>1, <3>1, <3>2 DEF HandOver, NoHelper, NoPipes
    <2>3. CASE ~Believed
      BY <1>6, <2>1, <2>3, UnparsedHandOver DEF Finish
    <2> QED
      BY <2>2, <2>3
  <1>7. CASE Classify
    <2>1. job'.mode = "none" => job' = NoJob
      BY <1>7 DEF Classify, Job, Entered
    <2> QED
      BY <1>7, <2>1 DEF Classify, HandOver
  <1>8. CASE OpenReport \/ WriteReport
    BY <1>8 DEF OpenReport, WriteReport, End, HandOver
  <1>9. CASE UNCHANGED vars
    BY <1>9 DEF vars, HandOver
  <1> QED
    BY <1>1, <1>2, <1>3, <1>4, <1>5, <1>6, <1>7, <1>8, <1>9, PipesHandOver
       DEF Next, Command, Ended

LEMMA SpecHandOver == Spec => [](TypeOK /\ HandOver)
  <1>1. Init => TypeOK /\ HandOver
    BY TypeOKInit, HandOverInit
  <1>2. TypeOK /\ HandOver /\ [Next]_vars => (TypeOK /\ HandOver)'
    BY TypeOKNext, HandOverNext
  <1> QED
    BY <1>1, <1>2, PTL DEF Spec

\* The guards of the command's steps, and those of the helper's.  At "next" one
\* of the steps can always be taken: there is a job, or a statement to look at,
\* or a file, or the report to open.
CommandReady ==
  \/ pc = "next"
  \/ pc = "sending" /\ (toSend = 0 \/ helper.state = "exited" \/ pipes.stdin < Capacity)
  \/ pc = "waiting" /\ (pipes.stdout > 0 \/ pipes.stderr > 0 \/ helper.state = "exited")
  \/ pc = "writing"

HelperReady ==
  \/ helper.state = "reading" /\ (pipes.stdin > 0 \/ ~pipes.open)
  \/ /\ helper.state = "answering"
     /\ \/ helper.out > 0 /\ pipes.stdout < Capacity
        \/ helper.err > 0 /\ pipes.stderr < Capacity
        \/ helper.out = 0 /\ helper.err = 0

NoStandoff == pc # "ended" => CommandReady \/ HelperReady

\* The command writes before it reads and the helper reads before it writes,
\* and yet they never wait for each other, however little the pipes hold and
\* however much is sent: HelperSet::parse drops stdin before wait_with_output,
\* which reads both outputs.
THEOREM SpecNoStandoff == Spec => []NoStandoff
  <1>1. TypeOK /\ HandOver => NoStandoff
    <2> SUFFICES ASSUME TypeOK, HandOver, pc # "ended", ~CommandReady
                 PROVE  HelperReady
      BY DEF NoStandoff
    <2>1. GateOK /\ PipesOK
      BY TypeParts
    <2>2. pc \in {"sending", "waiting"}
      BY <2>1 DEF GateOK, CommandReady
    <2>3. helper.state \in {"reading", "answering"}
      <3>1. helper.state \in {"none", "reading", "answering", "exited"}
        BY <2>1 DEF PipesOK, HelperType
      <3>2. helper.state # "none"
        BY <2>2 DEF HandOver
      <3>3. helper.state # "exited"
        BY <2>2 DEF CommandReady
      <3> QED
        BY <3>1, <3>2, <3>3
    <2>4. CASE pc = "sending"
      <3>1. helper.state = "reading"
        BY <2>3, <2>4 DEF HandOver
      <3>2. pipes.stdin > 0
        BY <2>1, <2>4, GateBounds DEF CommandReady, PipesOK, PipesType
      <3> QED
        BY <3>1, <3>2 DEF HelperReady
    <2>5. CASE pc = "waiting"
      <3>1. ~pipes.open
        BY <2>5 DEF HandOver
      <3>2. CASE helper.state = "reading"
        BY <3>1, <3>2 DEF HelperReady
      <3>3. CASE helper.state = "answering"
        <4>1. pipes.stdout < Capacity /\ pipes.stderr < Capacity
          BY <2>1, <2>5, GateBounds DEF CommandReady, PipesOK, PipesType
        <4>2. helper.out \in Nat /\ helper.err \in Nat
          BY <2>1, GateBounds DEF PipesOK, HelperType
        <4> QED
          BY <3>3, <4>1, <4>2 DEF HelperReady
      <3> QED
        BY <2>3, <3>2, <3>3
    <2> QED
      BY <2>2, <2>4, <2>5
  <1> QED
    BY <1>1, SpecHandOver, PTL

\* What a run has left to do, most significant first: files, statements of the
\* file, parses of the statement, stages of the parse, units in and for the pipes.
FilesLeft == Len(files) + 1 - file

ParsesLeft ==
  CASE job.mode = "plpgsql" -> 3
    [] job.mode = "sql"     -> 2
    [] job.mode = "none"    -> 1
    [] job.mode = "file"    -> 0

StagesLeft ==
  CASE pc = "next"    -> 4
    [] pc = "sending" -> 3
    [] pc = "waiting" -> 2
    [] pc = "writing" -> 1
    [] pc = "ended"   -> 0

\* A helper that reads may still answer with as much as MaxAmount.
HelperLeft ==
  CASE helper.state = "reading"   -> 2 * MaxAmount + 2
    [] helper.state = "answering" -> 2 * (helper.out + helper.err) + 1
    [] OTHER                      -> 0

UnitsLeft == 2 * toSend + pipes.stdin + pipes.stdout + pipes.stderr + HelperLeft

Shrinks ==
  \/ FilesLeft' < FilesLeft
  \/ /\ FilesLeft' = FilesLeft
     /\ \/ Len(rest') < Len(rest)
        \/ /\ Len(rest') = Len(rest)
           /\ \/ ParsesLeft' < ParsesLeft
              \/ /\ ParsesLeft' = ParsesLeft
                 /\ \/ StagesLeft' < StagesLeft
                    \/ StagesLeft' = StagesLeft /\ UnitsLeft' < UnitsLeft

\* Each of the five is a natural number, so that Shrinks is well-founded.
LeftIsNatural ==
  /\ FilesLeft \in Nat
  /\ Len(rest) \in Nat
  /\ ParsesLeft \in Nat
  /\ StagesLeft \in Nat
  /\ UnitsLeft \in Nat

LEMMA HelperLeftType == ASSUME PipesOK PROVE HelperLeft \in Nat
  <1>1. MaxAmount \in Nat /\ helper.out \in Nat /\ helper.err \in Nat
    BY GateBounds DEF PipesOK, HelperType
  <1> QED
    BY <1>1 DEF HelperLeft

LEMMA PipesAreNumbers ==
  ASSUME PipesOK
  PROVE  /\ toSend \in Nat
         /\ pipes.stdin \in Nat
         /\ pipes.stdout \in Nat
         /\ pipes.stderr \in Nat
  BY GateBounds DEF PipesOK, PipesType

LEMMA TypeOKLeft == TypeOK => LeftIsNatural
  <1> SUFFICES ASSUME TypeOK PROVE LeftIsNatural
    OBVIOUS
  <1>0. GateOK /\ PipesOK
    BY TypeParts
  <1>1. FilesLeft \in Nat
    <2>1. Len(files) \in Nat /\ file \in 1..Len(files) + 1
      BY <1>0, FilesType DEF GateOK
    <2> QED
      BY <2>1 DEF FilesLeft
  <1>2. Len(rest) \in Nat
    <2>1. rest \in Seq(Statement)
      BY <1>0 DEF GateOK
    <2> QED
      BY <2>1
  <1>3. ParsesLeft \in Nat
    <2>1. job.mode \in {"none", "file", "plpgsql", "sql"}
      BY <1>0 DEF GateOK, Jobs
    <2> QED
      BY <2>1 DEF ParsesLeft
  <1>4. StagesLeft \in Nat
    BY <1>0 DEF GateOK, StagesLeft
  <1>5. UnitsLeft \in Nat
    BY <1>0, HelperLeftType, PipesAreNumbers DEF UnitsLeft
  <1> QED
    BY <1>1, <1>2, <1>3, <1>4, <1>5 DEF LeftIsNatural

\* A job given up, or done without another one following, was of a file or not.
LEMMA JobDoneShrinks ==
  ASSUME GateOK, HandOver, job # NoJob, job' = NoJob, files' = files, FileDone,
         job.mode = "file" \/ rest' = rest
  PROVE  Shrinks
  <1>1. Len(files) \in Nat /\ file \in 1..Len(files) + 1
    BY FilesType DEF GateOK
  <1>2. CASE job.mode = "file"
    <2>1. file' = file + 1
      BY <1>2 DEF FileDone
    <2> QED
      BY <1>1, <2>1 DEF Shrinks, FilesLeft
  <1>3. CASE job.mode # "file"
    <2>1. file' = file /\ rest' = rest
      BY <1>3 DEF FileDone
    <2>2. job.mode \in {"plpgsql", "sql"}
      BY <1>3 DEF GateOK, Jobs, HandOver
    <2>3. job'.mode = "none"
      BY DEF NoJob, Job
    <2>4. ParsesLeft' = 1 /\ ParsesLeft \in {2, 3}
      BY <2>2, <2>3 DEF ParsesLeft
    <2> QED
      BY <2>1, <2>4 DEF Shrinks, FilesLeft
  <1> QED
    BY <1>2, <1>3

LEMMA StageShrinks ==
  ASSUME UNCHANGED <<files, file, job, rest>>, StagesLeft' < StagesLeft
  PROVE  Shrinks
  BY DEF Shrinks, FilesLeft, ParsesLeft

LEMMA UnitsShrink ==
  ASSUME UNCHANGED <<gateVars, pc>>, UnitsLeft' < UnitsLeft
  PROVE  Shrinks
  BY DEF Shrinks, FilesLeft, ParsesLeft, StagesLeft, gateVars

LEMMA PipesShrink ==
  ASSUME TypeOK, HandOver, Send \/ (\E output \in {"stdout", "stderr"} : Receive(output))
                             \/ Helper \/ Die
  PROVE  Shrinks
  <1>0. PipesOK /\ HelperLeft \in Nat
    BY TypeParts, HelperLeftType
  <1>n. toSend \in Nat /\ pipes.stdin \in Nat /\ pipes.stdout \in Nat /\ pipes.stderr \in Nat
    BY <1>0, PipesAreNumbers
  <1>u. UNCHANGED <<gateVars, pc>>
    BY DEF Send, Receive, Helper, ReadInput, Answer, WriteOutput, Exit, Die
  <1>1. CASE Send
    <2>1. /\ toSend' = toSend - 1
          /\ pipes'.stdin = pipes.stdin + 1
          /\ pipes'.stdout = pipes.stdout
          /\ pipes'.stderr = pipes.stderr
          /\ HelperLeft' = HelperLeft
      BY <1>0, <1>1 DEF Send, PipesOK, PipesType, HelperLeft
    <2> QED
      BY <1>0, <1>n, <1>u, <2>1, UnitsShrink DEF UnitsLeft
  <1>2. ASSUME NEW output \in {"stdout", "stderr"}, Receive(output)
        PROVE  Shrinks
    <2>1. HelperLeft' = HelperLeft /\ toSend' = toSend
      BY <1>2 DEF Receive, HelperLeft
    <2>2. pipes'.stdin = pipes.stdin
      BY <1>0, <1>2 DEF Receive, PipesOK, PipesType
    <2>3. \/ pipes'.stdout = pipes.stdout - 1 /\ pipes'.stderr = pipes.stderr
          \/ pipes'.stdout = pipes.stdout /\ pipes'.stderr = pipes.stderr - 1
      <3>1. CASE output = "stdout"
        BY <1>0, <1>2, <3>1 DEF Receive, PipesOK, PipesType
      <3>2. CASE output = "stderr"
        BY <1>0, <1>2, <3>2 DEF Receive, PipesOK, PipesType
      <3> QED
        BY <3>1, <3>2
    <2> QED
      BY <1>0, <1>n, <1>u, <2>1, <2>2, <2>3, UnitsShrink DEF UnitsLeft
  <1>3. CASE ReadInput
    <2>1. /\ toSend' = toSend
          /\ pipes'.stdin = pipes.stdin - 1
          /\ pipes'.stdout = pipes.stdout
          /\ pipes'.stderr = pipes.stderr
          /\ HelperLeft' = HelperLeft
      BY <1>0, <1>3 DEF ReadInput, PipesOK, PipesType, HelperLeft
    <2> QED
      BY <1>0, <1>n, <1>u, <2>1, UnitsShrink DEF UnitsLeft
  <1>4. CASE Answer
    <2>1. HelperLeft = 2 * MaxAmount + 2
      BY <1>4 DEF Answer, HelperLeft
    <2>2. PICK amount \in 1..MaxAmount :
            \/ helper'.out = amount /\ helper'.err = 0
            \/ helper'.out = 0 /\ helper'.err = amount
      BY <1>4 DEF Answer
    <2>3. helper'.state = "answering"
      BY <1>4 DEF Answer
    <2>4. HelperLeft' = 2 * amount + 1
      BY <2>2, <2>3 DEF HelperLeft
    <2>5. HelperLeft' < HelperLeft /\ HelperLeft' \in Nat
      BY <2>1, <2>2, <2>4, GateBounds
    <2>6. toSend' = toSend /\ pipes' = pipes
      BY <1>4 DEF Answer
    <2> QED
      BY <1>0, <1>n, <1>u, <2>5, <2>6, UnitsShrink DEF UnitsLeft
  <1>5. CASE WriteOutput
    <2>0. helper.out \in Nat /\ helper.err \in Nat /\ helper.state = "answering"
      BY <1>0, <1>5, GateBounds DEF PipesOK, HelperType, WriteOutput
    <2>1. helper'.state = "answering" /\ toSend' = toSend
      BY <1>0, <1>5 DEF WriteOutput, PipesOK, HelperType
    <2>2. CASE /\ helper' = [helper EXCEPT !.out = @ - 1]
               /\ pipes' = [pipes EXCEPT !.stdout = @ + 1]
      <3>1. helper'.out = helper.out - 1 /\ helper'.err = helper.err
        BY <1>0, <2>2 DEF PipesOK, HelperType
      <3>2. /\ pipes'.stdin = pipes.stdin
            /\ pipes'.stdout = pipes.stdout + 1
            /\ pipes'.stderr = pipes.stderr
        BY <1>0, <2>2 DEF PipesOK, PipesType
      <3>3. HelperLeft' = HelperLeft - 2
        BY <2>0, <2>1, <3>1 DEF HelperLeft
      <3> QED
        BY <1>0, <1>n, <1>u, <2>1, <3>2, <3>3, UnitsShrink DEF UnitsLeft
    <2>3. CASE /\ helper' = [helper EXCEPT !.err = @ - 1]
               /\ pipes' = [pipes EXCEPT !.stderr = @ + 1]
      <3>1. helper'.out = helper.out /\ helper'.err = helper.err - 1
        BY <1>0, <2>3 DEF PipesOK, HelperType
      <3>2. /\ pipes'.stdin = pipes.stdin
            /\ pipes'.stdout = pipes.stdout
            /\ pipes'.stderr = pipes.stderr + 1
        BY <1>0, <2>3 DEF PipesOK, PipesType
      <3>3. HelperLeft' = HelperLeft - 2
        BY <2>0, <2>1, <3>1 DEF HelperLeft
      <3> QED
        BY <1>0, <1>n, <1>u, <2>1, <3>2, <3>3, UnitsShrink DEF UnitsLeft
    <2> QED
      BY <1>5, <2>2, <2>3 DEF WriteOutput
  <1>6. CASE Exit
    <2>1. helper'.state = "exited" /\ helper.state = "answering" /\ helper.out = 0 /\ helper.err = 0
      BY <1>0, <1>6 DEF Exit, PipesOK, HelperType
    <2>2. HelperLeft' = 0 /\ HelperLeft = 1
      BY <2>1 DEF HelperLeft
    <2>3. toSend' = toSend /\ pipes' = pipes
      BY <1>6 DEF Exit
    <2> QED
      BY <1>n, <1>u, <2>2, <2>3, UnitsShrink DEF UnitsLeft
  <1>7. CASE Die
    <2>1. helper'.state = "exited" /\ helper.state \in {"reading", "answering"}
      BY <1>0, <1>7 DEF Die, PipesOK, HelperType
    <2>2. helper.out \in Nat /\ helper.err \in Nat /\ MaxAmount \in Nat
      BY <1>0, GateBounds DEF PipesOK, HelperType
    <2>3. HelperLeft' = 0 /\ HelperLeft > 0
      BY <2>1, <2>2 DEF HelperLeft
    <2>4. /\ toSend' = toSend
          /\ pipes'.stdin = 0
          /\ pipes'.stdout = pipes.stdout
          /\ pipes'.stderr = pipes.stderr
      BY <1>0, <1>7 DEF Die, PipesOK, PipesType
    <2> QED
      BY <1>0, <1>n, <1>u, <2>3, <2>4, UnitsShrink DEF UnitsLeft
  <1> QED
    BY <1>1, <1>2, <1>3, <1>4, <1>5, <1>6, <1>7 DEF Helper

LEMMA NextShrinks ==
  ASSUME TypeOK, HandOver, Command \/ Helper \/ Die
  PROVE  Shrinks
  <1>0. GateOK /\ PipesOK
    BY TypeParts
  <1>1. CASE NextFile
    <2>1. UNCHANGED <<files, file, rest>>
      BY <1>1 DEF NextFile
    <2>2. CASE files[file].readable
      <3>1. job.mode = "none" /\ job'.mode = "file"
        BY <1>1, <2>2 DEF NextFile, NoJob, Job
      <3>2. ParsesLeft = 1 /\ ParsesLeft' = 0
        BY <3>1 DEF ParsesLeft
      <3> QED
        BY <2>1, <3>2 DEF Shrinks, FilesLeft
    <2>3. CASE ~files[file].readable
      <3>1. job' = job /\ pc = "next" /\ pc' = "ended"
        BY <1>1, <2>3 DEF NextFile, End
      <3>2. StagesLeft = 4 /\ StagesLeft' = 0
        BY <3>1 DEF StagesLeft
      <3> QED
        BY <2>1, <3>1, <3>2, StageShrinks
    <2> QED
      BY <2>2, <2>3
  <1>2. CASE StartHelper \/ Sent \/ OpenReport \/ WriteReport
    <2>1. UNCHANGED <<files, file, job, rest>>
      BY <1>2 DEF StartHelper, Sent, OpenReport, WriteReport, gateVars
    <2>2. \/ pc = "next" /\ pc' \in {"sending", "writing", "ended"}
          \/ pc = "sending" /\ pc' = "waiting"
          \/ pc = "writing" /\ pc' = "ended"
      BY <1>2 DEF StartHelper, Sent, OpenReport, WriteReport, End
    <2>3. StagesLeft' < StagesLeft
      BY <2>2 DEF StagesLeft
    <2> QED
      BY <2>1, <2>3, StageShrinks
  <1>3. CASE NoExecutable \/ BrokenPipe
    <2>1. job # NoJob /\ Unparsed
      BY <1>0, <1>3 DEF NoExecutable, BrokenPipe, GateOK
    <2> QED
      BY <1>0, <2>1, JobDoneShrinks DEF Unparsed
  <1>4. CASE Finish
    <2>1. job # NoJob
      BY <1>0, <1>4 DEF Finish, GateOK
    <2>2. CASE ~Believed
      <3>1. Unparsed
        BY <1>4, <2>2 DEF Finish
      <3> QED
        BY <1>0, <2>1, <3>1, JobDoneShrinks DEF Unparsed
    <2>3. CASE Believed /\ ~Embedded
      <3>1. job' = NoJob /\ files' = files /\ FileDone /\ (job.mode = "file" \/ rest' = rest)
        BY <1>4, <2>3 DEF Finish
      <3> QED
        BY <1>0, <2>1, <3>1, JobDoneShrinks
    <2>4. CASE Believed /\ Embedded
      <3>1. job.mode = "plpgsql"
        BY <2>4 DEF Embedded
      <3>2. job' = Job("sql", job.body) /\ files' = files /\ FileDone /\ rest' = rest
        BY <1>4, <2>4, <3>1 DEF Finish
      <3>3. file' = file /\ job'.mode = "sql"
        BY <3>1, <3>2 DEF FileDone, Job
      <3>4. ParsesLeft = 3 /\ ParsesLeft' = 2
        BY <3>1, <3>3 DEF ParsesLeft
      <3> QED
        BY <3>2, <3>3, <3>4 DEF Shrinks, FilesLeft
    <2> QED
      BY <2>2, <2>3, <2>4
  <1>5. CASE Classify
    <2>1. UNCHANGED <<files, file>> /\ rest' = Tail(rest) /\ rest # <<>> /\ rest \in Seq(Statement)
      BY <1>0, <1>5 DEF Classify, GateOK
    <2>2. Len(rest') < Len(rest)
      BY <2>1
    <2> QED
      BY <2>1, <2>2 DEF Shrinks, FilesLeft
  <1> QED
    BY <1>1, <1>2, <1>3, <1>4, <1>5, PipesShrink DEF Command

\* Every step of the command or of a helper, a helper's death included, leaves
\* less to do: a run takes finitely many steps, and by SpecNoStandoff one can
\* be taken until it has ended.  No fairness is assumed: what CommandEnds needs
\* beyond this is that a process that can take a step takes it.
THEOREM SpecShrinks == Spec => [](LeftIsNatural) /\ [][Shrinks]_vars
  <1>1. TypeOK => LeftIsNatural
    BY TypeOKLeft
  <1>2. TypeOK /\ HandOver /\ [Next]_vars => [Shrinks]_vars
    BY NextShrinks DEF Next, Ended
  <1> QED
    BY <1>1, <1>2, SpecHandOver, PTL DEF Spec
=============================================================================
