----------------------------- MODULE ClusterGate -----------------------------
(***************************************************************************)
(* `scythe audit --cluster-scope': each input file, and each routine body  *)
(* found in it, is parsed by a helper process of its own; the command      *)
(* writes the SQL to the helper's standard input, closes it, reads both    *)
(* outputs to their ends and waits for the exit.                           *)
(* (crates/scythe-cli/src/commands/audit.rs and audit/cluster_scope.)      *)
(*                                                                         *)
(* Pipes hold a bounded amount; an amount is a number of pipe units.       *)
(***************************************************************************)
EXTENDS Naturals, Sequences

CONSTANTS
  Inputs,     \* the lists of input files a run may be given
  Capacity,   \* what a pipe holds
  MaxAmount   \* bound: of SQL sent, of an answer, of an error message

ASSUME GateBounds == Capacity \in Nat \ {0} /\ MaxAmount \in Nat \ {0}

VARIABLES
  files,     \* the input files: can they be read, and their statements
  file,      \* the one being gated
  job,       \* what is being parsed, if anything
  rest,      \* statements of the file that are not classified yet
  findings,  \* codes of the findings so far
  pc,        \* of the command
  toSend,    \* SQL not written yet
  helper,    \* the child process
  pipes,     \* what stdin, stdout and stderr hold
  report,    \* the --output file: "old", "truncated" or "new"
  status     \* how the command ended

vars == <<files, file, job, rest, findings, pc, toSend, helper, pipes, report, status>>

gateVars == <<files, file, job, rest, findings, report, status>>

-----------------------------------------------------------------------------
(* Statements, by what policy::classify makes of their node. *)

Plain == {"local", "cluster", "unlisted"}

\* A routine, in a language the gate enters or another one.
Entered == {"plpgsql", "sql"}
Kinds == Plain \cup Entered \cup {"other"}

\* Statements of PL/pgSQL itself: an EXECUTE of pieces dynamic_sql_allowed can
\* follow ("proven") or not ("dynamic"); an EXECUTE that is part of another
\* statement, FOR ... IN EXECUTE, RETURN QUERY EXECUTE, OPEN ... FOR EXECUTE
\* ("executing"); any other that runs a query, PERFORM, CALL ("evaluating").
Procedural == {"proven", "dynamic", "executing", "evaluating"}

\* A routine's body holds one statement: static SQL, one of PL/pgSQL, or a
\* routine again.
Bodies == Plain \cup Procedural \cup {"routine"}

\* Statements that are no routine have no body.
Statement == {s \in [kind : Kinds, body : Bodies \cup {"none"}] :
                /\ (s.body = "none") = (s.kind \in Plain)
                /\ s.kind = "sql" => s.body \notin Procedural}

\* An input file: whether it can be read and is not blank, and what it holds.
File(readable, statements) == [readable |-> readable, statements |-> statements]

ASSUME GateInputs ==
  Inputs \subseteq Seq([readable : BOOLEAN, statements : Seq(Statement)])

\* What is parsed: the file, or in SQL or PL/pgSQL the body of a routine.
Job(mode, body) == [mode |-> mode, body |-> body]
NoJob == Job("none", "none")

NoHelper == [state |-> "none", code |-> 0, out |-> 0, err |-> 0, valid |-> FALSE]

NoPipes == [stdin |-> 0, stdout |-> 0, stderr |-> 0, open |-> FALSE]

Init ==
  /\ files \in Inputs
  /\ file = 1
  /\ job = NoJob
  /\ rest = <<>>
  /\ findings = {}
  /\ pc = "next"
  /\ toSend = 0
  /\ helper = NoHelper
  /\ pipes = NoPipes
  /\ report = "old"
  /\ status = "running"

-----------------------------------------------------------------------------
(* The command: cluster_scope::run, run_cluster_scope_gate. *)

End(outcome) == pc' = "ended" /\ status' = outcome

\* An input that cannot be read or is blank ends the run, with what was found
\* in the files before it.
NextFile ==
  /\ pc = "next"
  /\ job = NoJob
  /\ rest = <<>>
  /\ file <= Len(files)
  /\ IF files[file].readable
     THEN job' = Job("file", "none") /\ UNCHANGED <<pc, status>>
     ELSE End("error") /\ UNCHANGED job
  /\ UNCHANGED <<files, file, rest, findings, toSend, helper, pipes, report>>

\* A mutation of Opened: the sink is opened before the inputs are gated.
OpenedFirst == "truncated"

\* open_output truncates the file, once every input has been gated.
Opened == report

\* HelperSet::parse: spawn, if there is an executable.
StartHelper ==
  /\ pc = "next"
  /\ job # NoJob
  /\ \E amount \in 0..MaxAmount :
       /\ toSend' = amount
       /\ helper' = [NoHelper EXCEPT !.state = "reading"]
       /\ pipes' = [NoPipes EXCEPT !.open = TRUE]
       /\ pc' = "sending"
  /\ report' = Opened
  /\ UNCHANGED <<files, file, job, rest, findings, status>>

\* A mutation of FileDone: every parse takes the command to the next file.
FileDoneAlways == file' = file + 1

\* A file is through when it is parsed or given up.
FileDone == file' = IF job.mode = "file" THEN file + 1 ELSE file

\* The job at hand could not be parsed: a finding, and on to the next.
Unparsed ==
  /\ findings' = findings \cup {"SC-CLUSTER04"}
  /\ job' = NoJob
  /\ FileDone
  /\ pc' = "next"
  /\ UNCHANGED <<files, rest, report, status>>

\* No helper there, not executable, or spawn fails.
NoExecutable ==
  /\ pc = "next"
  /\ job # NoJob
  /\ Unparsed
  /\ UNCHANGED <<toSend, helper, pipes>>

\* write_all, one unit at a time.
Send ==
  /\ pc = "sending"
  /\ toSend > 0
  /\ helper.state # "exited"
  /\ pipes.stdin < Capacity
  /\ toSend' = toSend - 1
  /\ pipes' = [pipes EXCEPT !.stdin = @ + 1]
  /\ UNCHANGED <<gateVars, pc, helper>>

\* The helper is gone: the error is returned at once, without a wait.
BrokenPipe ==
  /\ pc = "sending"
  /\ toSend > 0
  /\ helper.state = "exited"
  /\ Unparsed
  /\ helper' = NoHelper
  /\ pipes' = NoPipes
  /\ toSend' = 0

\* A mutation of Closed: the handle outlives the wait.
ClosedNever == TRUE

\* stdin was taken out of the child and is dropped after the write.
Closed == FALSE

Sent ==
  /\ pc = "sending"
  /\ toSend = 0
  /\ pipes' = [pipes EXCEPT !.open = Closed]
  /\ pc' = "waiting"
  /\ UNCHANGED <<gateVars, toSend, helper>>

\* wait_with_output reads both outputs as they come.
Drained == {"stdout", "stderr"}

Receive(output) ==
  /\ pc = "waiting"
  /\ output \in Drained
  /\ pipes[output] > 0
  /\ pipes' = [pipes EXCEPT ![output] = @ - 1]
  /\ UNCHANGED <<gateVars, pc, toSend, helper>>

-----------------------------------------------------------------------------
(* What is made of an answer: gate_file, inspect_routine, walk_plpgsql,    *)
(* inspect_inner_sql.                                                      *)

\* Findings on a statement of a file.
TopLevel(statement) ==
  CASE statement.kind = "cluster"  -> {"SC-CLUSTER01"}
    [] statement.kind = "unlisted" -> {"SC-CLUSTER02"}
    [] statement.kind = "other"    -> {"SC-CLUSTER04"}
    [] OTHER                       -> {}

\* A mutation of InBody: bodies are held to be local.
InBodyNone(body) == {}

\* Findings on the statement in a body.  The allow-list does not apply there, a
\* routine in a routine is not entered, and of PL/pgSQL's own statements the
\* walk knows EXECUTE alone.
InBody(body) ==
  CASE body = "cluster" -> {"SC-CLUSTER01"}
    [] body = "dynamic" -> {"SC-CLUSTER03"}
    [] OTHER            -> {}

\* One statement of a parsed file; the body of a routine is parsed before the
\* next one is looked at.
Classify ==
  LET statement == Head(rest)
  IN /\ pc = "next"
     /\ job = NoJob
     /\ rest # <<>>
     /\ rest' = Tail(rest)
     /\ findings' = findings \cup TopLevel(statement)
     /\ job' = IF statement.kind \in Entered
               THEN Job(statement.kind, statement.body) ELSE NoJob
     /\ UNCHANGED <<files, file, pc, toSend, helper, pipes, report, status>>

\* The static SQL of a PL/pgSQL body is parsed once more, as SQL.
Embedded == job.mode = "plpgsql" /\ job.body \notin Procedural

\* ValidatedAst::parse: exit 0 and the envelope asked for.
Believed == helper.code = 0 /\ helper.valid

\* The helper is gone and both outputs are at their end.
Finish ==
  /\ pc = "waiting"
  /\ helper.state = "exited"
  /\ pipes.stdout = 0
  /\ pipes.stderr = 0
  /\ IF Believed
     THEN /\ rest' = IF job.mode = "file" THEN files[file].statements ELSE rest
          /\ findings' = IF job.mode = "file" \/ Embedded THEN findings
                         ELSE findings \cup InBody(job.body)
          /\ job' = IF Embedded THEN Job("sql", job.body) ELSE NoJob
          /\ FileDone
          /\ pc' = "next"
          /\ UNCHANGED <<files, report, status>>
     ELSE Unparsed
  /\ helper' = NoHelper
  /\ pipes' = NoPipes
  /\ UNCHANGED toSend

\* run_cluster_scope_gate: open the sink, write the report, exit.
OpenReport ==
  /\ pc = "next"
  /\ job = NoJob
  /\ rest = <<>>
  /\ file > Len(files)
  /\ \/ report' = "truncated" /\ pc' = "writing" /\ UNCHANGED status
     \/ End("error") /\ UNCHANGED report
  /\ UNCHANGED <<files, file, job, rest, findings, toSend, helper, pipes>>

WriteReport ==
  /\ pc = "writing"
  /\ \/ /\ report' = "new"
        /\ End(IF findings = {} THEN "clean" ELSE "findings")
     \/ End("write error") /\ UNCHANGED report
  /\ UNCHANGED <<files, file, job, rest, findings, toSend, helper, pipes>>

Command ==
  \/ NextFile \/ StartHelper \/ NoExecutable \/ Send \/ BrokenPipe \/ Sent
  \/ \E output \in {"stdout", "stderr"} : Receive(output)
  \/ Finish \/ Classify \/ OpenReport \/ WriteReport

-----------------------------------------------------------------------------
(* The helper: pg_parser_helper.c.  It writes only once it has read its    *)
(* input to the end.                                                       *)

ReadInput ==
  /\ helper.state = "reading"
  /\ pipes.stdin > 0
  /\ pipes' = [pipes EXCEPT !.stdin = @ - 1]
  /\ UNCHANGED <<gateVars, pc, toSend, helper>>

\* An AST, an error message and exit 1, or, of a helper of another release,
\* an answer that is not the one asked for.
Answer ==
  /\ helper.state = "reading"
  /\ pipes.stdin = 0
  /\ ~pipes.open
  /\ \E amount \in 1..MaxAmount :
       \/ \E valid \in BOOLEAN :
            helper' = [state |-> "answering", code |-> 0, out |-> amount, err |-> 0,
                       valid |-> valid]
       \/ helper' = [state |-> "answering", code |-> 1, out |-> 0, err |-> amount,
                     valid |-> FALSE]
  /\ UNCHANGED <<gateVars, pc, toSend, pipes>>

WriteOutput ==
  /\ helper.state = "answering"
  /\ \/ /\ helper.out > 0
        /\ pipes.stdout < Capacity
        /\ helper' = [helper EXCEPT !.out = @ - 1]
        /\ pipes' = [pipes EXCEPT !.stdout = @ + 1]
     \/ /\ helper.err > 0
        /\ pipes.stderr < Capacity
        /\ helper' = [helper EXCEPT !.err = @ - 1]
        /\ pipes' = [pipes EXCEPT !.stderr = @ + 1]
  /\ UNCHANGED <<gateVars, pc, toSend>>

Exit ==
  /\ helper.state = "answering"
  /\ helper.out = 0
  /\ helper.err = 0
  /\ helper' = [helper EXCEPT !.state = "exited"]
  /\ UNCHANGED <<gateVars, pc, toSend, pipes>>

\* Out of memory, over 64 MiB, killed: at any point, with part of an answer.
Die ==
  /\ helper.state \in {"reading", "answering"}
  /\ helper' = [helper EXCEPT !.state = "exited", !.code = 1, !.out = 0, !.err = 0]
  /\ pipes' = [pipes EXCEPT !.stdin = 0]
  /\ UNCHANGED <<gateVars, pc, toSend>>

Helper == ReadInput \/ Answer \/ WriteOutput \/ Exit

-----------------------------------------------------------------------------
Ended == pc = "ended" /\ UNCHANGED vars

Next == Command \/ Helper \/ Die \/ Ended

\* Both processes are scheduled.  Nothing makes a helper die.
Spec == Init /\ [][Next]_vars /\ WF_vars(Command) /\ WF_vars(Helper)

-----------------------------------------------------------------------------
\* Type invariant.
TypeOK ==
  /\ files \in Inputs
  /\ file \in 1..Len(files) + 1
  /\ findings \subseteq {"SC-CLUSTER01", "SC-CLUSTER02", "SC-CLUSTER03", "SC-CLUSTER04"}
  /\ job \in [mode : {"none", "file", "plpgsql", "sql"}, body : Bodies \cup {"none"}]
  /\ rest \in Seq(Statement)
  /\ pc \in {"next", "sending", "waiting", "writing", "ended"}
  /\ pc \in {"sending", "waiting"} => job # NoJob
  /\ job.mode = "file" => file <= Len(files)
  /\ toSend \in 0..MaxAmount
  /\ helper \in [state : {"none", "reading", "answering", "exited"}, code : {0, 1},
                 out : 0..MaxAmount, err : 0..MaxAmount, valid : BOOLEAN]
  /\ pipes \in [stdin : 0..Capacity, stdout : 0..Capacity, stderr : 0..Capacity,
                open : BOOLEAN]
  /\ report \in {"old", "truncated", "new"}
  /\ status \in {"running", "clean", "findings", "error", "write error"}

\* A statement the gate has looked at and found no fault with.
ProvenLocal(statement) ==
  \/ statement.kind = "local"
  \/ statement.kind \in Entered /\ statement.body \in {"local", "unlisted", "proven"}

\* The known gap: a routine with a body the walk passes over.
PassedOver(statement) ==
  statement.kind \in Entered /\ statement.body \in {"routine", "executing", "evaluating"}

\* A clean exit means that every file was read and every statement of it found
\* local, whatever the helpers did in between, but for what the walk of a body
\* passes over.  (Fail closed, cluster_scope/mod.rs.)
CleanMeansLocal ==
  status = "clean" =>
    \A f \in DOMAIN files :
      /\ files[f].readable
      /\ \A i \in DOMAIN files[f].statements :
           PassedOver(files[f].statements[i]) \/ ProvenLocal(files[f].statements[i])

\* ... and nothing is passed over: "routine bodies are inspected recursively",
\* "nothing is ever skipped silently".  (cluster_scope/mod.rs.)
NothingIsSkipped ==
  status = "clean" =>
    \A f \in DOMAIN files :
      \A i \in DOMAIN files[f].statements : ProvenLocal(files[f].statements[i])

\* The report of an earlier run survives every failure before the writing of
\* the new one (#212).
ReportSurvivesErrors == status = "error" => report = "old"

\* No helper outlives its job with the pipes full: whatever the sizes of the
\* SQL, the answer and the messages, the command ends.
CommandEnds == <>(pc = "ended")
=============================================================================
