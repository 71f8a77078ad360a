-------------------------- MODULE InstallerProofs --------------------------
(***************************************************************************)
(* Proofs about Installer: however many wrapper processes run on one host, *)
(* are killed, fail or lose power, each writes a scratch file of its own   *)
(* and the cache entry is never partial.                                   *)
(***************************************************************************)
EXTENDS Installer, TLAPS

\* All processes draw their pids from one process table.
OneHostOnly == \A p, q \in Procs : HostOf(p) = HostOf(q)

-----------------------------------------------------------------------------
(* The inductive invariant. *)

\* No two live processes share a pid.
PidsApart ==
  \A p, q \in Procs : p # q /\ Live(p) /\ Live(q) => proc[p].pid # proc[q].pid

\* A file has one name.
NamesApart ==
  /\ \A n, m \in ScratchNames :
       scratch[n] # None /\ scratch[n] = scratch[m] => n = m
  /\ \A n \in ScratchNames : scratch[n] # None => scratch[n] # cached

\* How far a writer has come is what its file holds.
WriterOK(r) ==
  /\ r.pc \in Staging \cup {"fetch", "path", "await"} => r.kind \in Writers
  /\ r.pc \in {"fetch", "open", "cache", "path", "await"} => r.pos = 0
  /\ r.pc \in Writing =>
       /\ r.inode \in Inodes
       /\ scratch[<<r.kind, r.pid>>] = r.inode
       /\ file[r.inode].data = 1..r.pos
  /\ r.pc = "write" => r.pos < Size
  /\ r.pc \in {"sync", "chmod", "rename"} => r.pos = Size
  /\ r.pc = "rename" => file[r.inode].exec

WritersOK == \A p \in Procs : WriterOK(proc[p])

\* What is executable in the cache is whole, and what is new is executable.
EntryOK ==
  cached # None =>
    /\ ~file[cached].old => file[cached].exec
    /\ file[cached].exec => file[cached].data = Chunks \/ Torn(cached)

InstalledOK == installed => cached # None /\ (outage \/ Usable("shim"))

IInv ==
  /\ InstallerTypeOK
  /\ PidsApart /\ NamesApart /\ WritersOK /\ EntryOK /\ InstalledOK

-----------------------------------------------------------------------------
(* Lemmas. *)

USE DEF Ended, Writing, Staging, Phases, Writers, Kinds

LEMMA NoProcessTyped == NoProcess \in Processes
BY PidsAssumption, EnvironmentsAssumption, SizeAssumption
DEF NoProcess, Processes

\* Moving on keeps a process a process.
LEMMA AtTyped ==
  ASSUME NEW r \in Processes, NEW pc \in Phases
  PROVE  At(r, pc) \in Processes
BY NoProcessTyped DEF At, Processes

\* A writer whose position and phase move is a process still, the same but for
\* them.
Advanced(q, n, pc) == [q EXCEPT !.pos = n, !.pc = pc]

LEMMA AdvancedTyped ==
  ASSUME NEW q \in Processes, NEW n \in 0..Size, NEW pc \in Phases
  PROVE  /\ Advanced(q, n, pc) \in Processes
         /\ Advanced(q, n, pc).pc = pc /\ Advanced(q, n, pc).pos = n
         /\ Advanced(q, n, pc).kind = q.kind /\ Advanced(q, n, pc).pid = q.pid
         /\ Advanced(q, n, pc).inode = q.inode
<1>1. Advanced(q, n, pc) \in Processes
  BY DEF Advanced, Processes
<1>2. /\ Advanced(q, n, pc).pc = pc /\ Advanced(q, n, pc).pos = n
      /\ Advanced(q, n, pc).kind = q.kind /\ Advanced(q, n, pc).pid = q.pid
      /\ Advanced(q, n, pc).inode = q.inode
  BY DEF Advanced, Processes
<1> QED BY <1>1, <1>2

\* A process that starts is well typed, writes nothing and has its pid.
LEMMA StartedFacts ==
  ASSUME NEW kind \in Kinds, NEW pid \in Pids, NEW env \in Environments
  PROVE  LET r == Started(kind, pid, env)
         IN /\ r \in Processes
            /\ r.pc \in Ended \cup {"path", "cache"}
            /\ r.pos = 0
            /\ r.pc \notin Ended => r.pid = pid /\ r.kind = kind
            /\ r.pc = "path" => kind \in Writers
<1>1. /\ FirstPhase(kind, env) \in Ended \cup {"path", "cache"}
      /\ FirstPhase(kind, env) = "path" => kind \in Writers
  BY DEF FirstPhase
<1>2. [NoProcess EXCEPT !.kind = kind, !.pid = pid, !.env = env] \in Processes
  BY NoProcessTyped DEF Processes
<1>3. Started(kind, pid, env) \in Processes
  BY <1>1, <1>2, AtTyped DEF Started
<1> DEFINE new == [NoProcess EXCEPT !.kind = kind, !.pid = pid, !.env = env]
           pc == FirstPhase(kind, env)
<1>4. CASE pc \in Ended
  <2>1. Started(kind, pid, env) = [NoProcess EXCEPT !.pc = pc]
    BY <1>4 DEF Started, At
  <2>2. Started(kind, pid, env).pc = pc /\ Started(kind, pid, env).pos = 0
    BY <2>1 DEF NoProcess
  <2> QED BY <1>1, <1>3, <1>4, <2>2
<1>5. CASE pc \notin Ended
  <2>1. Started(kind, pid, env) = [new EXCEPT !.pc = pc]
    BY <1>5 DEF Started, At
  <2>2. /\ Started(kind, pid, env).pc = pc
        /\ Started(kind, pid, env).pos = 0
        /\ Started(kind, pid, env).pid = pid
        /\ Started(kind, pid, env).kind = kind
    BY <2>1 DEF NoProcess
  <2> QED BY <1>1, <1>3, <2>2
<1> QED BY <1>4, <1>5

\* A step of one process that leaves the files alone keeps the invariant when
\* the process has what its next phase asks for.
LEMMA MoveKeepsIInv ==
  ASSUME IInv, NEW p \in Procs, NEW pc \in Phases,
         Live(p), Goto(p, pc),
         UNCHANGED <<onPath, cached, scratch, file, outage>>,
         installed' \in BOOLEAN, crashes' \in 0..MaxCrashes,
         pc \notin Ended => WriterOK([proc[p] EXCEPT !.pc = pc]),
         installed' => installed \/ Usable("shim")
  PROVE  IInv'
<1>1. proc[p] \in Processes /\ proc' = [proc EXCEPT ![p] = At(proc[p], pc)]
  BY DEF IInv, InstallerTypeOK, Goto
<1>2. InstallerTypeOK'
  BY <1>1, AtTyped DEF IInv, InstallerTypeOK
<1>3. PidsApart'
  BY <1>1 DEF IInv, PidsApart, Live, At, InstallerTypeOK, NoProcess, Processes
<1>4. NamesApart'
  BY DEF IInv, NamesApart
<1>5. WritersOK'
  <2>1. WriterOK(At(proc[p], pc))
    BY DEF At, WriterOK, NoProcess
  <2> QED BY <1>1, <2>1 DEF IInv, WritersOK, WriterOK, InstallerTypeOK
<1>6. EntryOK'
  BY DEF IInv, EntryOK, Torn
<1>7. InstalledOK'
  BY DEF IInv, InstalledOK, Usable
<1> QED BY <1>2, <1>3, <1>4, <1>5, <1>6, <1>7 DEF IInv

\* Two processes that stage files have different scratch names, and the files
\* behind them are different.
LEMMA WritersDiffer ==
  ASSUME IInv, NEW p \in Procs, NEW q \in Procs, p # q,
         proc[p].pc \in Staging, proc[q].pc \in Writing
  PROVE  /\ ScratchName(p) \in ScratchNames /\ ScratchName(q) \in ScratchNames
         /\ ScratchName(p) # ScratchName(q)
         /\ scratch[ScratchName(q)] = proc[q].inode
         /\ proc[q].inode \in Inodes /\ proc[q].inode # None
         /\ proc[q].inode # cached
         /\ proc[q].inode # scratch[ScratchName(p)]
<1>1. proc[p] \in Processes /\ proc[q] \in Processes
  BY DEF IInv, InstallerTypeOK
<1>2. WriterOK(proc[p]) /\ WriterOK(proc[q])
  BY DEF IInv, WritersOK
<1>3. ScratchName(p) \in ScratchNames /\ ScratchName(q) \in ScratchNames
  BY <1>1, <1>2 DEF ScratchName, ScratchNames, WriterOK, Processes
<1>4. proc[p].pid # proc[q].pid
  BY DEF IInv, PidsApart, Live
<1>5. ScratchName(p) # ScratchName(q)
  BY <1>4 DEF ScratchName
<1>6. /\ scratch[ScratchName(q)] = proc[q].inode
      /\ proc[q].inode \in Inodes /\ proc[q].inode # None
  BY <1>2, NoneAssumption DEF WriterOK, ScratchName
<1> QED BY <1>3, <1>5, <1>6 DEF IInv, NamesApart

\* A writer that works on its own file keeps the invariant.
LEMMA WriteKeepsIInv ==
  ASSUME IInv, NEW p \in Procs, NEW r \in Processes, NEW f \in Files,
         proc[p].pc \in Writing, r.pc \in Writing,
         r.kind = proc[p].kind, r.pid = proc[p].pid,
         r.inode = proc[p].inode,
         proc' = [proc EXCEPT ![p] = r],
         file' = [file EXCEPT ![proc[p].inode] = f],
         UNCHANGED <<onPath, cached, scratch, installed, crashes, outage>>,
         f.data = 1..r.pos,
         r.pc = "write" => r.pos < Size,
         r.pc \in {"sync", "chmod", "rename"} => r.pos = Size,
         r.pc = "rename" => f.exec
  PROVE  IInv'
<1> DEFINE i == proc[p].inode
<1>1. proc[p] \in Processes /\ WriterOK(proc[p])
  BY DEF IInv, InstallerTypeOK, WritersOK
<1>2. /\ i \in Inodes /\ i # None /\ scratch[ScratchName(p)] = i
      /\ ScratchName(p) \in ScratchNames
  BY <1>1, NoneAssumption
  DEF WriterOK, ScratchName, ScratchNames, Processes
<1>3. i # cached
  BY <1>2 DEF IInv, NamesApart
<1>4. InstallerTypeOK'
  BY DEF IInv, InstallerTypeOK
<1>5. PidsApart'
  BY DEF IInv, PidsApart, Live, InstallerTypeOK
<1>6. NamesApart'
  BY DEF IInv, NamesApart
<1>7. WritersOK'
  <2>1. WriterOK(r)'
    BY <1>1, <1>2 DEF WriterOK, ScratchName, IInv, InstallerTypeOK
  <2>2. ASSUME NEW q \in Procs, q # p PROVE WriterOK(proc[q])'
    <3>1. proc'[q] = proc[q] /\ WriterOK(proc[q])
      BY <2>2 DEF IInv, WritersOK, InstallerTypeOK
    <3>2. proc[q].pc \in Writing => file'[proc[q].inode] = file[proc[q].inode]
      BY <1>2, <2>2, WritersDiffer DEF IInv, InstallerTypeOK
    <3> QED BY <3>1, <3>2 DEF WriterOK
  <2> QED BY <2>1, <2>2 DEF WritersOK, IInv, InstallerTypeOK
<1>8. cached # None => file'[cached] = file[cached]
  BY <1>3 DEF IInv, InstallerTypeOK
<1>9. EntryOK'
  BY <1>8 DEF IInv, EntryOK, Torn
<1>10. InstalledOK'
  BY <1>8 DEF IInv, InstalledOK, Usable
<1> QED BY <1>4, <1>5, <1>6, <1>7, <1>9, <1>10 DEF IInv

\* Removing the own scratch name on the way out keeps the invariant.
LEMMA RemoveKeepsIInv ==
  ASSUME IInv, NEW p \in Procs, NEW pc \in Ended \cup {"exec"},
         proc[p].pc \in {"unlink", "abort"}, Goto(p, pc),
         scratch' = [scratch EXCEPT ![ScratchName(p)] = None],
         file' = Unlinked(scratch[ScratchName(p)]),
         UNCHANGED <<onPath, cached, installed, crashes, outage>>
  PROVE  IInv'
<1> DEFINE i == scratch[ScratchName(p)]
<1>1. /\ proc[p] \in Processes /\ WriterOK(proc[p])
      /\ proc' = [proc EXCEPT ![p] = At(proc[p], pc)]
  BY DEF IInv, InstallerTypeOK, WritersOK, Goto
<1>2. ScratchName(p) \in ScratchNames /\ i \in Inodes \cup {None}
  BY <1>1 DEF WriterOK, ScratchName, ScratchNames, Processes, IInv,
              InstallerTypeOK
<1>3. \A j \in Inodes : j # i => file'[j] = file[j]
  BY DEF Unlinked
<1>4. InstallerTypeOK'
  <2>1. file' \in [Inodes -> Files]
    BY DEF Unlinked, NoFile, Files, IInv, InstallerTypeOK
  <2>2. proc' \in [Procs -> Processes]
    BY <1>1, AtTyped DEF IInv, InstallerTypeOK
  <2> QED BY <2>1, <2>2 DEF IInv, InstallerTypeOK
<1>5. PidsApart'
  BY <1>1 DEF IInv, PidsApart, Live, At, InstallerTypeOK, Processes
<1>6. NamesApart'
  BY <1>2 DEF IInv, NamesApart, InstallerTypeOK
<1>7. WritersOK'
  <2>1. WriterOK(proc[p])'
    BY <1>1 DEF WriterOK, At, NoProcess, IInv, InstallerTypeOK
  <2>2. ASSUME NEW q \in Procs, q # p PROVE WriterOK(proc[q])'
    <3>1. proc'[q] = proc[q] /\ WriterOK(proc[q])
      BY <1>1, <2>2 DEF IInv, WritersOK, InstallerTypeOK
    <3>2. CASE proc[q].pc \in Writing
      <4>1. /\ file'[proc[q].inode] = file[proc[q].inode]
            /\ scratch'[ScratchName(q)] = scratch[ScratchName(q)]
        BY <1>3, <2>2, <3>2, WritersDiffer DEF IInv, InstallerTypeOK
      <4> QED BY <3>1, <4>1 DEF WriterOK, ScratchName
    <3>3. CASE proc[q].pc \notin Writing
      BY <3>1, <3>3 DEF WriterOK
    <3> QED BY <3>2, <3>3
  <2> QED BY <2>1, <2>2 DEF WritersOK
<1>8. cached # None => file'[cached] = file[cached]
  BY <1>2, <1>3 DEF IInv, NamesApart, InstallerTypeOK
<1>9. EntryOK'
  BY <1>8 DEF IInv, EntryOK, Torn
<1>10. InstalledOK'
  BY <1>8 DEF IInv, InstalledOK, Usable
<1> QED BY <1>4, <1>5, <1>6, <1>7, <1>9, <1>10 DEF IInv

-----------------------------------------------------------------------------
(* The actions. *)

LEMMA InitIInv == InstallerInit => IInv
<1> SUFFICES ASSUME InstallerInit PROVE IInv
  OBVIOUS
<1>1. InstallerTypeOK
  <2>1. NoFile \in Files
    BY DEF NoFile, Files
  <2>2. file \in [Inodes -> Files] /\ cached \in Inodes \cup {None}
    BY <2>1, LeftoversAssumption DEF InstallerInit
  <2>3. crashes \in 0..MaxCrashes
    BY MaxCrashesAssumption DEF InstallerInit
  <2> QED BY <2>2, <2>3, NoProcessTyped DEF InstallerInit, InstallerTypeOK
<1>2. PidsApart /\ WritersOK
  BY DEF InstallerInit, PidsApart, WritersOK, WriterOK, Live, NoProcess
<1>3. NamesApart
  BY DEF InstallerInit, NamesApart
<1>4. EntryOK
  BY LeftoversAssumption DEF InstallerInit, EntryOK
<1>5. InstalledOK
  BY DEF InstallerInit, InstalledOK
<1> QED BY <1>1, <1>2, <1>3, <1>4, <1>5 DEF IInv

\* This is where one host matters: a new process differs in its pid from
\* every live one.
LEMMA StartKeepsIInv ==
  ASSUME OneHostOnly, IInv, NEW p \in Procs, Start(p)
  PROVE  IInv'
<1>1. PICK kind \in Kinds, pid \in Pids, env \in Environments :
        Free(p, pid) /\ proc' = [proc EXCEPT ![p] = Started(kind, pid, env)]
  BY DEF Start
<1> DEFINE r == Started(kind, pid, env)
<1>2. /\ r \in Processes /\ r.pc \in Ended \cup {"path", "cache"}
      /\ r.pos = 0 /\ (r.pc \notin Ended => r.pid = pid)
      /\ r.pc = "path" => r.kind \in Writers
  BY StartedFacts
<1>3. UNCHANGED <<onPath, cached, scratch, file, installed, crashes, outage>>
  BY DEF Start
<1>4. InstallerTypeOK'
  BY <1>1, <1>2, <1>3 DEF IInv, InstallerTypeOK
<1>5. PidsApart'
  BY <1>1, <1>2 DEF IInv, PidsApart, Live, Free, OneHostOnly, InstallerTypeOK
<1>6. WritersOK'
  BY <1>1, <1>2, <1>3 DEF IInv, WritersOK, WriterOK, InstallerTypeOK
<1> QED BY <1>3, <1>4, <1>5, <1>6
      DEF IInv, NamesApart, EntryOK, Torn, InstalledOK, Usable

LEMMA ProbeKeepsIInv ==
  ASSUME OneHostOnly, IInv, NEW p \in Procs, ProbeWrapper(p)
  PROVE  IInv'
<1>1. PICK c \in Procs, pid \in Pids :
        /\ Free(c, pid)
        /\ proc' = [proc EXCEPT ![p].pc = "await", ![p].child = c,
                                ![c] = Started("pip", pid, proc[p].env)]
  BY DEF ProbeWrapper
<1> DEFINE r == Started("pip", pid, proc[p].env)
<1>2. proc[p] \in Processes /\ proc[p].env \in Environments
  BY DEF IInv, InstallerTypeOK, Processes
<1>3. /\ r \in Processes /\ r.pc \in Ended \cup {"path", "cache"}
      /\ r.pos = 0 /\ (r.pc \notin Ended => r.pid = pid)
      /\ r.pc = "path" => r.kind \in Writers
  BY <1>2, StartedFacts
<1>4. /\ UNCHANGED <<onPath, cached, scratch, file, installed, crashes, outage>>
      /\ proc[p].pc = "path" /\ Live(p) /\ ~Live(c) /\ p # c
  BY <1>1 DEF ProbeWrapper, Free, Live
<1>5. /\ proc'[c] = r
      /\ proc'[p] = [proc[p] EXCEPT !.pc = "await", !.child = c]
      /\ \A q \in Procs \ {p, c} : proc'[q] = proc[q]
  BY <1>1, <1>4 DEF IInv, InstallerTypeOK
<1>6. InstallerTypeOK'
  <2>1. proc' \in [Procs -> Processes]
    BY <1>1, <1>2, <1>3, <1>5 DEF IInv, InstallerTypeOK, Processes
  <2> QED BY <2>1, <1>4 DEF IInv, InstallerTypeOK
<1>7. PidsApart'
  <2>1. proc'[p].pid = proc[p].pid
    BY <1>2, <1>5 DEF Processes
  <2>2. \A q \in Procs \ {c} :
          proc'[q].pid = proc[q].pid /\ (Live(q)' => Live(q))
    BY <2>1, <1>4, <1>5 DEF Live
  <2>3. ASSUME NEW q \in Procs \ {c}, Live(q)', Live(c)'
        PROVE  proc'[q].pid # proc'[c].pid
    <3>1. Live(q) /\ proc'[q].pid = proc[q].pid
      BY <2>2, <2>3
    <3>2. proc'[c].pid = pid
      BY <1>3, <1>5, <2>3 DEF Live
    <3>3. proc[q].pid # pid
      BY <1>1, <3>1 DEF Free, OneHostOnly
    <3> QED BY <3>1, <3>2, <3>3
  <2> QED BY <2>2, <2>3 DEF IInv, PidsApart
<1>8. WritersOK'
  <2>1. WriterOK(proc[p])'
    BY <1>2, <1>4, <1>5 DEF IInv, WritersOK, WriterOK, Processes
  <2>2. WriterOK(proc[c])'
    BY <1>3, <1>5 DEF WriterOK
  <2>3. ASSUME NEW q \in Procs \ {p, c} PROVE WriterOK(proc[q])'
    BY <1>4, <1>5 DEF IInv, WritersOK, WriterOK
  <2> QED BY <2>1, <2>2, <2>3 DEF WritersOK
<1> QED BY <1>4, <1>6, <1>7, <1>8
      DEF IInv, NamesApart, EntryOK, Torn, InstalledOK, Usable

\* The steps that look for a binary, the download and the ways to end.
LEMMA SearchKeepsIInv ==
  ASSUME IInv, NEW p \in Procs,
         \/ CheckCache(p) \/ CheckPath(p) \/ ProbeFails(p)
         \/ ProbeAnswers(p) \/ Fetch(p) \/ StagingFails(p) \/ Exec(p)
         \/ Kill(p)
  PROVE  IInv'
<1>1. proc[p] \in Processes /\ WriterOK(proc[p])
  BY DEF IInv, InstallerTypeOK, WritersOK
<1>2. ASSUME NEW pc \in {"path", "cache", "fetch", "open", "exec"},
             proc[p].pc \in {"path", "cache", "await", "fetch"},
             pc \in {"path", "fetch", "open"} => proc[p].kind \in Writers
      PROVE  WriterOK([proc[p] EXCEPT !.pc = pc])
  BY <1>1, <1>2 DEF WriterOK, Processes
<1>3. installed \in BOOLEAN /\ crashes \in 0..MaxCrashes
  BY DEF IInv, InstallerTypeOK
<1>4. ASSUME NEW found \in BOOLEAN, proc[p].pc \in {"path", "await"},
             Goto(p, AfterPath(p, found)),
             UNCHANGED <<onPath, cached, scratch, file, installed, crashes,
                         outage>>
      PROVE  IInv'
  <2>1. AfterPath(p, found) \in Ended \cup {"cache", "fetch"}
    BY DEF AfterPath
  <2>2. proc[p].kind \in Writers
    BY <1>1, <1>4 DEF WriterOK
  <2> QED BY <1>2, <1>3, <1>4, <2>1, <2>2, MoveKeepsIInv DEF Live
<1>5. CASE CheckCache(p)
  <2> DEFINE pc == IF Usable(proc[p].kind)
                   THEN IF proc[p].kind = "postinstall" THEN "done" ELSE "exec"
                   ELSE AfterMiss(proc[p].kind)
  <2>1. /\ pc \in Ended \cup {"exec", "fetch", "path"}
        /\ pc \in {"fetch", "path"} => proc[p].kind \in Writers
    BY <1>1 DEF Processes, AfterMiss
  <2>2. pc \notin Ended => WriterOK([proc[p] EXCEPT !.pc = pc])
    BY <1>1, <1>5, <2>1 DEF CheckCache, WriterOK, Processes
  <2>3. Goto(p, pc) /\ Live(p)
    BY <1>5 DEF CheckCache, Live
  <2>4. /\ installed' \in BOOLEAN
        /\ installed' => installed \/ Usable("shim")
    BY <1>3, <1>5 DEF CheckCache, Usable
  <2> HIDE DEF pc
  <2> QED BY <1>3, <1>5, <2>1, <2>2, <2>3, <2>4, MoveKeepsIInv DEF CheckCache
<1>6. CASE CheckPath(p)
  BY <1>4, <1>6 DEF CheckPath
<1>7. CASE ProbeFails(p)
  BY <1>4, <1>7 DEF ProbeFails
<1>8. CASE ProbeAnswers(p)
  BY <1>4, <1>8 DEF ProbeAnswers
<1>9. CASE Fetch(p)
  <2>1. PICK pc \in {"open", "failed"} : Goto(p, pc)
    BY <1>9 DEF Fetch
  <2>2. proc[p].kind \in Writers
    BY <1>1, <1>9 DEF WriterOK, Fetch
  <2> QED BY <1>2, <1>3, <1>9, <2>1, <2>2, MoveKeepsIInv DEF Fetch, Live
<1>10. CASE StagingFails(p)
  <2>1. WriterOK([proc[p] EXCEPT !.pc = "abort"])
    BY <1>1, <1>10 DEF StagingFails, WriterOK, Processes
  <2> QED BY <1>3, <1>10, <2>1, MoveKeepsIInv DEF StagingFails, Live
<1>11. CASE Exec(p)
  BY <1>3, <1>11, MoveKeepsIInv DEF Exec, Live
<1>12. CASE Kill(p)
  <2>1. crashes' \in 0..MaxCrashes
    BY <1>3, <1>12, MaxCrashesAssumption DEF Kill
  <2> QED BY <1>3, <1>12, <2>1, MoveKeepsIInv DEF Kill
<1> QED BY <1>5, <1>6, <1>7, <1>8, <1>9, <1>10, <1>11, <1>12

LEMMA StagingKeepsIInv ==
  ASSUME IInv, NEW p \in Procs,
         \/ OpenScratch(p) \/ WriteChunk(p) \/ Sync(p) \/ Chmod(p)
         \/ Rename(p) \/ Unlink(p) \/ Abort(p)
  PROVE  IInv'
<1> DEFINE i == proc[p].inode
<1>1. proc[p] \in Processes /\ WriterOK(proc[p])
  BY DEF IInv, InstallerTypeOK, WritersOK
<1>2. CASE OpenScratch(p)
  <2>1. PICK j \in Inodes :
          /\ IF scratch[ScratchName(p)] = None
             THEN ~InUse(j) ELSE j = scratch[ScratchName(p)]
          /\ scratch' = [scratch EXCEPT ![ScratchName(p)] = j]
          /\ file' = [file EXCEPT ![j].data = {}, ![j].synced = FALSE,
                                  ![j].old = FALSE]
          /\ proc' = [proc EXCEPT ![p].pc = "write", ![p].inode = j]
    BY <1>2 DEF OpenScratch
  <2>2. /\ proc[p].pc = "open" /\ proc[p].pos = 0
        /\ ScratchName(p) \in ScratchNames /\ j # None
        /\ UNCHANGED <<onPath, cached, installed, crashes, outage>>
    BY <1>1, <1>2, NoneAssumption
    DEF OpenScratch, WriterOK, ScratchName, ScratchNames, Processes
  <2>3. /\ j # cached
        /\ \A n \in ScratchNames \ {ScratchName(p)} : scratch[n] # j
    BY <2>1, <2>2 DEF IInv, NamesApart, InUse
  <2>4. /\ proc'[p].pc = "write" /\ proc'[p].inode = j /\ proc'[p].pos = 0
        /\ proc'[p].kind = proc[p].kind /\ proc'[p].pid = proc[p].pid
        /\ \A q \in Procs \ {p} : proc'[q] = proc[q]
        /\ proc' \in [Procs -> Processes]
    BY <1>1, <2>1, <2>2 DEF IInv, InstallerTypeOK, Processes
  <2>5. /\ file' \in [Inodes -> Files] /\ file'[j].data = {}
        /\ \A k \in Inodes \ {j} : file'[k] = file[k]
    <3> DEFINE f == [file[j] EXCEPT !.data = {}, !.synced = FALSE, !.old = FALSE]
    <3>1. f \in Files /\ f.data = {}
      BY DEF IInv, InstallerTypeOK, Files
    <3>2. file \in [Inodes -> Files] /\ file' = [file EXCEPT ![j] = f]
      BY <2>1 DEF IInv, InstallerTypeOK
    <3> HIDE DEF f
    <3> QED BY <3>1, <3>2
  <2>6. InstallerTypeOK'
    BY <2>1, <2>2, <2>4, <2>5 DEF IInv, InstallerTypeOK
  <2>7. PidsApart'
    BY <2>2, <2>4 DEF IInv, PidsApart, Live
  <2>8. NamesApart'
    BY <2>1, <2>2, <2>3 DEF IInv, NamesApart, InstallerTypeOK
  <2>9. WritersOK'
    <3>1. WriterOK(proc[p])'
      <4>1. 1..proc'[p].pos = {}
        BY <2>4
      <4>2. scratch'[<<proc'[p].kind, proc'[p].pid>>] = j
        BY <2>1, <2>2, <2>4 DEF ScratchName, IInv, InstallerTypeOK
      <4>3. proc'[p].kind \in Writers
        BY <1>1, <2>2, <2>4 DEF WriterOK
      <4> QED BY <2>4, <2>5, <4>1, <4>2, <4>3, SizeAssumption DEF WriterOK
    <3>2. ASSUME NEW q \in Procs, q # p PROVE WriterOK(proc[q])'
      <4>1. proc'[q] = proc[q] /\ WriterOK(proc[q])
        BY <2>4, <3>2 DEF IInv, WritersOK
      <4>2. CASE proc[q].pc \in Writing
        <5>1. /\ ScratchName(q) \in ScratchNames
              /\ ScratchName(q) # ScratchName(p)
              /\ scratch[ScratchName(q)] = proc[q].inode
              /\ proc[q].inode \in Inodes
          BY <2>2, <3>2, <4>2, WritersDiffer
        <5>2. /\ file'[proc[q].inode] = file[proc[q].inode]
              /\ scratch'[ScratchName(q)] = scratch[ScratchName(q)]
          BY <2>1, <2>3, <2>5, <5>1 DEF IInv, InstallerTypeOK
        <5> QED BY <4>1, <5>2 DEF WriterOK, ScratchName
      <4>3. CASE proc[q].pc \notin Writing
        BY <4>1, <4>3 DEF WriterOK
      <4> QED BY <4>2, <4>3
    <3> QED BY <3>1, <3>2 DEF WritersOK
  <2>10. cached # None => file'[cached] = file[cached]
    BY <2>3, <2>5 DEF IInv, InstallerTypeOK
  <2>11. EntryOK' /\ InstalledOK'
    BY <2>2, <2>10 DEF IInv, EntryOK, Torn, InstalledOK, Usable
  <2> QED BY <2>6, <2>7, <2>8, <2>9, <2>11 DEF IInv
<1>3. ASSUME proc[p].pc \in Writing
      PROVE  /\ i \in Inodes /\ i # None /\ file[i] \in Files
             /\ ScratchName(p) \in ScratchNames
             /\ scratch[ScratchName(p)] = i /\ file[i].data = 1..proc[p].pos
  BY <1>1, <1>3, NoneAssumption
  DEF WriterOK, ScratchName, ScratchNames, Processes, IInv, InstallerTypeOK
<1>4. CASE WriteChunk(p)
  <2> DEFINE next == proc[p].pos + 1
             pc == IF next < Size THEN "write"
                   ELSE IF proc[p].kind = "pip" THEN "sync" ELSE "chmod"
             r == [proc[p] EXCEPT !.pos = next, !.pc = pc]
             f == [file[i] EXCEPT !.data = @ \cup {next}, !.synced = FALSE]
  <2>1. /\ proc[p].pc = "write" /\ proc[p].pos \in 0..Size
        /\ proc[p].pos < Size
    BY <1>1, <1>4 DEF WriteChunk, WriterOK, Processes
  <2>2. /\ next \in 1..Size /\ 1..next = 1..proc[p].pos \cup {next}
        /\ (next < Size \/ next = Size)
    BY <2>1, SizeAssumption
  <2>3. /\ pc \in {"write", "sync", "chmod"} /\ (pc = "write" <=> next < Size)
    OBVIOUS
  <2>4. f \in Files /\ f.data = 1..next
    BY <1>3, <2>1, <2>2 DEF Files, Chunks
  <2>5. /\ proc' = [proc EXCEPT ![p] = r] /\ file' = [file EXCEPT ![i] = f]
        /\ UNCHANGED <<onPath, cached, scratch, installed, crashes, outage>>
    BY <1>3, <1>4 DEF WriteChunk, IInv, InstallerTypeOK, Processes
  <2>6. pc \in Phases /\ next \in 0..Size
    BY <2>2, <2>3, SizeAssumption
  <2> HIDE DEF pc, next
  <2>7. /\ r \in Processes /\ r.pc = pc /\ r.pos = next
        /\ r.kind = proc[p].kind /\ r.pid = proc[p].pid /\ r.inode = i
    <3>1. proc[p] \in Processes /\ proc[p].inode = i
      BY <1>1
    <3> HIDE DEF Phases
    <3> DEFINE a == Advanced(proc[p], next, pc)
    <3>2. r = a
      BY DEF Advanced
    <3>3. /\ a \in Processes /\ a.pc = pc /\ a.pos = next
          /\ a.kind = proc[p].kind /\ a.pid = proc[p].pid
          /\ a.inode = proc[p].inode
      BY <2>6, <3>1, AdvancedTyped
    <3> HIDE DEF r, a
    <3> QED BY <3>1, <3>2, <3>3
  <2> HIDE DEF r, f
  <2> QED BY <2>1, <2>2, <2>3, <2>4, <2>5, <2>7, WriteKeepsIInv
<1>5. CASE Sync(p)
  <2> DEFINE r == [proc[p] EXCEPT !.pc = "chmod"]
             f == [file[i] EXCEPT !.synced = TRUE]
  <2>1. /\ proc[p].pc = "sync" /\ proc[p].pos = Size
    BY <1>1, <1>5 DEF Sync, WriterOK
  <2>2. f \in Files /\ f.data = 1..proc[p].pos
    BY <1>3, <2>1 DEF Files
  <2>3. /\ proc' = [proc EXCEPT ![p] = r] /\ file' = [file EXCEPT ![i] = f]
        /\ UNCHANGED <<onPath, cached, scratch, installed, crashes, outage>>
    BY <1>3, <1>5, <2>1 DEF Sync, Goto, At, IInv, InstallerTypeOK
  <2>4. /\ r \in Processes /\ r.pc = "chmod" /\ r.pos = proc[p].pos
        /\ r.kind = proc[p].kind /\ r.pid = proc[p].pid /\ r.inode = i
    BY <1>1 DEF Processes
  <2> HIDE DEF r, f
  <2> QED BY <2>1, <2>2, <2>3, <2>4, WriteKeepsIInv
<1>6. CASE Chmod(p)
  <2> DEFINE r == [proc[p] EXCEPT !.pc = "rename"]
             f == [file[i] EXCEPT !.exec = TRUE]
  <2>1. /\ proc[p].pc = "chmod" /\ proc[p].pos = Size
    BY <1>1, <1>6 DEF Chmod, WriterOK
  <2>2. f \in Files /\ f.data = 1..proc[p].pos /\ f.exec
    BY <1>3, <2>1 DEF Files
  <2>3. /\ proc' = [proc EXCEPT ![p] = r] /\ file' = [file EXCEPT ![i] = f]
        /\ UNCHANGED <<onPath, cached, scratch, installed, crashes, outage>>
    BY <1>3, <1>6, <2>1 DEF Chmod, Goto, At, IInv, InstallerTypeOK
  <2>4. /\ r \in Processes /\ r.pc = "rename" /\ r.pos = proc[p].pos
        /\ r.kind = proc[p].kind /\ r.pid = proc[p].pid /\ r.inode = i
    BY <1>1 DEF Processes
  <2> HIDE DEF r, f
  <2> QED BY <2>1, <2>2, <2>3, <2>4, WriteKeepsIInv
<1>7. CASE Unlink(p)
  BY <1>7, RemoveKeepsIInv DEF Unlink
<1>8. CASE Abort(p)
  BY <1>8, RemoveKeepsIInv DEF Abort
<1>9. CASE Rename(p)
  <2> DEFINE pc == IF proc[p].kind = "pip" THEN "unlink" ELSE "done"
  <2>1. /\ proc[p].pc = "rename" /\ cached' = i
        /\ scratch' = [scratch EXCEPT ![ScratchName(p)] = None]
        /\ file' = Unlinked(cached)
        /\ proc' = [proc EXCEPT ![p] = At(proc[p], pc)]
        /\ installed' \in BOOLEAN
        /\ UNCHANGED <<onPath, crashes, outage>>
    BY <1>3, <1>9 DEF Rename, Goto, IInv, InstallerTypeOK
  <2>2. /\ i # cached /\ file[i].data = Chunks /\ file[i].exec
    BY <1>1, <1>3, <2>1 DEF IInv, NamesApart, WriterOK, Chunks
  <2>3. \A j \in Inodes : j # cached => file'[j] = file[j]
    BY <2>1 DEF Unlinked
  <2>4. InstallerTypeOK'
    <3>1. file' \in [Inodes -> Files]
      BY <2>1 DEF Unlinked, NoFile, Files, IInv, InstallerTypeOK
    <3>2. proc' \in [Procs -> Processes]
      BY <1>1, <2>1, AtTyped DEF IInv, InstallerTypeOK
    <3> QED BY <1>3, <2>1, <3>1, <3>2 DEF IInv, InstallerTypeOK
  <2>5. PidsApart'
    BY <1>1, <2>1 DEF IInv, PidsApart, Live, At, InstallerTypeOK, Processes
  <2>6. NamesApart'
    BY <1>3, <2>1 DEF IInv, NamesApart, InstallerTypeOK
  <2>7. WritersOK'
    <3>1. WriterOK(proc[p])'
      BY <1>1, <2>1 DEF WriterOK, At, NoProcess, IInv, InstallerTypeOK,
                        Processes
    <3>2. ASSUME NEW q \in Procs, q # p PROVE WriterOK(proc[q])'
      <4>1. proc'[q] = proc[q] /\ WriterOK(proc[q])
        BY <2>1, <3>2 DEF IInv, WritersOK, InstallerTypeOK
      <4>2. CASE proc[q].pc \in Writing
        <5>1. /\ file'[proc[q].inode] = file[proc[q].inode]
              /\ scratch'[ScratchName(q)] = scratch[ScratchName(q)]
          BY <2>1, <2>3, <3>2, <4>2, WritersDiffer DEF IInv, InstallerTypeOK
        <5> QED BY <4>1, <5>1 DEF WriterOK, ScratchName
      <4>3. CASE proc[q].pc \notin Writing
        BY <4>1, <4>3 DEF WriterOK
      <4> QED BY <4>2, <4>3
    <3> QED BY <3>1, <3>2 DEF WritersOK
  <2>8. file'[cached'] = file[i]
    BY <1>3, <2>1, <2>2, <2>3
  <2>9. EntryOK'
    BY <2>2, <2>8 DEF EntryOK
  <2>10. InstalledOK'
    <3>1. 1 \in Chunks
      BY SizeAssumption DEF Chunks
    <3> QED BY <1>3, <2>1, <2>2, <2>8, <3>1 DEF InstalledOK, Usable
  <2> QED BY <2>4, <2>5, <2>6, <2>7, <2>9, <2>10 DEF IInv
<1> QED BY <1>2, <1>4, <1>5, <1>6, <1>7, <1>8, <1>9

\* Data that was synced survives, what was not is torn from now on.
LEMMA PowerFailsKeepsIInv ==
  ASSUME IInv, PowerFails
  PROVE  IInv'
<1>1. PICK lost \in SUBSET Chunks :
        file' = [j \in Inodes |->
                   IF file[j].synced THEN file[j]
                   ELSE [file[j] EXCEPT !.data = @ \ lost]]
  BY DEF PowerFails
<1>2. \A p \in Procs : ~Live(p)' /\ proc'[p] \in Processes
  <2> TAKE p \in Procs
  <2>1. proc[p] \in Processes
    BY DEF IInv, InstallerTypeOK
  <2>2. At(proc[p], "failed") \in Processes /\ At(proc[p], "failed").pc = "failed"
    BY <2>1, AtTyped DEF At, NoProcess
  <2> QED BY <2>1, <2>2 DEF PowerFails, Live
<1>3. \A j \in Inodes :
        /\ file'[j] \in Files
        /\ file'[j].exec = file[j].exec /\ file'[j].old = file[j].old
        /\ file'[j].synced = file[j].synced
        /\ file[j].synced => file'[j].data = file[j].data
  BY <1>1 DEF IInv, InstallerTypeOK, Files
<1>4. InstallerTypeOK'
  <2>1. file' \in [Inodes -> Files]
    BY <1>1, <1>3
  <2>2. proc' \in [Procs -> Processes]
    BY <1>2 DEF PowerFails
  <2>3. crashes' \in 0..MaxCrashes
    BY MaxCrashesAssumption DEF PowerFails, IInv, InstallerTypeOK
  <2> QED BY <2>1, <2>2, <2>3 DEF PowerFails, IInv, InstallerTypeOK
<1>5. PidsApart' /\ WritersOK'
  BY <1>2 DEF PidsApart, WritersOK, WriterOK, Live
<1>6. NamesApart'
  BY DEF PowerFails, IInv, NamesApart
<1>7. EntryOK'
  BY <1>3 DEF PowerFails, IInv, EntryOK, Torn, InstallerTypeOK
<1>8. InstalledOK'
  BY DEF PowerFails, IInv, InstalledOK
<1> QED BY <1>4, <1>5, <1>6, <1>7, <1>8 DEF IInv

LEMMA NextIInv ==
  ASSUME OneHostOnly, IInv, [InstallerNext]_vars
  PROVE  IInv'
<1>1. CASE PowerFails
  BY <1>1, PowerFailsKeepsIInv
<1>2. ASSUME NEW p \in Procs, Start(p) \/ ProcessStep(p) \/ Kill(p)
      PROVE  IInv'
  BY <1>2, StartKeepsIInv, ProbeKeepsIInv, SearchKeepsIInv, StagingKeepsIInv
  DEF ProcessStep
<1>3. CASE UNCHANGED vars
  BY <1>3 DEF vars, IInv, InstallerTypeOK, PidsApart, NamesApart, WritersOK,
             WriterOK, EntryOK, Torn, InstalledOK, Usable, Live
<1> QED BY <1>1, <1>2, <1>3 DEF InstallerNext

-----------------------------------------------------------------------------
(* Types, on any number of hosts.  There two processes with one pid may share *)
(* a scratch file, and what the files hold is lost; the types are not.        *)

\* Only the shim never downloads.  A process that has not begun to write is at
\* the first chunk, one that writes has chunks left.
ShapeOK(r) ==
  /\ r.pc \in Staging \cup {"fetch", "path", "await"} => r.kind \in Writers
  /\ r.pc \in {"fetch", "open", "cache", "path", "await"} => r.pos = 0
  /\ r.pc = "write" => r.pos < Size

ProcsOK == proc \in [Procs -> Processes] /\ \A p \in Procs : ShapeOK(proc[p])

\* The types of what the processes share.
DiskOK ==
  /\ onPath \in OnPath
  /\ cached \in Inodes \cup {None}
  /\ scratch \in [ScratchNames -> Inodes \cup {None}]
  /\ file \in [Inodes -> Files]
  /\ installed \in BOOLEAN /\ crashes \in 0..MaxCrashes /\ outage \in BOOLEAN

LEMMA UnlinkedTyped ==
  ASSUME DiskOK, NEW i
  PROVE  Unlinked(i) \in [Inodes -> Files]
<1>1. NoFile \in Files
  BY DEF NoFile, Files
<1> QED BY <1>1 DEF Unlinked, DiskOK

\* A process that moves on without writing.
LEMMA GotoShape ==
  ASSUME ProcsOK, NEW p \in Procs, NEW pc \in Phases, Goto(p, pc),
         pc \in {"fetch", "open", "cache", "path"} =>
           proc[p].pc \in {"fetch", "open", "cache", "path", "await"},
         pc \in Staging \cup {"fetch", "path"} => proc[p].kind \in Writers,
         pc \notin {"write", "await"}
  PROVE  ProcsOK'
<1>1. proc[p] \in Processes /\ ShapeOK(proc[p]) /\ proc \in [Procs -> Processes]
  BY DEF ProcsOK
<1>2. proc' = [proc EXCEPT ![p] = At(proc[p], pc)] /\ At(proc[p], pc) \in Processes
  BY <1>1, AtTyped DEF Goto
<1>3. ShapeOK(At(proc[p], pc))
  BY <1>1 DEF ShapeOK, At, NoProcess, Processes
<1> QED BY <1>1, <1>2, <1>3 DEF ProcsOK

LEMMA StartShape ==
  ASSUME ProcsOK, NEW p \in Procs, Start(p)
  PROVE  ProcsOK'
<1>1. PICK kind \in Kinds, pid \in Pids, env \in Environments :
        proc' = [proc EXCEPT ![p] = Started(kind, pid, env)]
  BY DEF Start
<1> DEFINE r == Started(kind, pid, env)
<1>2. r \in Processes /\ ShapeOK(r)
  BY StartedFacts DEF ShapeOK
<1>3. proc' = [proc EXCEPT ![p] = r]
  BY <1>1
<1> HIDE DEF r
<1> QED BY <1>2, <1>3 DEF ProcsOK

LEMMA ProbeShape ==
  ASSUME ProcsOK, NEW p \in Procs, ProbeWrapper(p)
  PROVE  ProcsOK'
<1>1. PICK c \in Procs, pid \in Pids :
        proc' = [proc EXCEPT ![p].pc = "await", ![p].child = c,
                             ![c] = Started("pip", pid, proc[p].env)]
  BY DEF ProbeWrapper
<1>2. proc[p] \in Processes /\ ShapeOK(proc[p]) /\ proc[p].pc = "path"
  BY DEF ProcsOK, ProbeWrapper
<1> DEFINE r == Started("pip", pid, proc[p].env)
           w == [proc[p] EXCEPT !.pc = "await", !.child = c]
<1>3. r \in Processes /\ ShapeOK(r)
  BY <1>2, StartedFacts DEF ShapeOK, Processes
<1>4. w \in Processes
  BY <1>2 DEF Processes
<1>5. w.pc = "await" /\ w.pos = proc[p].pos /\ w.kind = proc[p].kind
  BY <1>2 DEF Processes
<1>6. ShapeOK(w)
  BY <1>2, <1>5 DEF ShapeOK
<1>7. /\ DOMAIN proc' = Procs /\ proc' = [q \in Procs |-> proc'[q]]
      /\ \A q \in Procs : proc'[q] \in {proc[q], r, w}
  BY <1>1 DEF ProcsOK
<1> HIDE DEF r, w
<1> QED BY <1>3, <1>4, <1>6, <1>7 DEF ProcsOK

LEMMA OpenShape ==
  ASSUME ProcsOK, DiskOK, NEW p \in Procs, OpenScratch(p)
  PROVE  ProcsOK' /\ DiskOK'
<1>1. PICK i \in Inodes :
        /\ scratch' = [scratch EXCEPT ![ScratchName(p)] = i]
        /\ file' = [file EXCEPT ![i].data = {}, ![i].synced = FALSE, ![i].old = FALSE]
        /\ proc' = [proc EXCEPT ![p].pc = "write", ![p].inode = i]
        /\ UNCHANGED <<onPath, cached, installed, crashes, outage>>
  BY DEF OpenScratch
<1>2. proc[p] \in Processes /\ proc[p].pos = 0 /\ proc[p].kind \in Writers
  BY DEF ProcsOK, ShapeOK, OpenScratch
<1> DEFINE r == [proc[p] EXCEPT !.pc = "write", !.inode = i]
           f == [file[i] EXCEPT !.data = {}, !.synced = FALSE, !.old = FALSE]
<1>3. r \in Processes
  BY <1>2 DEF Processes
<1>4. r.pos = 0 /\ r.kind \in Writers
  BY <1>2 DEF Processes
<1>5. ShapeOK(r)
  BY <1>4, SizeAssumption DEF ShapeOK
<1>6. proc' = [proc EXCEPT ![p] = r]
  BY <1>1 DEF ProcsOK
<1>7. f \in Files
  BY DEF DiskOK, Files
<1>8. file' = [file EXCEPT ![i] = f]
  BY <1>1 DEF DiskOK
<1> HIDE DEF r, f
<1>9. ProcsOK'
  BY <1>3, <1>5, <1>6 DEF ProcsOK
<1>10. DiskOK'
  BY <1>1, <1>7, <1>8 DEF DiskOK
<1> QED BY <1>9, <1>10

LEMMA WriteShape ==
  ASSUME ProcsOK, DiskOK, NEW p \in Procs, WriteChunk(p)
  PROVE  ProcsOK' /\ DiskOK'
<1> DEFINE i == proc[p].inode
           next == proc[p].pos + 1
           pc == IF next < Size THEN "write"
                 ELSE IF proc[p].kind = "pip" THEN "sync" ELSE "chmod"
           r == [proc[p] EXCEPT !.pos = next, !.pc = pc]
           f == [file[i] EXCEPT !.data = @ \cup {next}, !.synced = FALSE]
<1>1. /\ proc[p] \in Processes /\ proc[p].pos \in 0..Size /\ proc[p].pos < Size
      /\ proc[p].kind \in Writers
  BY DEF ProcsOK, ShapeOK, WriteChunk, Processes
<1>2. next \in 0..Size /\ next \in Chunks
  BY <1>1, SizeAssumption DEF Chunks
<1>3. pc \in Phases /\ pc \in {"write", "sync", "chmod"} /\ (pc = "write" => next < Size)
  OBVIOUS
<1>4. i \in Inodes => f \in Files
  BY <1>2 DEF DiskOK, Files
<1>5. /\ proc' = [proc EXCEPT ![p] = r] /\ file' = [file EXCEPT ![i] = f]
      /\ UNCHANGED <<onPath, cached, scratch, installed, crashes, outage>>
  BY DEF WriteChunk, ProcsOK, DiskOK
<1> HIDE DEF pc, next, i
<1>6. r \in Processes /\ r.pc = pc /\ r.pos = next /\ r.kind = proc[p].kind
  <2> HIDE DEF Phases
  <2> DEFINE a == Advanced(proc[p], next, pc)
  <2>1. r = a
    BY DEF Advanced
  <2>2. a \in Processes /\ a.pc = pc /\ a.pos = next /\ a.kind = proc[p].kind
    BY <1>1, <1>2, <1>3, AdvancedTyped
  <2> HIDE DEF r, a
  <2> QED BY <2>1, <2>2
<1> HIDE DEF r, f
<1>7. ShapeOK(r)
  BY <1>1, <1>3, <1>6 DEF ShapeOK
<1>8. ProcsOK'
  BY <1>5, <1>6, <1>7 DEF ProcsOK
<1>9. DiskOK'
  BY <1>4, <1>5 DEF DiskOK
<1> QED BY <1>8, <1>9

\* The steps that end in a Goto.
LEMMA MoveShape ==
  ASSUME ProcsOK, DiskOK, NEW p \in Procs,
         \/ CheckCache(p) \/ CheckPath(p) \/ ProbeFails(p) \/ ProbeAnswers(p)
         \/ Fetch(p) \/ Sync(p) \/ Chmod(p) \/ Rename(p) \/ Unlink(p)
         \/ StagingFails(p) \/ Abort(p) \/ Exec(p) \/ Kill(p)
  PROVE  ProcsOK' /\ DiskOK'
<1>1. /\ proc[p].kind \in Kinds /\ proc[p].pid \in Pids
      /\ proc[p].pc \in Staging \cup {"fetch", "path", "await"} => proc[p].kind \in Writers
  BY DEF ProcsOK, ShapeOK, Processes
<1>2. \E pc \in Phases :
        /\ Goto(p, pc)
        /\ pc \in {"fetch", "open", "cache", "path"} =>
             proc[p].pc \in {"fetch", "open", "cache", "path", "await"}
        /\ pc \in Staging \cup {"fetch", "path"} => proc[p].kind \in Writers
        /\ pc \notin {"write", "await"}
  <2>1. CASE CheckCache(p)
    BY <1>1, <2>1 DEF CheckCache, AfterMiss
  <2>2. CASE CheckPath(p) \/ ProbeFails(p) \/ ProbeAnswers(p)
    BY <1>1, <2>2 DEF CheckPath, ProbeFails, ProbeAnswers, AfterPath
  <2>3. CASE Fetch(p)
    BY <1>1, <2>3 DEF Fetch
  <2>4. CASE Sync(p) \/ Chmod(p) \/ Rename(p) \/ Unlink(p)
    BY <1>1, <2>4 DEF Sync, Chmod, Rename, Unlink
  <2>5. CASE StagingFails(p) \/ Abort(p) \/ Exec(p) \/ Kill(p)
    BY <1>1, <2>5 DEF StagingFails, Abort, Exec, Kill
  <2> QED BY <2>1, <2>2, <2>3, <2>4, <2>5
<1>3. ProcsOK'
  BY <1>2, GotoShape
<1>4. DiskOK'
  <2>1. CASE \/ CheckCache(p) \/ CheckPath(p) \/ ProbeFails(p) \/ ProbeAnswers(p)
             \/ Fetch(p) \/ StagingFails(p) \/ Exec(p)
    BY <2>1 DEF CheckCache, CheckPath, ProbeFails, ProbeAnswers, Fetch,
                StagingFails, Exec, DiskOK
  <2>2. CASE Sync(p)
    <3>1. \A i \in Inodes : [file[i] EXCEPT !.synced = TRUE] \in Files
      BY DEF DiskOK, Files
    <3> QED BY <2>2, <3>1 DEF Sync, DiskOK
  <2>3. CASE Chmod(p)
    <3>1. \A i \in Inodes : [file[i] EXCEPT !.exec = TRUE] \in Files
      BY DEF DiskOK, Files
    <3> QED BY <2>3, <3>1 DEF Chmod, DiskOK
  <2>4. CASE Rename(p)
    <3>1. /\ file' \in [Inodes -> Files]
          /\ scratch' \in [ScratchNames -> Inodes \cup {None}]
      BY <2>4, UnlinkedTyped DEF Rename, DiskOK
    <3>2. cached' \in Inodes \cup {None}
      <4>1. ScratchName(p) \in ScratchNames
        BY <1>1, <2>4 DEF Rename, ScratchName, ScratchNames
      <4> QED BY <2>4, <4>1 DEF Rename, DiskOK
    <3> QED BY <2>4, <3>1, <3>2 DEF Rename, DiskOK
  <2>5. CASE Unlink(p) \/ Abort(p)
    BY <2>5, UnlinkedTyped DEF Unlink, Abort, DiskOK
  <2>6. CASE Kill(p)
    <3>1. crashes' \in 0..MaxCrashes
      BY <2>6, MaxCrashesAssumption DEF Kill, DiskOK
    <3> QED BY <2>6, <3>1 DEF Kill, DiskOK
  <2> QED BY <2>1, <2>2, <2>3, <2>4, <2>5, <2>6
<1> QED BY <1>3, <1>4

LEMMA PowerFailsShape ==
  ASSUME ProcsOK, DiskOK, PowerFails
  PROVE  ProcsOK' /\ DiskOK'
<1>1. PICK lost \in SUBSET Chunks :
        file' = [j \in Inodes |->
                   IF file[j].synced THEN file[j]
                   ELSE [file[j] EXCEPT !.data = @ \ lost]]
  BY DEF PowerFails
<1>2. \A j \in Inodes : [file[j] EXCEPT !.data = @ \ lost] \in Files
  BY DEF DiskOK, Files
<1>3. crashes' \in 0..MaxCrashes
  BY MaxCrashesAssumption DEF PowerFails, DiskOK
<1>4. DiskOK'
  BY <1>1, <1>2, <1>3 DEF PowerFails, DiskOK
<1>5. ASSUME NEW p \in Procs
      PROVE  At(proc[p], "failed") \in Processes /\ ShapeOK(At(proc[p], "failed"))
  <2>1. proc[p] \in Processes
    BY DEF ProcsOK
  <2>2. At(proc[p], "failed").pc = "failed"
    BY DEF At, NoProcess
  <2> QED BY <2>1, <2>2, AtTyped DEF ShapeOK
<1> QED BY <1>4, <1>5 DEF PowerFails, ProcsOK

\* Every reachable state is well typed, on any number of hosts.
THEOREM SpecInstallerTypeOK == InstallerSpec => []InstallerTypeOK
<1>1. InstallerInit => ProcsOK /\ DiskOK
  <2> SUFFICES ASSUME InstallerInit PROVE ProcsOK /\ DiskOK
    OBVIOUS
  <2>1. InstallerTypeOK /\ \A p \in Procs : WriterOK(proc[p])
    BY InitIInv DEF IInv, WritersOK
  <2> QED BY <2>1 DEF InstallerTypeOK, WriterOK, ProcsOK, ShapeOK, DiskOK
<1>2. ProcsOK /\ DiskOK /\ [InstallerNext]_vars => ProcsOK' /\ DiskOK'
  <2> SUFFICES ASSUME ProcsOK, DiskOK, [InstallerNext]_vars PROVE ProcsOK' /\ DiskOK'
    OBVIOUS
  <2>1. ASSUME NEW p \in Procs, Start(p) PROVE ProcsOK' /\ DiskOK'
    BY <2>1, StartShape DEF Start, DiskOK
  <2>2. ASSUME NEW p \in Procs, ProbeWrapper(p) PROVE ProcsOK' /\ DiskOK'
    BY <2>2, ProbeShape DEF ProbeWrapper, DiskOK
  <2>3. ASSUME NEW p \in Procs, ProcessStep(p) \/ Kill(p) PROVE ProcsOK' /\ DiskOK'
    BY <2>2, <2>3, OpenShape, WriteShape, MoveShape DEF ProcessStep
  <2>4. CASE PowerFails
    BY <2>4, PowerFailsShape
  <2>5. CASE UNCHANGED vars
    BY <2>5 DEF vars, ProcsOK, ShapeOK, DiskOK
  <2> QED BY <2>1, <2>2, <2>3, <2>4, <2>5 DEF InstallerNext
<1>3. ProcsOK /\ DiskOK => InstallerTypeOK
  BY DEF ProcsOK, DiskOK, InstallerTypeOK
<1> QED BY <1>1, <1>2, <1>3, PTL DEF InstallerSpec

-----------------------------------------------------------------------------
(* Theorems about one host. *)

LEMMA SpecIInv ==
  ASSUME OneHostOnly
  PROVE  InstallerSpec => []IInv
<1>1. IInv /\ [InstallerNext]_vars => IInv'
  BY NextIInv
<1> QED BY InitIInv, <1>1, PTL DEF InstallerSpec

\* On one host no two processes ever write one scratch file, and none writes
\* the published one (write_binary_atomically, tempPathFor).
THEOREM SpecScratchIsMine ==
  ASSUME OneHostOnly
  PROVE  InstallerSpec => []ScratchIsMine
<1>1. IInv => ScratchIsMine
  <2> SUFFICES ASSUME IInv, NEW p \in Procs, proc[p].pc \in Writing
               PROVE  /\ scratch[ScratchName(p)] = proc[p].inode
                      /\ cached # proc[p].inode
                      /\ \A q \in Procs \ {p} : proc[q].pc \in Writing =>
                           proc[q].inode # proc[p].inode
    BY DEF ScratchIsMine
  <2>1. /\ proc[p] \in Processes /\ WriterOK(proc[p])
        /\ proc[p].inode # None
    BY NoneAssumption DEF IInv, InstallerTypeOK, WritersOK, WriterOK
  <2>2. /\ scratch[ScratchName(p)] = proc[p].inode
        /\ ScratchName(p) \in ScratchNames
    BY <2>1 DEF WriterOK, ScratchName, ScratchNames, Processes
  <2>3. cached # proc[p].inode
    BY <2>1, <2>2 DEF IInv, NamesApart
  <2>4. \A q \in Procs \ {p} : proc[q].pc \in Writing =>
          proc[q].inode # proc[p].inode
    BY <2>2, WritersDiffer
  <2> QED BY <2>2, <2>3, <2>4
<1> QED BY <1>1, SpecIInv, PTL

\* On one host the cache entry is never partial, however many processes write,
\* fail and are killed; only a file that was never synced may lose data to a
\* power failure.
THEOREM SpecPublishedIsWhole ==
  ASSUME OneHostOnly
  PROVE  InstallerSpec => []PublishedIsWhole
<1>1. IInv => PublishedIsWhole
  BY DEF IInv, EntryOK, PublishedIsWhole, Whole
<1> QED BY <1>1, SpecIInv, PTL

\* On one host, once a postinstall said that the binary is in the cache the
\* shim finds it there, until the power fails.
THEOREM SpecInstalledServesShim ==
  ASSUME OneHostOnly
  PROVE  InstallerSpec => []InstalledServesShim
<1>1. IInv => InstalledServesShim
  BY DEF IInv, InstalledOK, InstalledServesShim
<1> QED BY <1>1, SpecIInv, PTL

\* On one host nothing partial is ever run, but for what a power failure tore.
THEOREM SpecRunsOnlyWhole ==
  ASSUME OneHostOnly
  PROVE  InstallerSpec => RunsOnlyWhole
<1>1. ASSUME IInv, [InstallerNext]_vars, NEW p \in Procs,
             proc[p].pc = "exec", proc'[p].pc = "ran"
      PROVE  Whole(cached) \/ Torn(cached)
  <2>1. proc[p] \in Processes /\ proc \in [Procs -> Processes]
    BY <1>1 DEF IInv, InstallerTypeOK
  <2>2. ~UNCHANGED vars
    BY <1>1 DEF vars
  <2>3. ~PowerFails
    BY <1>1, <2>1 DEF PowerFails, Live, At, NoProcess
  <2>4. PICK q \in Procs : Start(q) \/ ProcessStep(q) \/ Kill(q)
    BY <1>1, <2>2, <2>3 DEF InstallerNext
  <2>5. q = p
    <3>1. ASSUME q # p, ProbeWrapper(q) PROVE FALSE
      <4>1. PICK c \in Procs, pid \in Pids :
              /\ ~Live(c)
              /\ proc' = [proc EXCEPT ![q].pc = "await", ![q].child = c,
                                      ![c] = Started("pip", pid, proc[q].env)]
        BY <3>1 DEF ProbeWrapper, Free
      <4> QED BY <1>1, <2>1, <3>1, <4>1 DEF Live
    <3>2. ASSUME q # p, ~ProbeWrapper(q) PROVE proc'[p] = proc[p]
      BY <2>1, <2>4, <3>2
      DEF ProcessStep, Start, Kill, CheckCache, CheckPath, ProbeFails,
          ProbeAnswers, Fetch, OpenScratch, WriteChunk, Sync, Chmod, Rename,
          Unlink, StagingFails, Abort, Exec, Goto
    <3> QED BY <1>1, <3>1, <3>2
  <2>6. Exec(p)
    <3>1. ~Start(p)
      BY <1>1 DEF Start, Free, Live
    <3>2. ~Kill(p)
      BY <1>1, <2>1 DEF Kill, Goto, At, NoProcess
    <3> QED BY <1>1, <2>4, <2>5, <3>1, <3>2
        DEF ProcessStep, CheckCache, CheckPath, ProbeWrapper, ProbeFails,
            ProbeAnswers, Fetch, OpenScratch, WriteChunk, Sync, Chmod, Rename,
            Unlink, StagingFails, Abort
  <2>7. cached # None /\ file[cached].exec
    BY <1>1, <2>1, <2>6 DEF Exec, Goto, At
  <2> QED BY <1>1, <2>7 DEF IInv, EntryOK, Whole
<1>2. IInv /\ [InstallerNext]_vars =>
        [\A p \in Procs : proc[p].pc = "exec" /\ proc'[p].pc = "ran" =>
           Whole(cached) \/ Torn(cached)]_vars
  BY <1>1
<1> QED BY <1>2, SpecIInv, PTL DEF InstallerSpec, RunsOnlyWhole

-----------------------------------------------------------------------------
(* The wrappers implement CacheEntry. *)

\* The published file keeps its data, mode and state of syncing.
EntryKept ==
  /\ cached' = cached
  /\ cached # None =>
       /\ file'[cached].data = file[cached].data
       /\ file'[cached].exec = file[cached].exec
       /\ file'[cached].synced = file[cached].synced

LEMMA EntryUntouched ==
  ASSUME EntryKept, crashes' = crashes, outage' = outage
  PROVE  UNCHANGED Cache!cacheVars
<1>1. EntryState' = EntryState
  BY DEF EntryKept, EntryState, Whole
<1>2. EntryDurable' = EntryDurable
  BY DEF EntryKept, EntryDurable
<1> QED BY <1>1, <1>2 DEF Cache!cacheVars

\* What a writer changes is never the published file.
LEMMA WriterKeepsEntry ==
  ASSUME IInv, NEW p \in Procs,
         \/ OpenScratch(p) \/ WriteChunk(p) \/ Sync(p) \/ Chmod(p)
         \/ Unlink(p) \/ Abort(p)
  PROVE  EntryKept
<1>1. cached' = cached
  BY DEF OpenScratch, WriteChunk, Sync, Chmod, Unlink, Abort
<1>2. /\ proc[p] \in Processes /\ WriterOK(proc[p]) /\ file \in [Inodes -> Files]
      /\ cached \in Inodes \cup {None}
  BY DEF IInv, InstallerTypeOK, WritersOK
<1>3. proc[p].pc \in Staging
  BY DEF OpenScratch, WriteChunk, Sync, Chmod, Unlink, Abort
<1>4. ScratchName(p) \in ScratchNames
  BY <1>2, <1>3 DEF ScratchName, ScratchNames, WriterOK, Processes
<1>5. scratch[ScratchName(p)] # None => scratch[ScratchName(p)] # cached
  BY <1>4 DEF IInv, NamesApart
<1>6. proc[p].pc \in Writing =>
        proc[p].inode \in Inodes /\ proc[p].inode = scratch[ScratchName(p)]
  BY <1>2 DEF WriterOK, ScratchName
<1>7. cached # None => file'[cached] = file[cached]
  <2>1. CASE OpenScratch(p)
    <3>1. PICK i \in Inodes :
            /\ IF scratch[ScratchName(p)] = None
               THEN ~InUse(i) ELSE i = scratch[ScratchName(p)]
            /\ file' = [file EXCEPT ![i].data = {}, ![i].synced = FALSE,
                                    ![i].old = FALSE]
      BY <2>1 DEF OpenScratch
    <3>2. i # cached
      BY <1>5, <3>1 DEF InUse
    <3> QED BY <1>2, <3>1, <3>2
  <2>2. CASE WriteChunk(p) \/ Sync(p)
    <3>1. proc[p].pc \in Writing
      BY <2>2 DEF WriteChunk, Sync
    <3>2. proc[p].inode # cached
      BY <1>5, <1>6, <3>1, NoneAssumption
    <3>3. \A i \in Inodes : i # proc[p].inode => file'[i] = file[i]
      BY <1>2, <2>2 DEF WriteChunk, Sync
    <3> QED BY <1>2, <3>2, <3>3
  <2>3. CASE Chmod(p)
    BY <1>2, <1>5, <2>3 DEF Chmod
  <2>4. CASE Unlink(p) \/ Abort(p)
    BY <1>2, <1>5, <2>4 DEF Unlink, Abort, Unlinked
  <2> QED BY <2>1, <2>2, <2>3, <2>4
<1> QED BY <1>1, <1>7 DEF EntryKept

\* A rename publishes a binary that is whole.
LEMMA RenamePublishes ==
  ASSUME IInv, NEW p \in Procs, Rename(p)
  PROVE  Cache!Publish
<1> DEFINE i == proc[p].inode
<1>1. /\ WriterOK(proc[p]) /\ proc[p].pc = "rename" /\ proc[p] \in Processes
      /\ file \in [Inodes -> Files]
  BY DEF IInv, InstallerTypeOK, WritersOK, Rename
<1>2. /\ i \in Inodes /\ i # None /\ scratch[ScratchName(p)] = i
      /\ file[i].data = Chunks /\ file[i].exec
  BY <1>1, NoneAssumption DEF WriterOK, ScratchName, Chunks
<1>3. ScratchName(p) \in ScratchNames
  BY <1>1 DEF ScratchName, ScratchNames, WriterOK, Processes
<1>4. cached' = i /\ i # cached
  BY <1>2, <1>3 DEF Rename, IInv, NamesApart
<1>5. file'[i] = file[i]
  BY <1>2, <1>4 DEF Rename, Unlinked
<1>6. EntryState' = "whole"
  BY <1>2, <1>4, <1>5 DEF EntryState, Whole
<1>7. EntryDurable' \in BOOLEAN
  BY DEF EntryDurable
<1>8. crashes' = crashes /\ outage' = outage
  BY DEF Rename
<1> QED BY <1>6, <1>7, <1>8 DEF Cache!Publish

\* A power failure takes nothing but data that was not synced.
LEMMA PowerTears ==
  ASSUME IInv, PowerFails
  PROVE  Cache!PowerFailure
<1>1. PICK lost \in SUBSET Chunks :
        file' = [j \in Inodes |->
                   IF file[j].synced THEN file[j]
                   ELSE [file[j] EXCEPT !.data = @ \ lost]]
  BY DEF PowerFails
<1>2. /\ crashes' = crashes + 1 /\ outage' = TRUE /\ cached' = cached
      /\ cached \in Inodes \cup {None}
  BY DEF PowerFails, IInv, InstallerTypeOK
<1>3. ASSUME NEW j \in Inodes
      PROVE  /\ file'[j].exec = file[j].exec /\ file'[j].synced = file[j].synced
             /\ file[j].synced => file'[j] = file[j]
             /\ file'[j].data \subseteq file[j].data /\ file[j].data \subseteq Chunks
  BY <1>1 DEF IInv, InstallerTypeOK, Files
<1>4. EntryDurable' = EntryDurable
  BY <1>2, <1>3 DEF EntryDurable
<1>5. \/ EntryState' = EntryState
      \/ EntryState = "whole" /\ ~EntryDurable /\ EntryState' = "partial"
  <2>1. CASE cached = None
    BY <1>2, <2>1 DEF EntryState
  <2>2. CASE cached # None
    <3>1. Whole(cached)' => Whole(cached)
      BY <1>2, <1>3, <2>2 DEF Whole
    <3>2. file[cached].synced => (Whole(cached)' <=> Whole(cached))
      BY <1>2, <1>3, <2>2 DEF Whole
    <3> QED BY <1>2, <2>2, <3>1, <3>2 DEF EntryState, EntryDurable
  <2> QED BY <2>1, <2>2
<1> QED BY <1>2, <1>4, <1>5 DEF Cache!PowerFailure

LEMMA NextEntry ==
  ASSUME IInv, [InstallerNext]_vars
  PROVE  [Cache!EntryNext]_Cache!cacheVars
<1>1. CASE PowerFails
  BY <1>1, PowerTears DEF Cache!EntryNext
<1>2. ASSUME NEW p \in Procs, Rename(p)
      PROVE  Cache!EntryNext
  BY <1>2, RenamePublishes DEF Cache!EntryNext
<1>3. ASSUME NEW p \in Procs, Kill(p)
      PROVE  Cache!EntryNext
  <2>1. /\ cached' = cached /\ file' = file /\ outage' = outage
        /\ crashes' = crashes + 1
    BY <1>3 DEF Kill
  <2>2. EntryState' = EntryState /\ EntryDurable' = EntryDurable
    BY <2>1 DEF EntryState, EntryDurable, Whole
  <2> QED BY <2>1, <2>2 DEF Cache!EntryNext, Cache!ProcessDies
<1>4. ASSUME NEW p \in Procs,
             \/ OpenScratch(p) \/ WriteChunk(p) \/ Sync(p) \/ Chmod(p)
             \/ Unlink(p) \/ Abort(p)
      PROVE  UNCHANGED Cache!cacheVars
  <2>1. crashes' = crashes /\ outage' = outage
    BY <1>4 DEF OpenScratch, WriteChunk, Sync, Chmod, Unlink, Abort
  <2> QED BY <1>4, <2>1, WriterKeepsEntry, EntryUntouched
<1>5. ASSUME NEW p \in Procs,
             \/ Start(p) \/ CheckCache(p) \/ CheckPath(p) \/ ProbeWrapper(p)
             \/ ProbeFails(p) \/ ProbeAnswers(p) \/ Fetch(p) \/ StagingFails(p)
             \/ Exec(p)
      PROVE  UNCHANGED Cache!cacheVars
  <2>1. UNCHANGED <<cached, file, crashes, outage>>
    BY <1>5 DEF Start, CheckCache, CheckPath, ProbeWrapper, ProbeFails,
                ProbeAnswers, Fetch, StagingFails, Exec
  <2> QED BY <2>1, EntryUntouched DEF EntryKept
<1>6. CASE UNCHANGED vars
  <2>1. UNCHANGED <<cached, file, crashes, outage>>
    BY <1>6 DEF vars
  <2> QED BY <2>1, EntryUntouched DEF EntryKept
<1> QED BY <1>1, <1>2, <1>3, <1>4, <1>5, <1>6 DEF InstallerNext, ProcessStep

\* On one host the wrappers implement CacheEntry: the entry never goes away, no
\* step changes the published file in place, each publication is of a whole
\* binary, and only a power failure takes data from it that was not synced
\* (writeAtomic, write_binary_atomically).
THEOREM SpecEntrySpec ==
  ASSUME OneHostOnly
  PROVE  InstallerSpec => EntrySpec
<1>1. InstallerInit => Cache!EntryInit
  <2> SUFFICES ASSUME InstallerInit PROVE Cache!EntryInit
    OBVIOUS
  <2>1. EntryState \in {"none", "partial", "whole"}
    BY DEF EntryState
  <2>2. EntryDurable \in BOOLEAN
    BY InitIInv DEF EntryDurable, IInv, InstallerTypeOK, Files
  <2> QED BY <2>1, <2>2 DEF Cache!EntryInit, InstallerInit
<1>2. InstallerSpec => Cache!EntryInit /\ [][Cache!EntryNext]_Cache!cacheVars
  BY <1>1, NextEntry, SpecIInv, PTL DEF InstallerSpec
<1> QED BY <1>2 DEF EntrySpec, Cache!EntrySpec
=============================================================================
