----------------------------- MODULE Installer -----------------------------
(***************************************************************************)
(* The wrappers that download the scythe binary (src/release): the npm     *)
(* postinstall script, the npm shim and the console script of the Python   *)
(* package.  Any number of their processes run at once, on one or several  *)
(* hosts, over one cache entry and the scratch files beside it.  POSIX     *)
(* only; the asset of the pinned version is split into Size chunks.        *)
(***************************************************************************)
EXTENDS Naturals

CONSTANTS
  None,
  Procs,          \* places in the process tables
  HostOf(_),      \* the host, or container, that a place belongs to
  Pids,
  Inodes,
  Size,           \* chunks a binary is written in
  OnPath,         \* what `scythe' may be on PATH
  Environments,   \* "plain", SCYTHE_SKIP_DOWNLOAD, SCYTHE_BINARY
  Leftovers,      \* files an older wrapper may have left in the cache
  MaxCrashes      \* bound on kills and power failures

Chunks == 1..Size
Kinds == {"postinstall", "shim", "pip"}
Writers == {"postinstall", "pip"}
ScratchNames == Writers \X Pids

Files ==
  [data : SUBSET Chunks, exec : BOOLEAN, synced : BOOLEAN, old : BOOLEAN]

NoFile == [data |-> {}, exec |-> FALSE, synced |-> FALSE, old |-> TRUE]

ASSUME SizeAssumption == Size \in Nat \ {0}
ASSUME MaxCrashesAssumption == MaxCrashes \in Nat
ASSUME PidsAssumption == Pids # {}
ASSUME NoneAssumption == None \notin Inodes \cup Procs
ASSUME OnPathAssumption == OnPath \subseteq {"none", "scythe", "shim", "pip"}
ASSUME EnvironmentsAssumption ==
  "plain" \in Environments /\ Environments \subseteq {"plain", "skip", "binary"}
\* Older wrappers, too, set the mode last.
ASSUME LeftoversAssumption ==
  /\ Leftovers \subseteq Files
  /\ \A f \in Leftovers : f.old /\ (f.exec => f.data = Chunks)

VARIABLES
  onPath,
  cached,    \* the inode of the cache entry
  scratch,   \* the inode of each scratch name
  file,      \* what each inode holds
  proc,
  installed, \* history: a postinstall said that the binary is in the cache
  crashes,
  outage     \* history: the power has failed

vars == <<onPath, cached, scratch, file, proc, installed, crashes, outage>>

Ended == {"off", "done", "ran", "failed", "notRun"}
Writing == {"write", "sync", "chmod", "rename"}
Staging == {"open", "unlink", "abort"} \cup Writing
Phases == Ended \cup Staging \cup {"path", "await", "cache", "fetch", "exec"}

Processes ==
  [pc : Phases, kind : Kinds, pid : Pids, env : Environments,
   inode : Inodes \cup {None}, pos : 0..Size, child : Procs \cup {None}]

\* Every process is where it can be, every name denotes an inode or nothing.
InstallerTypeOK ==
  /\ onPath \in OnPath
  /\ cached \in Inodes \cup {None}
  /\ scratch \in [ScratchNames -> Inodes \cup {None}]
  /\ file \in [Inodes -> Files]
  /\ proc \in [Procs -> Processes]
  /\ installed \in BOOLEAN /\ crashes \in 0..MaxCrashes /\ outage \in BOOLEAN

-----------------------------------------------------------------------------
Live(p) == proc[p].pc \notin Ended

\* Mutant: a name without the pid.
ScratchNameFixed(p) == <<proc[p].kind, CHOOSE n \in Pids : TRUE>>

\* .scythe.tmp-<pid>-1 of npm, .scythe.<pid>.tmp of pip: no host in the name.
ScratchName(p) == <<proc[p].kind, proc[p].pid>>

InUse(i) ==
  \/ cached = i
  \/ \E n \in ScratchNames : scratch[n] = i
  \/ \E p \in Procs : Live(p) /\ proc[p].inode = i

Whole(i) == i # None /\ file[i].data = Chunks /\ file[i].exec

\* Mutant: the postinstall script looks no closer than pip does.
UsableNonEmpty(kind) ==
  /\ cached # None
  /\ file[cached].data # {}
  /\ kind = "shim" => file[cached].exec

\* isUsableCachedBinary and is_usable_cached_binary: pip does not look at the
\* executable bits.
Usable(kind) ==
  /\ cached # None
  /\ file[cached].data # {}
  /\ kind # "pip" => file[cached].exec

NoProcess ==
  [pc |-> "off", kind |-> "shim", pid |-> CHOOSE n \in Pids : TRUE,
   env |-> "plain", inode |-> None, pos |-> 0, child |-> None]

\* Of a process that has ended nothing is left but how it ended.
At(r, pc) ==
  IF pc \in Ended THEN [NoProcess EXCEPT !.pc = pc] ELSE [r EXCEPT !.pc = pc]

\* A file whose only name is removed is gone.
Unlinked(i) == [j \in Inodes |-> IF j = i THEN NoFile ELSE file[j]]

Goto(p, pc) == proc' = [proc EXCEPT ![p] = At(@, pc)]

-----------------------------------------------------------------------------
(* Starting.  SCYTHE_BINARY is run as given, SCYTHE_SKIP_DOWNLOAD ends the   *)
(* postinstall script at once.                                              *)

FirstPhase(kind, env) ==
  IF kind = "postinstall"
  THEN IF env \in {"binary", "skip"} THEN "done" ELSE "path"
  ELSE IF env = "binary" THEN "ran" ELSE "cache"

Started(kind, pid, env) ==
  At([NoProcess EXCEPT !.kind = kind, !.pid = pid, !.env = env],
     FirstPhase(kind, env))

InstallerInit ==
  /\ onPath \in OnPath
  /\ scratch = [n \in ScratchNames |-> None]
  /\ \E f \in Leftovers, old \in Inodes :
       /\ cached = IF f = NoFile THEN None ELSE old
       /\ file = [i \in Inodes |-> IF i = old THEN f ELSE NoFile]
  /\ proc = [p \in Procs |-> NoProcess]
  /\ installed = FALSE /\ crashes = 0 /\ outage = FALSE

\* A place is free when its process has ended and nobody waits for it; the
\* operating system gives no pid twice at a time on one host.
Free(p, pid) ==
  /\ ~Live(p)
  /\ \A q \in Procs : Live(q) =>
       proc[q].child # p /\ (HostOf(q) = HostOf(p) => proc[q].pid # pid)

\* The user, npm or a build starts one.
Start(p) ==
  /\ \E kind \in Kinds, pid \in Pids, env \in Environments :
       /\ Free(p, pid)
       /\ proc' = [proc EXCEPT ![p] = Started(kind, pid, env)]
  /\ UNCHANGED <<onPath, cached, scratch, file, installed, crashes, outage>>

-----------------------------------------------------------------------------
(* Looking for a binary: the cache and `scythe --version' on PATH. *)

AfterMiss(kind) ==
  CASE kind = "postinstall" -> "fetch"
    [] kind = "shim" -> "failed"
    [] kind = "pip" -> "path"

CheckCache(p) ==
  /\ proc[p].pc = "cache"
  /\ Goto(p, IF Usable(proc[p].kind)
             THEN IF proc[p].kind = "postinstall" THEN "done" ELSE "exec"
             ELSE AfterMiss(proc[p].kind))
  /\ installed' =
       (installed \/ (proc[p].kind = "postinstall" /\ Usable("postinstall")))
  /\ UNCHANGED <<onPath, cached, scratch, file, crashes, outage>>

\* pip returns Path("scythe"), which os.execv takes relative to the working
\* directory: there is no such file.
AfterPath(p, found) ==
  IF proc[p].kind = "postinstall"
  THEN IF found THEN "done" ELSE "cache"
  ELSE IF found THEN "notRun"
       ELSE IF proc[p].env = "skip" THEN "failed" ELSE "fetch"

\* The npm shim on PATH prints the version of the binary in the cache.
CheckPath(p) ==
  /\ proc[p].pc = "path" /\ onPath # "pip"
  /\ Goto(p, AfterPath(p, \/ onPath = "scythe"
                          \/ onPath = "shim" /\ Usable("shim")))
  /\ UNCHANGED <<onPath, cached, scratch, file, installed, crashes, outage>>

\* pip's console script is itself named scythe: on PATH it is started, and
\* waited for, like any other.
ProbeWrapper(p) ==
  /\ proc[p].pc = "path" /\ onPath = "pip"
  /\ \E c \in Procs, pid \in Pids :
       /\ HostOf(c) = HostOf(p) /\ Free(c, pid)
       /\ proc' = [proc EXCEPT ![p].pc = "await", ![p].child = c,
                                ![c] = Started("pip", pid, proc[p].env)]
  /\ UNCHANGED <<onPath, cached, scratch, file, installed, crashes, outage>>

\* The process table is full: an OSError, taken for "not on PATH".
ProbeFails(p) ==
  /\ proc[p].pc = "path" /\ onPath = "pip"
  /\ ~\E c \in Procs, pid \in Pids : HostOf(c) = HostOf(p) /\ Free(c, pid)
  /\ Goto(p, AfterPath(p, FALSE))
  /\ UNCHANGED <<onPath, cached, scratch, file, installed, crashes, outage>>

ProbeAnswers(p) ==
  /\ proc[p].pc = "await" /\ ~Live(proc[p].child)
  /\ Goto(p, AfterPath(p, proc[proc[p].child].pc = "ran"))
  /\ UNCHANGED <<onPath, cached, scratch, file, installed, crashes, outage>>

-----------------------------------------------------------------------------
(* Downloading.  The checksums, the asset or its verification may fail. *)

Fetch(p) ==
  /\ proc[p].pc = "fetch"
  /\ \E pc \in {"open", "failed"} : Goto(p, pc)
  /\ UNCHANGED <<onPath, cached, scratch, file, installed, crashes, outage>>

-----------------------------------------------------------------------------
(* Publishing: write_binary_atomically and writeAtomic. *)

\* Mutant: an entry that will not do is removed before a new one is staged.
OpenScratchClears(p) ==
  /\ proc[p].pc = "open"
  /\ \E i \in Inodes :
       /\ IF scratch[ScratchName(p)] = None
          THEN ~InUse(i) ELSE i = scratch[ScratchName(p)]
       /\ scratch' = [scratch EXCEPT ![ScratchName(p)] = i]
       /\ file' = [Unlinked(cached) EXCEPT ![i].data = {}, ![i].synced = FALSE,
                                           ![i].old = FALSE]
       /\ proc' = [proc EXCEPT ![p].pc = "write", ![p].inode = i]
  /\ cached' = None
  /\ UNCHANGED <<onPath, installed, crashes, outage>>

\* A scratch file that a killed process with this pid left is truncated and
\* keeps its mode.  (copyFile may set the mode of a new one already here;
\* nobody looks before Chmod has set it.)
OpenScratch(p) ==
  /\ proc[p].pc = "open"
  /\ \E i \in Inodes :
       /\ IF scratch[ScratchName(p)] = None
          THEN ~InUse(i) ELSE i = scratch[ScratchName(p)]
       /\ scratch' = [scratch EXCEPT ![ScratchName(p)] = i]
       /\ file' = [file EXCEPT ![i].data = {}, ![i].synced = FALSE,
                               ![i].old = FALSE]
       /\ proc' = [proc EXCEPT ![p].pc = "write", ![p].inode = i]
  /\ UNCHANGED <<onPath, cached, installed, crashes, outage>>

\* Mutants: a short write taken for all of it, one write too many.
WriteChunkShort(p) ==
  /\ proc[p].pc = "write"
  /\ LET next == proc[p].pos + 1
     IN /\ file' = [file EXCEPT
             ![proc[p].inode].data = @ \cup {next},
             ![proc[p].inode].synced = FALSE]
        /\ proc' = [proc EXCEPT
             ![p].pos = next,
             ![p].pc = IF proc[p].kind = "pip" THEN "sync" ELSE "chmod"]
  /\ UNCHANGED <<onPath, cached, scratch, installed, crashes, outage>>
WriteChunkAgain(p) ==
  /\ proc[p].pc = "write"
  /\ LET next == proc[p].pos + 1
     IN /\ file' = [file EXCEPT
             ![proc[p].inode].data = @ \cup {next},
             ![proc[p].inode].synced = FALSE]
        /\ proc' = [proc EXCEPT
             ![p].pos = next,
             ![p].pc = IF next <= Size THEN "write" ELSE "chmod"]
  /\ UNCHANGED <<onPath, cached, scratch, installed, crashes, outage>>

\* Only pip calls fsync.
WriteChunk(p) ==
  /\ proc[p].pc = "write"
  /\ LET next == proc[p].pos + 1
     IN /\ file' = [file EXCEPT
             ![proc[p].inode].data = @ \cup {next},
             ![proc[p].inode].synced = FALSE]
        /\ proc' = [proc EXCEPT
             ![p].pos = next,
             ![p].pc = IF next < Size THEN "write"
                       ELSE IF proc[p].kind = "pip" THEN "sync" ELSE "chmod"]
  /\ UNCHANGED <<onPath, cached, scratch, installed, crashes, outage>>

Sync(p) ==
  /\ proc[p].pc = "sync"
  /\ file' = [file EXCEPT ![proc[p].inode].synced = TRUE]
  /\ Goto(p, "chmod")
  /\ UNCHANGED <<onPath, cached, scratch, installed, crashes, outage>>

\* chmod, rename and unlink go by name, not by handle.
Chmod(p) ==
  /\ proc[p].pc = "chmod" /\ scratch[ScratchName(p)] # None
  /\ file' = [file EXCEPT ![scratch[ScratchName(p)]].exec = TRUE]
  /\ Goto(p, "rename")
  /\ UNCHANGED <<onPath, cached, scratch, installed, crashes, outage>>

Rename(p) ==
  /\ proc[p].pc = "rename" /\ scratch[ScratchName(p)] # None
  /\ cached' = scratch[ScratchName(p)]
  /\ scratch' = [scratch EXCEPT ![ScratchName(p)] = None]
  /\ file' = Unlinked(cached)
  /\ Goto(p, IF proc[p].kind = "pip" THEN "unlink" ELSE "done")
  /\ installed' = (installed \/ proc[p].kind = "postinstall")
  /\ UNCHANGED <<onPath, crashes, outage>>

\* pip's `finally', after a rename that succeeded.
Unlink(p) ==
  /\ proc[p].pc = "unlink"
  /\ scratch' = [scratch EXCEPT ![ScratchName(p)] = None]
  /\ file' = Unlinked(scratch[ScratchName(p)])
  /\ Goto(p, "exec")
  /\ UNCHANGED <<onPath, cached, installed, crashes, outage>>

\* A full disk, a vanished scratch file, any error on the way.
StagingFails(p) ==
  /\ proc[p].pc \in {"open"} \cup Writing
  /\ Goto(p, "abort")
  /\ UNCHANGED <<onPath, cached, scratch, file, installed, crashes, outage>>

Abort(p) ==
  /\ proc[p].pc = "abort"
  /\ scratch' = [scratch EXCEPT ![ScratchName(p)] = None]
  /\ file' = Unlinked(scratch[ScratchName(p)])
  /\ Goto(p, "failed")
  /\ UNCHANGED <<onPath, cached, installed, crashes, outage>>

\* Mutant: the mode is set, once more, before the binary is run.
ExecAnyMode(p) ==
  /\ proc[p].pc = "exec"
  /\ Goto(p, IF cached # None THEN "ran" ELSE "notRun")
  /\ UNCHANGED <<onPath, cached, scratch, file, installed, crashes, outage>>

\* By path: what runs is what the entry denotes now.
Exec(p) ==
  /\ proc[p].pc = "exec"
  /\ Goto(p, IF cached # None /\ file[cached].exec THEN "ran" ELSE "notRun")
  /\ UNCHANGED <<onPath, cached, scratch, file, installed, crashes, outage>>

-----------------------------------------------------------------------------
(* What happens to processes and disks. *)

Kill(p) ==
  /\ Live(p)
  /\ crashes < MaxCrashes /\ crashes' = crashes + 1
  /\ Goto(p, "failed")
  /\ UNCHANGED <<onPath, cached, scratch, file, installed, outage>>

\* Names survive, data that was not synced may not.
PowerFails ==
  /\ crashes < MaxCrashes /\ crashes' = crashes + 1
  /\ outage' = TRUE
  /\ proc' = [p \in Procs |->
       IF Live(p) THEN At(proc[p], "failed") ELSE proc[p]]
  /\ \E lost \in SUBSET Chunks :
       file' = [i \in Inodes |->
         IF file[i].synced THEN file[i]
         ELSE [file[i] EXCEPT !.data = @ \ lost]]
  /\ UNCHANGED <<onPath, cached, scratch, installed>>

ProcessStep(p) ==
  \/ CheckCache(p) \/ CheckPath(p)
  \/ ProbeWrapper(p) \/ ProbeFails(p) \/ ProbeAnswers(p)
  \/ Fetch(p)
  \/ OpenScratch(p) \/ WriteChunk(p) \/ Sync(p) \/ Chmod(p) \/ Rename(p)
  \/ Unlink(p) \/ StagingFails(p) \/ Abort(p)
  \/ Exec(p)

InstallerNext ==
  \/ \E p \in Procs : Start(p) \/ ProcessStep(p) \/ Kill(p)
  \/ PowerFails

InstallerSpec == InstallerInit /\ [][InstallerNext]_vars

-----------------------------------------------------------------------------
(* Properties. *)

\* Without fsync a rename may outlive the data it publishes: a file npm's
\* wrapper wrote is complete only while the power stays on.
Torn(i) == outage /\ ~file[i].synced

\* The cache entry is never partial, whoever writes at the same time, is
\* killed half-way or fails (write_binary_atomically, writeAtomic).
PublishedIsWhole ==
  cached # None /\ ~file[cached].old => Whole(cached) \/ Torn(cached)

\* While a process writes, its scratch name denotes the file it writes, and no
\* other process writes or publishes that file (tempPathFor).
ScratchIsMine ==
  \A p \in Procs : proc[p].pc \in Writing =>
    /\ scratch[ScratchName(p)] = proc[p].inode
    /\ cached # proc[p].inode
    /\ \A q \in Procs \ {p} :
         proc[q].pc \in Writing => proc[q].inode # proc[p].inode

\* The shim and pip start nothing that is incomplete, although the cache is
\* checked in one step and run in another (bin/scythe, cli.main).
RunsOnlyWhole ==
  [][\A p \in Procs : proc[p].pc = "exec" /\ proc'[p].pc = "ran" =>
       Whole(cached) \/ Torn(cached)]_vars

\* Once a postinstall said that the binary is in the cache the shim finds it
\* there, whatever other wrappers did since (install.js, bin/scythe).
InstalledServesShim == installed /\ ~outage => Usable("shim")

\* What ensure_binary returns can be run ("Returns the path to a usable
\* `scythe` binary", download.py).
ResolvedIsRunnable == \A p \in Procs : proc[p].pc # "notRun"
-----------------------------------------------------------------------------
(* Refinement. *)

EntryState ==
  IF cached = None THEN "none" ELSE IF Whole(cached) THEN "whole" ELSE "partial"

EntryDurable == cached # None /\ file[cached].synced

Cache == INSTANCE CacheEntry
           WITH entry <- EntryState, durable <- EntryDurable, failures <- crashes

\* However many wrappers stage, fail and are killed, they do to the cache entry
\* only what CacheEntry allows: no step but a rename touches it, in place or
\* otherwise (writeAtomic, write_binary_atomically).
EntrySpec == Cache!EntrySpec
=============================================================================
