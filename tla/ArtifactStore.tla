--------------------------- MODULE ArtifactStore ---------------------------
(***************************************************************************)
(* What `scythe generate' promises about its output tree, without saying   *)
(* how: one file is open at a time, a file changes only while it is open,  *)
(* and a file that is closed in one piece carries a header that tells what *)
(* its body was generated from.  A file may be left open half-way.         *)
(***************************************************************************)
CONSTANTS
  None,           \* no file is open
  Places,         \* where files may be
  Contents,       \* what may be there, nothing included
  Finished(_),    \* closed in one piece by this binary
  Truthful(_),    \* the header tells what the body was generated from
  Writable(_)

VARIABLES files, open

storeVars == <<files, open>>

StoreInit ==
  /\ files \in [Places -> Contents]
  /\ \A l \in Places : ~Finished(files[l])
  /\ open = None

OpenFile(l) ==
  /\ open = None
  /\ Writable(files[l])
  /\ files' = [files EXCEPT ![l] = files'[l]]
  /\ files'[l] \in Contents
  /\ ~Finished(files'[l])
  /\ open' = l

CloseFile ==
  /\ open # None
  /\ files' = [files EXCEPT ![open] = files'[open]]
  /\ files'[open] \in Contents
  /\ Finished(files'[open]) /\ Truthful(files'[open])
  /\ open' = None

AbandonFile ==
  /\ open # None
  /\ open' = None
  /\ UNCHANGED files

StoreNext == (\E l \in Places : OpenFile(l)) \/ CloseFile \/ AbandonFile

StoreSpec == StoreInit /\ [][StoreNext]_storeVars

=============================================================================
