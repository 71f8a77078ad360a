----------------------------- MODULE CacheEntry -----------------------------
(***************************************************************************)
(* What the wrappers promise about the cache entry they share, without     *)
(* saying how: it never goes away, it changes only by being replaced, in   *)
(* one step, by a whole binary, and it loses data only to a power failure  *)
(* that comes before the data was synced.                                  *)
(***************************************************************************)
EXTENDS Naturals

VARIABLES
  entry,     \* "none", "partial" (left by an older wrapper, or torn) or "whole"
  durable,   \* its data is on the disk
  failures,  \* kills and power failures so far
  outage     \* the power has failed

cacheVars == <<entry, durable, failures, outage>>

EntryInit ==
  /\ entry \in {"none", "partial", "whole"}
  /\ durable \in BOOLEAN
  /\ failures = 0
  /\ outage = FALSE

Publish ==
  /\ entry' = "whole"
  /\ durable' \in BOOLEAN
  /\ UNCHANGED <<failures, outage>>

ProcessDies ==
  /\ failures' = failures + 1
  /\ UNCHANGED <<entry, durable, outage>>

PowerFailure ==
  /\ failures' = failures + 1
  /\ outage' = TRUE
  /\ \/ entry' = entry
     \/ entry = "whole" /\ ~durable /\ entry' = "partial"
  /\ UNCHANGED durable

EntryNext == Publish \/ ProcessDies \/ PowerFailure

EntrySpec == EntryInit /\ [][EntryNext]_cacheVars
=============================================================================
