---------------------------- MODULE MCInstaller ----------------------------
EXTENDS Installer, TLC

\* Nothing, or a file cut before its mode was set.
CutLeftovers ==
  {NoFile, [data |-> {1}, exec |-> FALSE, synced |-> FALSE, old |-> TRUE]}
NoLeftovers == {NoFile}

Symmetry == Permutations(Inodes) \cup Permutations(Procs)

OneHost(p) == "host"
OwnHost(p) == p
=============================================================================
