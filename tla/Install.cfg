SPECIFICATION InstallerSpec
CONSTANTS
  None = None
  Procs = {p1, p2}
  HostOf <- OneHost
  Pids = {1, 2}
  Inodes = {i1, i2, i3, i4, i5}
  Size = 2
  OnPath = {"shim", "pip"}
  Environments = {"plain"}
  MaxCrashes = 1
  Leftovers <- CutLeftovers
INVARIANTS InstallerTypeOK PublishedIsWhole ScratchIsMine InstalledServesShim
PROPERTIES RunsOnlyWhole EntrySpec
SYMMETRY Symmetry
