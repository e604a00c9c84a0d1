\* The versioned cache directory and atomic writes, with kills and power loss.
SPECIFICATION Spec
CONSTANTS
  e = e
  x = x
  Procs = {p1, p2}
  TokenOrder <- MCTokenOrder
  Versions <- MCVersions
  NukeOrder <- MCNukeOrder
  None = None
  MaxStarts = 4
  MaxStops = 2
INVARIANTS
  TrustedEntries
  FilesWhole
PROPERTIES
  KeepsEntries
CHECK_DEADLOCK FALSE
