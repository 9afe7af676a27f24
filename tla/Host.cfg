SPECIFICATION AllSpec
CONSTANTS
  ToolCalls = {d1}
  ToolVersions = {w1, w2}
  ToolSeen = 2
  RtkMounts = {m1, m2}
  RtkCompresses = {m1}
  RtkCommands = {k1}
  RtkGreps = {g1}
  Execs = {e1, e2}
  Targets = {1}
  Versions = {v1, v2}
  MaxGen = 2
  MaxSeen = 2
SYMMETRY Symmetric
INVARIANTS CleanupComplete RequestsSound
PROPERTIES OnlyNewest NoneAfterAbort ResultsKept ToolSound RtkSound
