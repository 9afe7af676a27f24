SPECIFICATION AllSpec
CONSTANTS
  r1 = r1
  r2 = r2
  v1 = v1
  v2 = v2
  v3 = v3
  b1 = b1
  b2 = b2
  None = None
  N = 2
  Releases = {r1}
  Versions = {v1}
  VersionOf <- BumpOne
  Bytes = {b1}
  MaxFaults = 2
  Budget = 8
  InitialDelay = 1
  MaxDelay = 4
  Attempts = 3
  MaxChanges = 2
PROPERTIES OnlyRemainder
