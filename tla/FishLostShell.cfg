SPECIFICATION Spec
CONSTANTS
  Managers = {1}
  Calls = {c1, c2}
  Modes = {o1, o2}
  MaxShells = 2
  MaxFails = 1
INVARIANT HandleKept
