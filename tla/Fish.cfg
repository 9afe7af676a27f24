SPECIFICATION AllSpec
CONSTANTS
  c1 = c1
  c2 = c2
  o1 = o1
  o2 = o2
  a1 = a1
  a2 = a2
  Managers = {1, 2}
  Calls = {c1, c2}
  Modes = {o1, o2}
  MaxShells = 2
  MaxFails = 1
  MaxLines = 5
  PageLines = 2
  Screen = 2
  MaxTape = 9
SYMMETRY Symmetric
INVARIANTS ModeFenced ShellsSound PolicySettled OutputHonest CommandsConfined
