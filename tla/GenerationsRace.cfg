SPECIFICATION Spec
CONSTANTS
  Hosts = {"h1", "h2"}
  Agents = {"a", "b"}
  AtOnce = 2
  MaxBoots = 4
  MaxEdits = 3
INVARIANT CurrentIsWhole
CHECK_DEADLOCK FALSE
