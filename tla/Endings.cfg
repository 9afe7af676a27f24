SPECIFICATION FairAllSpec
CONSTANTS
  c1 = c1
  c2 = c2
  q1 = q1
  q2 = q2
  e1 = e1
  v1 = v1
  v3 = v3
  r1 = r1
  b1 = b1
  o1 = o1
  nothing = nothing
PROPERTIES TeardownSound AugmentEnds Recovers ShellsEnd ReadsEnd
