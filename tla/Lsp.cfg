SPECIFICATION AllSpec
CONSTANTS
  c1 = c1
  c2 = c2
  c3 = c3
  u1 = u1
  k1 = k1
  NoCall = NoCall
  Keys = {k1}
  CallKey <- OneKey
  Calls = {c1, c2, c3}
  Uris = {u1}
  CallUri <- SameUri
  MaxSessions = 2
  MaxWrites = 0
  MaxStream = 8
  MaxHeader = 4
  MaxBody = 1
  Depth = 3
  MarkerWrites = 2
SYMMETRY Symmetric
INVARIANTS NeverReopened Owned DisposedMeansGone FramesSound NoticeFaithful
PROPERTIES EarlyFailureRestarts NearestRoot
CHECK_DEADLOCK FALSE
