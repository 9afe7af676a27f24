SPECIFICATION FairSpec
CONSTANTS
  c1 = c1
  c2 = c2
  u1 = u1
  u2 = u2
  k1 = k1
  NoCall = NoCall
  Keys = {k1}
  CallKey <- OneKey
  Calls = {c1, c2}
  Uris = {u1, u2}
  CallUri <- OwnUri
  MaxSessions = 1
  MaxWrites = 1
INVARIANTS OwnText
PROPERTIES Implements CallsSettle DisposeResolves
