SPECIFICATION StuckSpec
CONSTANTS
  Requests = {q1, q2}
PROPERTIES BoundedTeardown
