SPECIFICATION Spec
CONSTANTS
  None = None
  Timeout = 2
INVARIANTS
  VerdictIsJustified
PROPERTIES
  ProbeEnds
CHECK_DEADLOCK FALSE
