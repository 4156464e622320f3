SPECIFICATION Spec
CONSTANTS
  ann = ann
  bob = bob
  ofAnn = ofAnn
  ofBob = ofBob
  w1 = w1
  w2 = w2
  None = None
  Users = {ann, bob}
  Sessions = {ofAnn, ofBob}
  UserOf <- MCUserOf
  Workspaces = {w1, w2}
  Handlers = {h1, h2}
  Requests <- MCRequests
  PoolSize = 1
  MaxRequests = 2
INVARIANTS
  AnswersAreTrue
  ReadsAreCurrent
  WaitersHoldNothing
PROPERTIES
  ImplementsTenancy
CHECK_DEADLOCK FALSE
