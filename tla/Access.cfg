SPECIFICATION Spec
CONSTANTS
  owner = owner
  builder = builder
  viewer = viewer
  w1 = w1
  w2 = w2
  p1 = p1
  p2 = p2
  c1 = c1
  c2 = c2
  n1 = n1
  n2 = n2
  None = None
  Users = {owner, builder}
  Workspaces = {w1, w2}
  Projects = {p1, p2}
  Connections = {c1}
  Names = {n1, n2}
  Configurations <- MCConfigurations
  Canonicalize <- MCCanonicalize
  Operations <- AccessOperations
  Sessions = {s1, s2}
  RolesOf <- MCFixedRolesOf
  StatusesSeen = {"ACTIVE"}
  MaxRevisions = 2
INVARIANTS
  CanonicalAccess
  LedgerReplaysToState
PROPERTIES
  AuditEventsFitTogether
  OnlyAdministratorsWiden
  ImplementsRegistry
