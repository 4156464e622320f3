SPECIFICATION FairSpec
CONSTANTS
  owner = owner
  builder = builder
  viewer = viewer
  w1 = w1
  w2 = w2
  p1 = p1
  p2 = p2
  c1 = c1
  c2 = c2
  n1 = n1
  n2 = n2
  None = None
  Users = {owner, builder}
  Workspaces = {w1}
  Projects = {p1, p2}
  Connections = {c1, c2}
  Names = {n1}
  Configurations <- MCConfigurations
  Canonicalize <- MCCanonicalize
  Operations <- ContentionOperations
  Sessions = {s1, s2}
  RolesOf <- MCTwoRoles
  StatusesSeen = {"ACTIVE"}
  MaxRevisions = 2
INVARIANTS
  NoChainOfWaiters
PROPERTIES
  RequestsFinish
