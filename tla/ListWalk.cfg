SPECIFICATION ReadsSpec
CONSTANTS
  owner = owner
  builder = builder
  w1 = w1
  p1 = p1
  p2 = p2
  c1 = c1
  c2 = c2
  c3 = c3
  n1 = n1
  clean = clean
  None = None
  Users = {owner, builder}
  Workspaces = {w1}
  Projects = {p1, p2}
  Connections = {c1, c2, c3}
  Names = {n1}
  Configurations = {clean}
  Canonicalize <- MCCanonicalize
  Operations <- AllCreations
  Readers = {r1}
  ReadRequests <- ListQueries
  PageLimit = 1
  Rank <- MCRank
  Instants = {1, 2}
  RolesOf <- MCRolesOf
  StatusesSeen = {"ACTIVE"}
  MaxRevisions = 0
INVARIANTS
  WalkIsComplete
PROPERTIES
  ReadsEnd
