SPECIFICATION Spec
CONSTANTS
  Unnamed = {"workspace_memberships"}
  None = None
INVARIANTS
  SecurityTablesSealed
  HistoryIsWriteOnce
  SyncedGrantsAreThePolicy
