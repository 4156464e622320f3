--------------------------- MODULE ConnectionDomain ---------------------------
(***************************************************************************)
(* The vocabulary of the Connection domain: its value types, the requests  *)
(* the control API accepts for it, and the authorization and lifecycle     *)
(* policies of domains/connections/policies.py together with the order in  *)
(* which ConnectionService evaluates them.  Everything here is a constant  *)
(* operator; the modules with state build on it.                           *)
(*                                                                         *)
(* Operators whose comment begins with "Fault" are not part of the model:  *)
(* each is a definition with a plausible bug, which a run substitutes to   *)
(* show that the property it names in PROJECT.json notices the bug.        *)
(***************************************************************************)
EXTENDS Integers, FiniteSets, FiniteSetsExt

CONSTANTS
  Users,           \* internal users
  Workspaces,      \* workspaces that already exist
  Projects,        \* project identifiers, used or not yet used
  Connections,     \* connection identifiers, used or not yet used
  Names,           \* normalized display names
  Configurations,  \* provider configurations a client may submit
  Canonicalize,    \* what the provider makes of each of them, or None
  Operations,      \* the requests clients send in this instance
  None             \* the absence of a value

-----------------------------------------------------------------------------
(* Value types. *)

Roles == {"OWNER", "ADMIN", "BUILDER", "VIEWER"}
WorkspaceStatuses == {"ACTIVE", "SUSPENDED", "ARCHIVED", "PENDING_DELETION"}
ConnectionStatuses == {"DRAFT", "ACTIVE", "DISABLED", "ARCHIVED"}
AccessModes == {"WORKSPACE", "SELECTED_PROJECTS"}
LifecycleActions == {"DISABLE", "ENABLE", "ARCHIVE"}

(* A normalized policy names projects only in SELECTED_PROJECTS mode. *)
AccessPolicies ==
  {policy \in [mode : AccessModes, projects : SUBSET Projects] :
     policy.mode = "WORKSPACE" => policy.projects = {}}

ConnectionRows ==
  [workspace : Workspaces, name : Names, mode : AccessModes,
   status : ConnectionStatuses]

Revisions == [number : Nat, configuration : Configurations]

(* The requests that write.  Every request carries all the fields; a kind  *)
(* reads only the ones it needs.                                           *)
CreationKinds == {"CREATE_PROJECT", "CREATE_CONNECTION"}
Kinds == CreationKinds \cup LifecycleActions
           \cup {"RENAME", "PUT_DRAFT", "PUBLISH", "REPLACE_ACCESS"}

OperationRecords ==
  [kind : Kinds, user : Users, workspace : Workspaces, project : Projects,
   connection : Connections, name : Names, access : AccessPolicies,
   configuration : Configurations]

(* Problem codes of the public failure contract. *)
Refusals ==
  {"WORKSPACE_PERMISSION_DENIED", "WORKSPACE_NOT_ACTIVE",
   "CONNECTION_STATE_CONFLICT"}
Problems == Refusals \cup
  {"WORKSPACE_NOT_FOUND", "CONNECTION_NOT_FOUND", "PROJECT_NOT_FOUND",
   "REQUEST_VALIDATION_FAILED", "INTERNAL_ERROR"}

ASSUME OperationsAssumption == Operations \subseteq OperationRecords
ASSUME CanonicalizeAssumption ==
  Canonicalize \in [Configurations -> Configurations \cup {None}]
ASSUME NoneAssumption ==
  /\ None \notin Kinds
  /\ None \notin Roles
  /\ None \notin Workspaces
  /\ None \notin ConnectionRows
  /\ None \notin Configurations
  /\ None \notin Revisions
  /\ None \notin Projects
  /\ None \notin Operations
  /\ None \notin Problems \cup {"SUCCEEDED", "ABORTED"}

-----------------------------------------------------------------------------
(* Permission policy: explicit role bundles, not an ordering of roles. *)

AuthorRoles == {"OWNER", "ADMIN", "BUILDER"}
LifecycleRoles == {"OWNER", "ADMIN"}

CanCreateProject(role) == role \in {"OWNER", "ADMIN", "BUILDER"}

CanAuthorConnections(role) == role \in AuthorRoles

CanManageConnectionLifecycle(role) == role \in LifecycleRoles

CanCreateWithAccess(role, mode) ==
  /\ role \in AuthorRoles
  /\ role = "BUILDER" => mode = "SELECTED_PROJECTS"

(* Fault: the mode the connection has now is not considered. *)
CanReplaceAccessFromAnyMode(role, currentMode, requestedMode) ==
  \/ role \in LifecycleRoles
  \/ role = "BUILDER" /\ requestedMode = "SELECTED_PROJECTS"

CanReplaceAccess(role, currentMode, requestedMode) ==
  \/ role \in LifecycleRoles
  \/ /\ role = "BUILDER"
     /\ currentMode = "SELECTED_PROJECTS"
     /\ requestedMode = "SELECTED_PROJECTS"

(* Lifecycle policy of the workspace and of the connection. *)

WorkspaceAllowsMutation(status) == status = "ACTIVE"

WorkspaceAllowsLifecycleAction(status, action) ==
  \/ status = "ACTIVE"
  \/ action = "DISABLE" /\ status = "SUSPENDED"

(* Fault: authoring goes on after the connection is archived. *)
ConnectionAllowsAuthoringAlways(status) == TRUE

ConnectionAllowsAuthoring(status) == status # "ARCHIVED"

ConnectionAllowsAccessReplacement(status) == status # "ARCHIVED"

(* Fault: ENABLE takes any connection that is not active. *)
LifecycleTransitionAllowedFromDraft(current, action) ==
  \/ action = "DISABLE" /\ current = "ACTIVE"
  \/ action = "ENABLE" /\ current \in {"DRAFT", "DISABLED"}
  \/ action = "ARCHIVE" /\ current # "ARCHIVED"

LifecycleTransitionAllowed(current, action) ==
  \/ action = "DISABLE" /\ current = "ACTIVE"
  \/ action = "ENABLE" /\ current = "DISABLED"
  \/ action = "ARCHIVE" /\ current \in {"DRAFT", "ACTIVE", "DISABLED"}

(* Fault: the action's name is stored in place of the status it leads to. *)
LifecycleTargetIsAction(action) == action

LifecycleTarget(action) ==
  CASE action = "DISABLE" -> "DISABLED"
    [] action = "ENABLE" -> "ACTIVE"
    [] action = "ARCHIVE" -> "ARCHIVED"

-----------------------------------------------------------------------------
(* The service's authorizers.  Each raises the error of the first check    *)
(* that fails: permission, then workspace lifecycle, then connection       *)
(* lifecycle.                                                              *)

FirstRefusal(permitted, workspaceAllows, connectionAllows) ==
  IF ~permitted THEN "WORKSPACE_PERMISSION_DENIED"
  ELSE IF ~workspaceAllows THEN "WORKSPACE_NOT_ACTIVE"
  ELSE IF ~connectionAllows THEN "CONNECTION_STATE_CONFLICT"
  ELSE "AUTHORIZED"

(* What a transaction knows when it authorizes: the role and the workspace *)
(* status, and for an existing connection its access mode and status.      *)
Contexts ==
  [role : Roles, workspaceStatus : WorkspaceStatuses,
   mode : AccessModes, status : ConnectionStatuses]

AuthorizeProjectCreation(context) ==
  FirstRefusal(CanCreateProject(context.role),
               WorkspaceAllowsMutation(context.workspaceStatus), TRUE)

AuthorizeCreation(context, access) ==
  FirstRefusal(CanCreateWithAccess(context.role, access.mode),
               WorkspaceAllowsMutation(context.workspaceStatus), TRUE)

AuthorizeAuthoring(context) ==
  FirstRefusal(CanAuthorConnections(context.role),
               WorkspaceAllowsMutation(context.workspaceStatus),
               ConnectionAllowsAuthoring(context.status))

AuthorizeAccess(context, access) ==
  FirstRefusal(CanReplaceAccess(context.role, context.mode, access.mode),
               WorkspaceAllowsMutation(context.workspaceStatus),
               ConnectionAllowsAccessReplacement(context.status))

AuthorizeLifecycle(context, action) ==
  FirstRefusal(CanManageConnectionLifecycle(context.role),
               WorkspaceAllowsLifecycleAction(context.workspaceStatus, action),
               LifecycleTransitionAllowed(context.status, action))

(* The authorizer each request hands to the repository. *)
Authorize(op, context) ==
  CASE op.kind = "CREATE_PROJECT" -> AuthorizeProjectCreation(context)
    [] op.kind = "CREATE_CONNECTION" -> AuthorizeCreation(context, op.access)
    [] op.kind = "REPLACE_ACCESS" -> AuthorizeAccess(context, op.access)
    [] op.kind \in LifecycleActions -> AuthorizeLifecycle(context, op.kind)
    [] op.kind \in {"RENAME", "PUT_DRAFT", "PUBLISH"} ->
         AuthorizeAuthoring(context)

-----------------------------------------------------------------------------
(* Fault: the first revision of a connection is numbered 2. *)
NextNumberFromOne(rows) == Max({1} \cup {revision.number : revision \in rows}) + 1

(* COALESCE(MAX(revision_number), 0) + 1 over the rows of one connection. *)
NextNumber(rows) == Max({0} \cup {revision.number : revision \in rows}) + 1

(* The history of a connection is numbered 1, 2, ... without gap or        *)
(* repetition.                                                             *)
Gapless(rows) ==
  /\ IsFiniteSet(rows)
  /\ {revision.number : revision \in rows} = 1..Cardinality(rows)
=============================================================================
