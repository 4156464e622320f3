------------------------ MODULE ConnectionTransactions ------------------------
(***************************************************************************)
(* The mutating requests of the Connection API as the PostgreSQL           *)
(* transactions SqlAlchemyConnectionRepository runs, one action per SQL    *)
(* statement, with project creation (the other writer of the rows they     *)
(* read).  The isolation level is READ COMMITTED: each statement reads the *)
(* latest committed rows overlaid with the transaction's own writes, row   *)
(* locks are kept until the transaction ends, and a transaction's writes   *)
(* become visible all at once when it commits.                             *)
(*                                                                         *)
(* A session is one pooled database session: it serves one request after   *)
(* the other.  Memberships and workspace statuses are changed by code that *)
(* is not in the repository; ADR 0020 and ADR 0022 oblige it to take       *)
(* compatible locks, so those steps respect the row locks.                 *)
(***************************************************************************)
EXTENDS ConnectionDomain

CONSTANTS
  Sessions,         \* pooled database sessions
  RolesOf,          \* the roles (or None) each user may be given
  StatusesSeen,     \* the statuses a workspace may be given
  MaxRevisions      \* bound: publications of one connection

ASSUME RolesOfAssumption == RolesOf \in [Users -> SUBSET (Roles \cup {None})]
ASSUME StatusesSeenAssumption == StatusesSeen \subseteq WorkspaceStatuses
ASSUME MaxRevisionsAssumption == MaxRevisions \in Nat

VARIABLES
  workspaceStatus,   \* app.workspaces.status
  membership,        \* role of the active app.workspace_memberships row
  projectWorkspace,  \* app.projects.workspace_id
  connection,        \* app.connections
  projectAccess,     \* app.connection_project_access
  drafts,            \* app.connection_drafts.draft_json
  revisions,         \* app.connection_revisions
  audited,           \* app.audit_events, replayed: what they say of a connection
  operation,         \* the request a session is serving
  pc,                \* the statement it runs next
  held,              \* the row locks it holds
  local,             \* what it has read into Python variables
  writes,            \* what it has written and not committed
  outcome            \* how its last request ended

database == <<workspaceStatus, membership, projectWorkspace, connection,
              projectAccess, drafts, revisions, audited>>
vars == <<database, operation, pc, held, local, writes, outcome>>

Statements ==
  {"LockWorkspaceContext", "LockConnection", "Authorize", "InsertProject",
   "FetchConnection", "LockSelectedProjects", "InsertConnection",
   "DeleteProjectAccess", "InsertProjectAccess", "UpdateAccessMode",
   "RenameConnection", "UpsertDraft", "LockDraft", "NextRevisionNumber",
   "InsertRevision", "ActivateDraftConnection", "UpdateLifecycle",
   "InsertAudit", "Commit"}

-----------------------------------------------------------------------------
(* Rows and row locks. *)

WorkspaceRow(w) == <<"workspace", w>>
MembershipRow(w, u) == <<"membership", w, u>>
ConnectionRow(c) == <<"connection", c>>
DraftRow(c) == <<"draft", c>>
ProjectRow(p) == <<"project", p>>

Unlocked(rows, except) ==
  \A other \in Sessions \ {except} : held[other] \cap rows = {}

(* Fault: rows are read without FOR UPDATE. *)
HoldWithoutWaiting(s, rows) == held' = [held EXCEPT ![s] = @ \cup rows]

(* SELECT ... FOR UPDATE and UPDATE wait until no other transaction holds  *)
(* a row, and keep it.                                                     *)
Hold(s, rows) ==
  /\ Unlocked(rows, s)
  /\ held' = [held EXCEPT ![s] = @ \cup rows]

-----------------------------------------------------------------------------
(* A transaction's private state. *)

NoImage == [name |-> None, mode |-> None, projects |-> {}]
NoLocal ==
  [role |-> None, workspaceStatus |-> None, mode |-> None, status |-> None,
   before |-> NoImage, number |-> 0, compiled |-> None]
Nothing == [f \in {} |-> None]
NoEvent ==
  [action |-> None, role |-> None, before |-> Nothing, after |-> Nothing]
NoWrites ==
  [row |-> None, revoked |-> {}, granted |-> {}, draft |-> None,
   revision |-> None, project |-> None, event |-> NoEvent]

Target(s) == operation[s].connection
Running(s) == operation[s] # None
Serves(s, kind) == Running(s) /\ operation[s].kind = kind

(* What the transaction itself sees of its connection. *)
ViewRow(s) ==
  IF writes[s].row # None THEN writes[s].row ELSE connection[Target(s)]
ViewAccess(s) ==
  (projectAccess[Target(s)] \ writes[s].revoked) \cup writes[s].granted

(* _connection_from_row raises on a WORKSPACE connection with access rows. *)
FetchRaises(s) == ViewRow(s).mode = "WORKSPACE" /\ ViewAccess(s) # {}

Goto(s, statement) == pc' = [pc EXCEPT ![s] = statement]

(* COMMIT or ROLLBACK: the locks are released and the session goes back.   *)
End(s, result) ==
  /\ operation' = [operation EXCEPT ![s] = None]
  /\ pc' = [pc EXCEPT ![s] = "idle"]
  /\ held' = [held EXCEPT ![s] = {}]
  /\ local' = [local EXCEPT ![s] = NoLocal]
  /\ writes' = [writes EXCEPT ![s] = NoWrites]
  /\ outcome' = [outcome EXCEPT ![s] = result]

(* An exception leaves the transaction block: everything is rolled back.   *)
Raise(s, problem) ==
  /\ End(s, problem)
  /\ UNCHANGED database

-----------------------------------------------------------------------------
(* A request arrives.  uuid7 gives a creation an identifier nobody else    *)
(* has or is about to use.                                                 *)
Fresh(op) ==
  /\ op.kind = "CREATE_CONNECTION" =>
       /\ connection[op.connection] = None
       /\ \A s \in Sessions : Serves(s, "CREATE_CONNECTION")
            => Target(s) # op.connection
  /\ op.kind = "CREATE_PROJECT" =>
       /\ projectWorkspace[op.project] = None
       /\ \A s \in Sessions : Serves(s, "CREATE_PROJECT")
            => operation[s].project # op.project

WithinBound(op) ==
  op.kind = "PUBLISH" =>
    Cardinality(revisions[op.connection])
      + Cardinality({s \in Sessions : /\ Serves(s, "PUBLISH")
                                      /\ Target(s) = op.connection})
      < MaxRevisions

Begin(s, op) ==
  /\ ~Running(s)
  /\ Fresh(op)
  /\ WithinBound(op)
  /\ operation' = [operation EXCEPT ![s] = op]
  /\ outcome' = [outcome EXCEPT ![s] = None]
  /\ Goto(s, "LockWorkspaceContext")
  /\ UNCHANGED <<database, held, local, writes>>

(* Fault: FOR UPDATE OF workspaces. *)
ContextRowsWorkspaceOnly(w, u) == {WorkspaceRow(w)}

(* Fault: FOR UPDATE OF memberships. *)
ContextRowsMembershipOnly(w, u) == {MembershipRow(w, u)}

(* SELECT ... FOR UPDATE OF workspaces, memberships: a session that had to *)
(* wait re-reads both rows after it has the locks.                         *)
ContextRows(w, u) == {WorkspaceRow(w), MembershipRow(w, u)}

LockWorkspaceContext(s) ==
  LET w == operation[s].workspace
      u == operation[s].user IN
  /\ pc[s] = "LockWorkspaceContext"
  /\ membership[w][u] # None
  /\ Hold(s, ContextRows(w, u))
  /\ local' = [local EXCEPT ![s] =
       [@ EXCEPT !.role = membership[w][u],
                 !.workspaceStatus = workspaceStatus[w]]]
  /\ Goto(s, IF operation[s].kind \in CreationKinds
             THEN "Authorize" ELSE "LockConnection")
  /\ UNCHANGED <<database, operation, writes, outcome>>

WorkspaceNotFound(s) ==
  /\ pc[s] = "LockWorkspaceContext"
  /\ membership[operation[s].workspace][operation[s].user] = None
  /\ Raise(s, "WORKSPACE_NOT_FOUND")

Addressed(s) ==
  /\ connection[Target(s)] # None
  /\ connection[Target(s)].workspace = operation[s].workspace

LockConnection(s) ==
  /\ pc[s] = "LockConnection"
  /\ Addressed(s)
  /\ Hold(s, {ConnectionRow(Target(s))})
  /\ local' = [local EXCEPT ![s] =
       [@ EXCEPT !.mode = connection[Target(s)].mode,
                 !.status = connection[Target(s)].status]]
  /\ Goto(s, "Authorize")
  /\ UNCHANGED <<database, operation, writes, outcome>>

ConnectionNotFound(s) ==
  /\ pc[s] = "LockConnection"
  /\ ~Addressed(s)
  /\ Raise(s, "CONNECTION_NOT_FOUND")

(* The first statement after the authorizer has returned. *)
FirstStatement(kind) ==
  CASE kind = "CREATE_PROJECT" -> "InsertProject"
    [] kind = "CREATE_CONNECTION" -> "LockSelectedProjects"
    [] kind \in {"RENAME", "REPLACE_ACCESS"} -> "FetchConnection"
    [] kind = "PUT_DRAFT" -> "UpsertDraft"
    [] kind = "PUBLISH" -> "LockDraft"
    [] kind \in LifecycleActions -> "UpdateLifecycle"

Admit(s) ==
  /\ pc[s] = "Authorize"
  /\ Authorize(operation[s], local[s]) = "AUTHORIZED"
  /\ Goto(s, FirstStatement(operation[s].kind))
  /\ UNCHANGED <<database, operation, held, local, writes, outcome>>

Refuse(s) ==
  /\ pc[s] = "Authorize"
  /\ Authorize(operation[s], local[s]) # "AUTHORIZED"
  /\ Raise(s, Authorize(operation[s], local[s]))

-----------------------------------------------------------------------------
(* Project creation. *)
InsertProject(s) ==
  /\ pc[s] = "InsertProject"
  /\ writes' = [writes EXCEPT ![s].project = operation[s].project]
  /\ Goto(s, "Commit")
  /\ UNCHANGED <<database, operation, held, local, outcome>>

(* rename and replace_access read the connection they are about to change. *)
FetchConnection(s) ==
  /\ pc[s] = "FetchConnection"
  /\ IF FetchRaises(s)
     THEN Raise(s, "INTERNAL_ERROR")
     ELSE /\ local' = [local EXCEPT ![s].before =
                [name |-> ViewRow(s).name, mode |-> ViewRow(s).mode,
                 projects |-> ViewAccess(s)]]
          /\ Goto(s, IF operation[s].kind = "RENAME"
                     THEN "RenameConnection" ELSE "LockSelectedProjects")
          /\ UNCHANGED <<database, operation, held, writes, outcome>>

(* The selected projects the workspace owns.  The statement has no ORDER   *)
(* BY, so it locks them one by one in an order the plan decides.           *)
FoundProjects(s) ==
  {p \in operation[s].access.projects :
     projectWorkspace[p] = operation[s].workspace}

LockOneProject(s) ==
  /\ pc[s] = "LockSelectedProjects"
  /\ \E p \in FoundProjects(s) :
       /\ ProjectRow(p) \notin held[s]
       /\ Hold(s, {ProjectRow(p)})
  /\ UNCHANGED <<database, operation, pc, local, writes, outcome>>

ProjectsLocked(s) ==
  /\ pc[s] = "LockSelectedProjects"
  /\ \A p \in FoundProjects(s) : ProjectRow(p) \in held[s]

ValidateProjects(s) ==
  /\ ProjectsLocked(s)
  /\ FoundProjects(s) = operation[s].access.projects
  /\ Goto(s, IF operation[s].kind = "CREATE_CONNECTION"
             THEN "InsertConnection" ELSE "DeleteProjectAccess")
  /\ UNCHANGED <<database, operation, held, local, writes, outcome>>

ProjectNotFound(s) ==
  /\ ProjectsLocked(s)
  /\ FoundProjects(s) # operation[s].access.projects
  /\ Raise(s, "PROJECT_NOT_FOUND")

InsertConnection(s) ==
  /\ pc[s] = "InsertConnection"
  /\ writes' = [writes EXCEPT ![s].row =
       [workspace |-> operation[s].workspace, name |-> operation[s].name,
        mode |-> operation[s].access.mode, status |-> "DRAFT"]]
  /\ Goto(s, "InsertProjectAccess")
  /\ UNCHANGED <<database, operation, held, local, outcome>>

-----------------------------------------------------------------------------
(* UPDATE of the connection row: a new version of the latest one. *)
UpdateRow(s, row) ==
  /\ Hold(s, {ConnectionRow(Target(s))})
  /\ writes' = [writes EXCEPT ![s].row = row]
  /\ UNCHANGED <<database, operation, local, outcome>>

RenameConnection(s) ==
  /\ pc[s] = "RenameConnection"
  /\ UpdateRow(s, [ViewRow(s) EXCEPT !.name = operation[s].name])
  /\ Goto(s, "InsertAudit")

DeleteProjectAccess(s) ==
  /\ pc[s] = "DeleteProjectAccess"
  /\ writes' = [writes EXCEPT ![s].revoked = projectAccess[Target(s)]]
  /\ Goto(s, "InsertProjectAccess")
  /\ UNCHANGED <<database, operation, held, local, outcome>>

(* The primary key (connection_id, project_id) rejects a row twice and the *)
(* foreign key (workspace_id, project_id) a project of another workspace.  *)
ViolatesAccessKeys(s) ==
  \E p \in operation[s].access.projects :
    p \in ViewAccess(s) \/ projectWorkspace[p] # operation[s].workspace

InsertProjectAccess(s) ==
  /\ pc[s] = "InsertProjectAccess"
  /\ IF ViolatesAccessKeys(s)
     THEN Raise(s, "INTERNAL_ERROR")
     ELSE /\ writes' = [writes EXCEPT ![s].granted =
                           operation[s].access.projects]
          /\ Goto(s, IF operation[s].kind = "CREATE_CONNECTION"
                     THEN "InsertAudit" ELSE "UpdateAccessMode")
          /\ UNCHANGED <<database, operation, held, local, outcome>>

(* Fault: the mode is written only along with selected projects. *)
UpdateAccessModeIfSelected(s) ==
  /\ pc[s] = "UpdateAccessMode"
  /\ UpdateRow(s, IF operation[s].access.projects = {} THEN ViewRow(s)
                  ELSE [ViewRow(s) EXCEPT !.mode = operation[s].access.mode])
  /\ Goto(s, "InsertAudit")

UpdateAccessMode(s) ==
  /\ pc[s] = "UpdateAccessMode"
  /\ UpdateRow(s, [ViewRow(s) EXCEPT !.mode = operation[s].access.mode])
  /\ Goto(s, "InsertAudit")

UpdateLifecycle(s) ==
  /\ pc[s] = "UpdateLifecycle"
  /\ UpdateRow(s, [ViewRow(s) EXCEPT
                     !.status = LifecycleTarget(operation[s].kind)])
  /\ Goto(s, "InsertAudit")

-----------------------------------------------------------------------------
(* Draft authoring and publication. *)

(* The provider compiles the submitted draft before it is stored. *)
UpsertDraft(s) ==
  LET compiled == Canonicalize[operation[s].configuration] IN
  /\ pc[s] = "UpsertDraft"
  /\ compiled # None
  /\ Hold(s, {DraftRow(Target(s))})
  /\ writes' = [writes EXCEPT ![s].draft = compiled]
  /\ Goto(s, "Commit")
  /\ UNCHANGED <<database, operation, local, outcome>>

RejectDraft(s) ==
  /\ pc[s] = "UpsertDraft"
  /\ Canonicalize[operation[s].configuration] = None
  /\ Raise(s, "REQUEST_VALIDATION_FAILED")

(* The draft is locked and compiled again before it is published. *)
LockDraft(s) ==
  LET stored == drafts[Target(s)] IN
  /\ pc[s] = "LockDraft"
  /\ stored # None
  /\ IF Canonicalize[stored] = None
     THEN Raise(s, "REQUEST_VALIDATION_FAILED")
     ELSE /\ Hold(s, {DraftRow(Target(s))})
          /\ local' = [local EXCEPT ![s].compiled = Canonicalize[stored]]
          /\ Goto(s, "NextRevisionNumber")
          /\ UNCHANGED <<database, operation, writes, outcome>>

DraftMissing(s) ==
  /\ pc[s] = "LockDraft"
  /\ drafts[Target(s)] = None
  /\ Raise(s, "CONNECTION_STATE_CONFLICT")

NextRevisionNumber(s) ==
  /\ pc[s] = "NextRevisionNumber"
  /\ local' = [local EXCEPT ![s].number = NextNumber(revisions[Target(s)])]
  /\ Goto(s, "InsertRevision")
  /\ UNCHANGED <<database, operation, held, writes, outcome>>

(* UNIQUE (connection_id, revision_number): an uncommitted row with the    *)
(* same number makes the insert wait, a committed one makes it fail.       *)
InsertRevision(s) ==
  LET number == local[s].number IN
  /\ pc[s] = "InsertRevision"
  /\ \A other \in Sessions \ {s} :
       /\ Running(other) /\ Target(other) = Target(s)
       /\ writes[other].revision # None
       => writes[other].revision.number # number
  /\ IF \E row \in revisions[Target(s)] : row.number = number
     THEN Raise(s, "INTERNAL_ERROR")
     ELSE /\ writes' = [writes EXCEPT ![s].revision =
                [number |-> number, configuration |-> local[s].compiled]]
          /\ Goto(s, "ActivateDraftConnection")
          /\ UNCHANGED <<database, operation, held, local, outcome>>

(* Fault: every publication activates. *)
ActivateAnyConnection(s) ==
  /\ pc[s] = "ActivateDraftConnection"
  /\ UpdateRow(s, [ViewRow(s) EXCEPT !.status = "ACTIVE"])
  /\ Goto(s, "InsertAudit")

(* UPDATE ... WHERE status = 'DRAFT' changes no row otherwise. *)
ActivateDraftConnection(s) ==
  /\ pc[s] = "ActivateDraftConnection"
  /\ IF ViewRow(s).status = "DRAFT"
     THEN UpdateRow(s, [ViewRow(s) EXCEPT !.status = "ACTIVE"])
     ELSE UNCHANGED <<database, operation, held, local, writes, outcome>>
  /\ Goto(s, "InsertAudit")

-----------------------------------------------------------------------------
(* The audit event: the images before and after, restricted to the fields  *)
(* the request is about, and the role read inside the transaction.         *)

(* Fault: a publication audits the status it read before activating. *)
AuditedStatusBefore(s) == local[s].status

AuditedStatus(s) == ViewRow(s).status

(* Fault: replace_access audits the policy it fetched before the change. *)
AuditedAccessBefore(s) == [mode |-> local[s].before.mode,
                           projects |-> local[s].before.projects]

AuditedAccess(s) == [mode |-> ViewRow(s).mode, projects |-> ViewAccess(s)]

(* Fault: the name is fetched after the update. *)
AuditedOldNameAfter(s) == ViewRow(s).name

AuditedOldName(s) == local[s].before.name

EventImages(s) ==
  LET op == operation[s] IN
  CASE op.kind = "CREATE_CONNECTION" ->
         [before |-> Nothing,
          after |-> [name |-> op.name, mode |-> op.access.mode,
                     projects |-> op.access.projects, status |-> "DRAFT"]]
    [] op.kind = "RENAME" ->
         [before |-> [name |-> AuditedOldName(s)],
          after |-> [name |-> op.name]]
    [] op.kind = "REPLACE_ACCESS" ->
         [before |-> [mode |-> local[s].before.mode,
                      projects |-> local[s].before.projects],
          after |-> AuditedAccess(s)]
    [] op.kind = "PUBLISH" ->
         [before |-> Nothing,
          after |-> [revision |-> local[s].number,
                     status |-> AuditedStatus(s)]]
    [] op.kind \in LifecycleActions ->
         [before |-> [status |-> local[s].status],
          after |-> [status |-> LifecycleTarget(op.kind)]]

(* The connection is fetched around the audit insert, for its response and *)
(* for the images.                                                         *)
InsertAudit(s) ==
  /\ pc[s] = "InsertAudit"
  /\ IF FetchRaises(s)
     THEN Raise(s, "INTERNAL_ERROR")
     ELSE /\ writes' = [writes EXCEPT ![s].event =
                [action |-> operation[s].kind, role |-> local[s].role,
                 before |-> EventImages(s).before,
                 after |-> EventImages(s).after]]
          /\ Goto(s, "Commit")
          /\ UNCHANGED <<database, operation, held, local, outcome>>

(* Reading the audit ledger from its first event on gives an image of the  *)
(* connection: the fields of a later event replace those of an earlier.    *)
Overlay(newer, older) ==
  [f \in DOMAIN newer \cup DOMAIN older |->
     IF f \in DOMAIN newer THEN newer[f] ELSE older[f]]

Installed(table, c, row) == IF row = None THEN table ELSE [table EXCEPT ![c] = row]

Commit(s) ==
  LET c == Target(s)
      w == writes[s] IN
  /\ pc[s] = "Commit"
  /\ connection' = Installed(connection, c, w.row)
  /\ projectAccess' =
       [projectAccess EXCEPT ![c] = (@ \ w.revoked) \cup w.granted]
  /\ drafts' = Installed(drafts, c, w.draft)
  /\ revisions' = IF w.revision = None THEN revisions
                  ELSE [revisions EXCEPT ![c] = @ \cup {w.revision}]
  /\ projectWorkspace' =
       IF w.project = None THEN projectWorkspace
       ELSE [projectWorkspace EXCEPT ![w.project] = operation[s].workspace]
  /\ audited' = IF w.event = NoEvent THEN audited
                ELSE [audited EXCEPT ![c] = Overlay(w.event.after, @)]
  /\ End(s, "SUCCEEDED")
  /\ UNCHANGED <<workspaceStatus, membership>>

(* The process, the client or the connection goes away before the commit.  *)
Abort(s) ==
  /\ Running(s)
  /\ Raise(s, "ABORTED")

-----------------------------------------------------------------------------
(* Outside the repository: authority is administered under the row locks.  *)
ChangeMembership(w, u) ==
  /\ \A s \in Sessions : MembershipRow(w, u) \notin held[s]
  /\ \E role \in RolesOf[u] \ {membership[w][u]} :
       membership' = [membership EXCEPT ![w][u] = role]
  /\ UNCHANGED <<workspaceStatus, projectWorkspace, connection,
                 projectAccess, drafts, revisions, audited, operation, pc,
                 held, local, writes, outcome>>

ChangeWorkspaceStatus(w) ==
  /\ \A s \in Sessions : WorkspaceRow(w) \notin held[s]
  /\ \E status \in StatusesSeen \ {workspaceStatus[w]} :
       workspaceStatus' = [workspaceStatus EXCEPT ![w] = status]
  /\ UNCHANGED <<membership, projectWorkspace, connection, projectAccess,
                 drafts, revisions, audited, operation, pc, held, local,
                 writes, outcome>>

-----------------------------------------------------------------------------
Init ==
  /\ workspaceStatus \in [Workspaces -> StatusesSeen]
  /\ membership \in [Workspaces -> [Users -> Roles \cup {None}]]
  /\ \A w \in Workspaces, u \in Users : membership[w][u] \in RolesOf[u]
  /\ projectWorkspace = [p \in Projects |-> None]
  /\ connection = [c \in Connections |-> None]
  /\ projectAccess = [c \in Connections |-> {}]
  /\ drafts = [c \in Connections |-> None]
  /\ revisions = [c \in Connections |-> {}]
  /\ audited = [c \in Connections |-> [revision |-> 0]]
  /\ operation = [s \in Sessions |-> None]
  /\ pc = [s \in Sessions |-> "idle"]
  /\ held = [s \in Sessions |-> {}]
  /\ local = [s \in Sessions |-> NoLocal]
  /\ writes = [s \in Sessions |-> NoWrites]
  /\ outcome = [s \in Sessions |-> None]

(* The statements of one request, in the order its transaction runs them.  *)
Step(s) ==
  \/ LockWorkspaceContext(s) \/ WorkspaceNotFound(s)
  \/ LockConnection(s) \/ ConnectionNotFound(s)
  \/ Admit(s) \/ Refuse(s)
  \/ InsertProject(s) \/ FetchConnection(s)
  \/ LockOneProject(s) \/ ValidateProjects(s) \/ ProjectNotFound(s)
  \/ InsertConnection(s) \/ RenameConnection(s)
  \/ DeleteProjectAccess(s) \/ InsertProjectAccess(s) \/ UpdateAccessMode(s)
  \/ UpdateLifecycle(s)
  \/ UpsertDraft(s) \/ RejectDraft(s) \/ LockDraft(s) \/ DraftMissing(s)
  \/ NextRevisionNumber(s) \/ InsertRevision(s) \/ ActivateDraftConnection(s)
  \/ InsertAudit(s) \/ Commit(s)

Next ==
  \/ \E s \in Sessions, op \in Operations : Begin(s, op)
  \/ \E s \in Sessions : Step(s) \/ Abort(s)
  \/ \E w \in Workspaces, u \in Users : ChangeMembership(w, u)
  \/ \E w \in Workspaces : ChangeWorkspaceStatus(w)

Spec == Init /\ [][Next]_vars

(* PostgreSQL serves the waiters of a row lock in the order they queued,   *)
(* so a session that can proceed again and again eventually does.          *)
FairSpec == Spec /\ \A s \in Sessions : SF_vars(Step(s))
=============================================================================
