-------------------------- MODULE ConnectionRegistry --------------------------
(***************************************************************************)
(* What the Connection control plane promises (ADR 0022): every request    *)
(* either has no effect or takes effect as ONE step, and the step is       *)
(* authorized by the membership role, the workspace status and the         *)
(* connection state of the very moment it takes effect.                    *)
(*                                                                         *)
(* ConnectionTransactions implements this with PostgreSQL transactions.    *)
(***************************************************************************)
EXTENDS ConnectionDomain

VARIABLES
  workspaceStatus,   \* app.workspaces.status
  membership,        \* role of the active membership, or None
  projectWorkspace,  \* workspace that owns a project, or None
  connection,        \* app.connections
  projectAccess,     \* app.connection_project_access
  drafts,            \* app.connection_drafts
  revisions          \* app.connection_revisions

vars == <<workspaceStatus, membership, projectWorkspace, connection,
          projectAccess, drafts, revisions>>

-----------------------------------------------------------------------------
Exists(op) ==
  /\ connection[op.connection] # None
  /\ connection[op.connection].workspace = op.workspace

MayAct(op) ==
  LET row == connection[op.connection] IN
  /\ membership[op.workspace][op.user] # None
  /\ op.kind \notin CreationKinds => Exists(op)
  /\ Authorize(op, [role |-> membership[op.workspace][op.user],
                    workspaceStatus |-> workspaceStatus[op.workspace],
                    mode |-> IF row = None THEN None ELSE row.mode,
                    status |-> IF row = None THEN None ELSE row.status])
       = "AUTHORIZED"

OwnsProjects(op) ==
  \A project \in op.access.projects : projectWorkspace[project] = op.workspace

CreateProject(op) ==
  /\ op.kind = "CREATE_PROJECT"
  /\ MayAct(op)
  /\ projectWorkspace[op.project] = None
  /\ projectWorkspace' = [projectWorkspace EXCEPT ![op.project] = op.workspace]
  /\ UNCHANGED <<workspaceStatus, membership, connection, projectAccess,
                 drafts, revisions>>

CreateConnection(op) ==
  /\ op.kind = "CREATE_CONNECTION"
  /\ MayAct(op)
  /\ OwnsProjects(op)
  /\ connection[op.connection] = None
  /\ connection' = [connection EXCEPT ![op.connection] =
       [workspace |-> op.workspace, name |-> op.name,
        mode |-> op.access.mode, status |-> "DRAFT"]]
  /\ projectAccess' =
       [projectAccess EXCEPT ![op.connection] = op.access.projects]
  /\ UNCHANGED <<workspaceStatus, membership, projectWorkspace, drafts,
                 revisions>>

Rename(op) ==
  /\ op.kind = "RENAME"
  /\ MayAct(op)
  /\ connection' = [connection EXCEPT ![op.connection].name = op.name]
  /\ UNCHANGED <<workspaceStatus, membership, projectWorkspace,
                 projectAccess, drafts, revisions>>

PutDraft(op) ==
  /\ op.kind = "PUT_DRAFT"
  /\ MayAct(op)
  /\ Canonicalize[op.configuration] # None
  /\ drafts' =
       [drafts EXCEPT ![op.connection] = Canonicalize[op.configuration]]
  /\ UNCHANGED <<workspaceStatus, membership, projectWorkspace, connection,
                 projectAccess, revisions>>

(* The next number, the canonical form of the current draft, and the first *)
(* publication activates.                                                  *)
Publish(op) ==
  /\ op.kind = "PUBLISH"
  /\ MayAct(op)
  /\ drafts[op.connection] # None
  /\ Canonicalize[drafts[op.connection]] # None
  /\ revisions' = [revisions EXCEPT ![op.connection] = @ \cup
       {[number |-> Cardinality(@) + 1,
         configuration |-> Canonicalize[drafts[op.connection]]]}]
  /\ connection' = [connection EXCEPT ![op.connection].status =
       IF @ = "DRAFT" THEN "ACTIVE" ELSE @]
  /\ UNCHANGED <<workspaceStatus, membership, projectWorkspace,
                 projectAccess, drafts>>

ReplaceAccess(op) ==
  /\ op.kind = "REPLACE_ACCESS"
  /\ MayAct(op)
  /\ OwnsProjects(op)
  /\ connection' = [connection EXCEPT ![op.connection].mode = op.access.mode]
  /\ projectAccess' =
       [projectAccess EXCEPT ![op.connection] = op.access.projects]
  /\ UNCHANGED <<workspaceStatus, membership, projectWorkspace, drafts,
                 revisions>>

TransitionLifecycle(op) ==
  /\ op.kind \in LifecycleActions
  /\ MayAct(op)
  /\ connection' = [connection EXCEPT ![op.connection].status =
       LifecycleTarget(op.kind)]
  /\ UNCHANGED <<workspaceStatus, membership, projectWorkspace,
                 projectAccess, drafts, revisions>>

Perform(op) ==
  \/ CreateProject(op)
  \/ CreateConnection(op)
  \/ Rename(op)
  \/ PutDraft(op)
  \/ Publish(op)
  \/ ReplaceAccess(op)
  \/ TransitionLifecycle(op)

(* Authority is administered elsewhere: here it may change at any moment.  *)
Administer ==
  /\ \/ \E w \in Workspaces, u \in Users, role \in Roles \cup {None} :
          /\ membership' = [membership EXCEPT ![w][u] = role]
          /\ UNCHANGED workspaceStatus
     \/ \E w \in Workspaces, status \in WorkspaceStatuses :
          /\ workspaceStatus' = [workspaceStatus EXCEPT ![w] = status]
          /\ UNCHANGED membership
  /\ UNCHANGED <<projectWorkspace, connection, projectAccess, drafts,
                 revisions>>

Init ==
  /\ workspaceStatus \in [Workspaces -> WorkspaceStatuses]
  /\ membership \in [Workspaces -> [Users -> Roles \cup {None}]]
  /\ projectWorkspace \in [Projects -> Workspaces \cup {None}]
  /\ connection = [c \in Connections |-> None]
  /\ projectAccess = [c \in Connections |-> {}]
  /\ drafts = [c \in Connections |-> None]
  /\ revisions = [c \in Connections |-> {}]

Next == (\E op \in Operations : Perform(op)) \/ Administer

Spec == Init /\ [][Next]_vars
=============================================================================
