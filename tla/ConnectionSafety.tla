--------------------------- MODULE ConnectionSafety ---------------------------
(***************************************************************************)
(* What must hold of the transactions of ConnectionTransactions, as        *)
(* invariants, action properties, a liveness property and the refinement   *)
(* of ConnectionRegistry.                                                  *)
(***************************************************************************)
EXTENDS ConnectionTransactions

Rows ==
  {WorkspaceRow(w) : w \in Workspaces}
    \cup {MembershipRow(w, u) : w \in Workspaces, u \in Users}
    \cup {ConnectionRow(c) : c \in Connections}
    \cup {DraftRow(c) : c \in Connections}
    \cup {ProjectRow(p) : p \in Projects}

LocalStates ==
  [role : Roles \cup {None}, workspaceStatus : WorkspaceStatuses \cup {None},
   mode : AccessModes \cup {None}, status : ConnectionStatuses \cup {None},
   before : [name : Names \cup {None}, mode : AccessModes \cup {None},
             projects : SUBSET Projects],
   number : Nat, compiled : Configurations \cup {None}]

(* What a session has written and not committed.  The audit event is left  *)
(* out: it is a record of varying shape.                                   *)
WritesOK(s) ==
  /\ DOMAIN writes[s] = DOMAIN NoWrites
  /\ writes[s].row \in ConnectionRows \cup {None}
  /\ writes[s].revoked \in SUBSET Projects
  /\ writes[s].granted \in SUBSET Projects
  /\ writes[s].draft \in Configurations \cup {None}
  /\ writes[s].revision \in Revisions \cup {None}
  /\ writes[s].project \in Projects \cup {None}

(* Every variable holds a value of its type.  The images of the replayed   *)
(* ledger are records of varying shape and are left out.                   *)
TypeOK ==
  /\ workspaceStatus \in [Workspaces -> WorkspaceStatuses]
  /\ membership \in [Workspaces -> [Users -> Roles \cup {None}]]
  /\ projectWorkspace \in [Projects -> Workspaces \cup {None}]
  /\ connection \in [Connections -> ConnectionRows \cup {None}]
  /\ projectAccess \in [Connections -> SUBSET Projects]
  /\ drafts \in [Connections -> Configurations \cup {None}]
  /\ revisions \in [Connections -> SUBSET Revisions]
  /\ DOMAIN audited = Connections
  /\ operation \in [Sessions -> Operations \cup {None}]
  /\ pc \in [Sessions -> Statements \cup {"idle"}]
  /\ \A s \in Sessions : pc[s] = "idle" <=> operation[s] = None
  /\ held \in [Sessions -> SUBSET Rows]
  /\ local \in [Sessions -> LocalStates]
  /\ DOMAIN writes = Sessions
  /\ \A s \in Sessions : WritesOK(s)
  /\ outcome \in [Sessions -> Problems \cup {None, "SUCCEEDED", "ABORTED"}]

-----------------------------------------------------------------------------
(* Invariants. *)

(* The revisions of a connection are numbered 1, 2, ... without a gap and  *)
(* without a repetition, although publish_revision computes each number    *)
(* with an unlocked MAX + 1 (connection_repository.py:371) while other     *)
(* publications are in flight or roll back.                                *)
RevisionHistoryGapless ==
  \A c \in Connections : Gapless(revisions[c])

(* No request ever runs into a constraint of the schema or into a row the  *)
(* repository refuses to decode: the locks make the revision number free,  *)
(* the deletion makes the access rows free, and WORKSPACE mode never has   *)
(* access rows.  Each of these would surface as INTERNAL_ERROR.            *)
NoInternalError ==
  \A s \in Sessions : outcome[s] # "INTERNAL_ERROR"

(* The canonical access policy of ADR 0022: WORKSPACE mode has no access   *)
(* rows and every selected project belongs to the connection's workspace,  *)
(* whatever replacements, crashes and project creations interleave.        *)
CanonicalAccess ==
  \A c \in Connections :
    IF connection[c] = None
    THEN projectAccess[c] = {}
    ELSE /\ connection[c].mode = "WORKSPACE" => projectAccess[c] = {}
         /\ \A p \in projectAccess[c] :
              projectWorkspace[p] = connection[c].workspace

(* A connection that can be run has been published: ACTIVE and DISABLED    *)
(* connections have a revision, DRAFT ones have none.  Publication and     *)
(* activation are two statements, and lifecycle requests race with them.   *)
ActivationFollowsPublication ==
  \A c \in Connections : connection[c] # None =>
    /\ connection[c].status \in {"ACTIVE", "DISABLED"} => revisions[c] # {}
    /\ connection[c].status = "DRAFT" => revisions[c] = {}

(* Reading the audit ledger from the creation on gives the connection as   *)
(* it is: name, access policy, lifecycle and newest revision.  An event    *)
(* that is missing, committed without its change or written from a stale   *)
(* read would make the two differ.                                         *)
LedgerReplaysToState ==
  \A c \in Connections : connection[c] # None =>
    audited[c] = [name |-> connection[c].name,
                  mode |-> connection[c].mode,
                  projects |-> projectAccess[c],
                  status |-> connection[c].status,
                  revision |-> Cardinality(revisions[c])]

(* A stored draft can be published: what the provider wrote it accepts     *)
(* again, although canonicalization is not idempotent and publish compiles *)
(* the stored text, not the submitted one (domains/connections/service.py, *)
(* _compile_publication).  Otherwise PUT draft succeeds and every later    *)
(* publication is refused as REQUEST_VALIDATION_FAILED.                    *)
DraftsStayPublishable ==
  \A c \in Connections : drafts[c] # None => Canonicalize[drafts[c]] # None

Blocks(t, rows) == held[t] \cap rows # {}

(* The next statement of s waits until t has ended: it needs a row that t  *)
(* has locked, or a revision number that t has inserted.                   *)
WaitsFor(s, t) ==
  /\ s # t
  /\ \/ /\ pc[s] = "LockWorkspaceContext"
        /\ Blocks(t, ContextRows(operation[s].workspace, operation[s].user))
     \/ /\ pc[s] = "LockConnection"
        /\ Addressed(s)
        /\ Blocks(t, {ConnectionRow(Target(s))})
     \/ /\ pc[s] = "LockSelectedProjects"
        /\ Blocks(t, {ProjectRow(p) : p \in FoundProjects(s)})
     \/ /\ pc[s] \in {"RenameConnection", "UpdateAccessMode",
                      "ActivateDraftConnection", "UpdateLifecycle"}
        /\ Blocks(t, {ConnectionRow(Target(s))})
     \/ /\ pc[s] \in {"UpsertDraft", "LockDraft"}
        /\ Blocks(t, {DraftRow(Target(s))})
     \/ /\ pc[s] = "InsertRevision"
        /\ Running(t) /\ Target(t) = Target(s)
        /\ writes[t].revision # None
        /\ writes[t].revision.number = local[s].number

(* Transactions never wait for one another in a cycle: whoever is waited   *)
(* for waits for nobody, although the selected projects are locked in no   *)
(* particular order and two connections may select the same ones.          *)
NoChainOfWaiters ==
  \A s, t, u \in Sessions : ~ (WaitsFor(s, t) /\ WaitsFor(t, u))

-----------------------------------------------------------------------------
(* Action properties. *)

(* s commits in this step. *)
Commits(s) == Running(s) /\ outcome'[s] = "SUCCEEDED"

CommitIsAuthorized(s) ==
  LET op == operation[s]
      row == connection[op.connection]
      exists == op.kind \notin CreationKinds IN
  /\ membership[op.workspace][op.user] # None
  /\ exists => row # None /\ row.workspace = op.workspace
  /\ Authorize(op, [role |-> membership[op.workspace][op.user],
                    workspaceStatus |-> workspaceStatus[op.workspace],
                    mode |-> IF exists THEN row.mode ELSE None,
                    status |-> IF exists THEN row.status ELSE None])
       = "AUTHORIZED"

(* When a mutation commits, the role, workspace status and connection      *)
(* state that authorize it are still the current ones: authority cannot    *)
(* end between authorization and commit (ADR 0022).                        *)
AuthorityHoldsAtCommit ==
  [][\A s \in Sessions : Commits(s) => CommitIsAuthorized(s)]_vars

(* An audit event describes the step that commits it: the role is the one  *)
(* the actor has at that moment, and the image before is what the ledger   *)
(* said before, so consecutive events of a connection fit together.        *)
AuditEventsFitTogether ==
  [][\A s \in Sessions : Commits(s) /\ writes[s].event # NoEvent =>
       LET event == writes[s].event IN
       /\ event.role = membership[operation[s].workspace][operation[s].user]
       /\ \A f \in DOMAIN event.before :
            event.before[f] = audited[Target(s)][f]]_vars

(* A BUILDER never decides who sees a connection workspace-wide and never  *)
(* stops or restarts one: only an OWNER or ADMIN commits a change of mode, *)
(* or a change of status other than the activation by a publication.       *)
OnlyAdministratorsWiden ==
  [][\A s \in Sessions : Commits(s) =>
       LET c == Target(s)
           old == connection[c]
           new == connection'[c]
           published == revisions'[c] # revisions[c]
           widened == old = None /\ new # None /\ new.mode = "WORKSPACE"
           switched == old # None /\ new.mode # old.mode
           moved == old # None /\ new.status # old.status IN
       \/ ~widened /\ ~switched /\ ~moved
       \/ ~switched /\ published /\ old.status = "DRAFT"
       \/ membership[operation[s].workspace][operation[s].user]
            \in {"OWNER", "ADMIN"}]_vars

StaysArchived(c) ==
  connection[c] # None /\ connection[c].status = "ARCHIVED" =>
    UNCHANGED <<connection[c], projectAccess[c], drafts[c], revisions[c],
                audited[c]>>

(* ARCHIVED is terminal: nothing about an archived connection changes, not *)
(* even through a request authorized before the archival.                  *)
ArchivedIsTerminal ==
  [][\A c \in Connections : StaysArchived(c)]_vars

(* DISABLED is a kill switch: only an explicit ENABLE makes the connection *)
(* ACTIVE again, a publication that races with DISABLE does not.           *)
KillSwitchHolds ==
  [][\A c \in Connections :
       /\ connection[c] # None /\ connection[c].status = "DISABLED"
       /\ connection'[c].status = "ACTIVE"
       => \E s \in Sessions : Serves(s, "ENABLE") /\ Target(s) = c]_vars

-----------------------------------------------------------------------------
(* Every request ends: the transactions wait for one another's row locks,  *)
(* the selected projects are locked in no particular order, and still no   *)
(* cycle of waiting sessions arises.                                       *)
RequestsFinish ==
  \A s \in Sessions : Running(s) ~> ~Running(s)

(* The transactions implement the atomic registry: what is committed is    *)
(* the registry's state, and what sessions hold, have read or have written *)
(* but not committed is not part of it.                                    *)
Registry == INSTANCE ConnectionRegistry WITH
  workspaceStatus <- workspaceStatus, membership <- membership,
  projectWorkspace <- projectWorkspace, connection <- connection,
  projectAccess <- projectAccess, drafts <- drafts, revisions <- revisions
ImplementsRegistry == Registry!Spec
=============================================================================
