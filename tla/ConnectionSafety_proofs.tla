----------------------- MODULE ConnectionSafety_proofs -----------------------
(***************************************************************************)
(* The transactions of ConnectionTransactions implement the atomic         *)
(* registry of ConnectionRegistry, for every number of users, workspaces,  *)
(* connections, sessions and requests, and with it what the registry       *)
(* promises: the access policy stays canonical, only published connections *)
(* run, the audit ledger replays to the state, no request runs into a      *)
(* constraint of the schema, DISABLED is a kill switch and only            *)
(* administrators widen access.                                            *)
(*                                                                         *)
(* ConnectionTransactions_proofs shows that what a session has read under  *)
(* its locks stays current.  Here the invariant also says, statement by    *)
(* statement, what a session has written: at its commit that is the effect *)
(* of its request on the current rows.                                     *)
(***************************************************************************)
EXTENDS ConnectionTransactions_proofs

-----------------------------------------------------------------------------
(* What a session has written when it is about to run a statement.  These  *)
(* are constant operators: at is the statement, op the request, reads and  *)
(* wrote its local data and its writes, and row, access, draft and history *)
(* what the database holds of its connection.                              *)

Wrote(wrote, row, revoked, granted, draft, revision, project) ==
  /\ wrote.row = row
  /\ wrote.revoked = revoked
  /\ wrote.granted = granted
  /\ wrote.draft = draft
  /\ wrote.revision = revision
  /\ wrote.project = project

(* The statements no write comes before. *)
Reading ==
  {"LockWorkspaceContext", "LockConnection", "Authorize", "InsertProject",
   "FetchConnection", "LockSelectedProjects", "InsertConnection",
   "DeleteProjectAccess", "RenameConnection", "UpsertDraft", "LockDraft",
   "NextRevisionNumber", "InsertRevision", "UpdateLifecycle"}

Ending == {"InsertAudit", "Commit"}

NothingYet(at, wrote) ==
  at \in Reading => Wrote(wrote, None, {}, {}, None, None, None)

ProjectPending(at, op, wrote) ==
  at = "Commit" /\ op.kind = "CREATE_PROJECT" =>
    Wrote(wrote, None, {}, {}, None, None, op.project)

NewRow(op) ==
  [workspace |-> op.workspace, name |-> op.name, mode |-> op.access.mode,
   status |-> "DRAFT"]

CreationPending(at, op, wrote) ==
  op.kind = "CREATE_CONNECTION" =>
    /\ at = "InsertProjectAccess" =>
         Wrote(wrote, NewRow(op), {}, {}, None, None, None)
    /\ at \in Ending =>
         Wrote(wrote, NewRow(op), {}, op.access.projects, None, None, None)

(* The image the audit event gives of the time before. *)
Image(row, access) ==
  [name |-> row.name, mode |-> row.mode, projects |-> access]

RenamePending(at, op, reads, wrote, row, access) ==
  op.kind = "RENAME" =>
    /\ at \in Ending \cup {"RenameConnection"} =>
         reads.before = Image(row, access)
    /\ at \in Ending =>
         Wrote(wrote, [row EXCEPT !.name = op.name], {}, {}, None, None, None)

ReplacementPending(at, op, reads, wrote, row, access) ==
  op.kind = "REPLACE_ACCESS" =>
    /\ at \in Ending \cup {"LockSelectedProjects", "DeleteProjectAccess",
                           "InsertProjectAccess", "UpdateAccessMode"} =>
         reads.before = Image(row, access)
    /\ at = "InsertProjectAccess" =>
         Wrote(wrote, None, access, {}, None, None, None)
    /\ at = "UpdateAccessMode" =>
         Wrote(wrote, None, access, op.access.projects, None, None, None)
    /\ at \in Ending =>
         Wrote(wrote, [row EXCEPT !.mode = op.access.mode], access,
               op.access.projects, None, None, None)

DraftPending(at, op, wrote) ==
  at = "Commit" /\ op.kind = "PUT_DRAFT" =>
    /\ Canonicalize[op.configuration] # None
    /\ Wrote(wrote, None, {}, {}, Canonicalize[op.configuration], None, None)

LifecyclePending(at, op, wrote, row) ==
  at \in Ending /\ op.kind \in LifecycleActions =>
    Wrote(wrote, [row EXCEPT !.status = LifecycleTarget(op.kind)],
          {}, {}, None, None, None)

(* The draft is still the one that was locked and compiled. *)
NextRevision(draft, history) ==
  [number |-> Cardinality(history) + 1, configuration |-> Canonicalize[draft]]

Activated(row) ==
  IF row.status = "DRAFT" THEN [row EXCEPT !.status = "ACTIVE"] ELSE None

PublicationPending(at, op, reads, wrote, row, draft, history) ==
  op.kind = "PUBLISH" =>
    /\ at \in Ending \cup {"NextRevisionNumber", "InsertRevision",
                           "ActivateDraftConnection"} =>
         /\ draft # None
         /\ Canonicalize[draft] # None
         /\ reads.compiled = Canonicalize[draft]
    /\ at \in Ending \cup {"ActivateDraftConnection"} =>
         reads.number = Cardinality(history) + 1
    /\ at = "ActivateDraftConnection" =>
         Wrote(wrote, None, {}, {}, None, NextRevision(draft, history), None)
    /\ at \in Ending =>
         Wrote(wrote, Activated(row), {}, {}, None,
               NextRevision(draft, history), None)

Pending(at, op, reads, wrote, row, access, draft, history) ==
  /\ NothingYet(at, wrote)
  /\ ProjectPending(at, op, wrote)
  /\ CreationPending(at, op, wrote)
  /\ RenamePending(at, op, reads, wrote, row, access)
  /\ ReplacementPending(at, op, reads, wrote, row, access)
  /\ DraftPending(at, op, wrote)
  /\ LifecyclePending(at, op, wrote, row)
  /\ PublicationPending(at, op, reads, wrote, row, draft, history)

WritesFit(s) ==
  IF Running(s)
  THEN Pending(pc[s], operation[s], local[s], writes[s],
               connection[Target(s)], projectAccess[Target(s)],
               drafts[Target(s)], revisions[Target(s)])
  ELSE writes[s] = NoWrites

(* The audit event is the one InsertAudit would insert now. *)
EventFits(s) ==
  writes[s].event =
    IF pc[s] = "Commit"
         /\ operation[s].kind \notin {"CREATE_PROJECT", "PUT_DRAFT"}
    THEN [action |-> operation[s].kind, role |-> local[s].role,
          before |-> EventImages(s).before, after |-> EventImages(s).after]
    ELSE NoEvent

(* The selected projects have been validated. *)
SelectionFits(s) ==
  /\ pc[s] \in Ending \cup {"InsertConnection", "DeleteProjectAccess",
                            "InsertProjectAccess", "UpdateAccessMode"}
  /\ operation[s].kind \in {"CREATE_CONNECTION", "REPLACE_ACCESS"}
  => \A p \in operation[s].access.projects :
       projectWorkspace[p] = operation[s].workspace

SessionFits(s) == WritesFit(s) /\ EventFits(s) /\ SelectionFits(s)

(* Nobody else has or is about to have the identifier of a project that is *)
(* being created: a project never changes its workspace.                   *)
FreshProjects ==
  /\ \A s \in Sessions : Serves(s, "CREATE_PROJECT")
       => projectWorkspace[operation[s].project] = None
  /\ \A s, t \in Sessions :
       /\ s # t
       /\ Serves(s, "CREATE_PROJECT")
       /\ Serves(t, "CREATE_PROJECT")
       => operation[s].project # operation[t].project

(* An identifier not yet used has no rows in the dependent tables. *)
UnusedIsEmpty ==
  \A c \in Connections : connection[c] = None =>
    /\ projectAccess[c] = {}
    /\ revisions[c] = {}
    /\ audited[c] = [revision |-> 0]

SafetyInv ==
  /\ Inv
  /\ NoInternalError
  /\ CanonicalAccess
  /\ ActivationFollowsPublication
  /\ LedgerReplaysToState
  /\ FreshProjects
  /\ UnusedIsEmpty
  /\ \A s \in Sessions : SessionFits(s)
-----------------------------------------------------------------------------
(* Steps that leave the database alone. *)

(* What a session fits to is unchanged by steps that change neither it nor *)
(* the rows it depends on.                                                 *)
LEMMA FitsKeep ==
  ASSUME NEW t \in Sessions, SessionFits(t),
         operation'[t] = operation[t], pc'[t] = pc[t],
         local'[t] = local[t], writes'[t] = writes[t],
         connection'[Target(t)] = connection[Target(t)],
         projectAccess'[Target(t)] = projectAccess[Target(t)],
         drafts'[Target(t)] = drafts[Target(t)],
         revisions'[Target(t)] = revisions[Target(t)],
         \A p \in operation[t].access.projects :
           projectWorkspace[p] = operation[t].workspace
             => projectWorkspace'[p] = projectWorkspace[p]
  PROVE  SessionFits(t)'
<1>1. WritesFit(t)'
  BY DEF SessionFits, WritesFit, Running, Target
<1>2. EventImages(t)' = EventImages(t)
  BY DEF EventImages, AuditedOldName, AuditedAccess, AuditedStatus, ViewRow,
         ViewAccess, Target
<1>3. EventFits(t)'
  BY <1>2 DEF SessionFits, EventFits
<1>4. SelectionFits(t)'
  BY DEF SessionFits, SelectionFits
<1> QED
  BY <1>1, <1>3, <1>4 DEF SessionFits

(* What the invariant says of the database and of all sessions together.   *)
Policy ==
  /\ CanonicalAccess
  /\ ActivationFollowsPublication
  /\ LedgerReplaysToState
  /\ UnusedIsEmpty

LEMMA PolicyKept ==
  ASSUME Policy, UNCHANGED database
  PROVE  Policy'
BY DEF Policy, CanonicalAccess, ActivationFollowsPublication,
       LedgerReplaysToState, UnusedIsEmpty, database

(* A step that leaves the database alone and touches s alone.              *)
OwnStep(s, problems) ==
  /\ UNCHANGED database
  /\ operation'[s] \in {operation[s], None}
  /\ outcome'[s] \in problems
  /\ \A t \in Sessions \ {s} :
       /\ operation'[t] = operation[t]
       /\ pc'[t] = pc[t]
       /\ local'[t] = local[t]
       /\ writes'[t] = writes[t]
       /\ outcome'[t] = outcome[t]

LEMMA OwnStepKeeps ==
  ASSUME SafetyInv, NEW s \in Sessions,
         NEW problems, "INTERNAL_ERROR" \notin problems,
         OwnStep(s, problems), Inv', SessionFits(s)'
  PROVE  SafetyInv'
<1>1. Policy'
  BY PolicyKept DEF SafetyInv, Policy, OwnStep
<1>2. NoInternalError'
  BY DEF SafetyInv, NoInternalError, OwnStep
<1>3. FreshProjects'
  BY DEF SafetyInv, FreshProjects, Serves, Running, OwnStep, database
<1>4. \A t \in Sessions \ {s} : SessionFits(t)'
  BY FitsKeep DEF SafetyInv, OwnStep, database
<1> QED
  BY <1>1, <1>2, <1>3, <1>4 DEF SafetyInv, Policy

(* An exception other than a violated constraint. *)
LEMMA RaiseKeeps ==
  ASSUME SafetyInv, NEW s \in Sessions,
         NEW problem, problem # "INTERNAL_ERROR",
         Raise(s, problem), Inv'
  PROVE  SafetyInv'
<1>1. /\ Inv /\ TypeOK /\ End(s, problem) /\ UNCHANGED database
  BY DEF SafetyInv, Inv, Raise
<1>2. OwnStep(s, {problem})
  BY <1>1 DEF OwnStep, End, TypeOK
<1>3. /\ operation'[s] = None /\ pc'[s] = "idle" /\ writes'[s] = NoWrites
  BY <1>1 DEF End, TypeOK
<1>4. SessionFits(s)'
  BY <1>3
  DEF SessionFits, WritesFit, EventFits, SelectionFits, Running, NoWrites, Ending
<1> QED
  BY <1>2, <1>4, OwnStepKeeps

(* A statement that succeeds. *)
LEMMA StatementKeeps ==
  ASSUME SafetyInv, NEW s \in Sessions,
         UNCHANGED <<database, operation, outcome>>,
         \A t \in Sessions \ {s} :
           pc'[t] = pc[t] /\ local'[t] = local[t] /\ writes'[t] = writes[t],
         Inv', SessionFits(s)'
  PROVE  SafetyInv'
<1>1. OwnStep(s, {outcome[s]})
  BY DEF OwnStep
<1>2. "INTERNAL_ERROR" \notin {outcome[s]}
  BY DEF SafetyInv, NoInternalError
<1> QED
  BY <1>1, <1>2, OwnStepKeeps

(* What is known of a session that runs a statement. *)
LEMMA RunningFits ==
  ASSUME SafetyInv, NEW s \in Sessions, pc[s] # "idle"
  PROVE  /\ TypeOK /\ Running(s) /\ Target(s) \in Connections
         /\ SessionOK(s) /\ StatementFits(s)
         /\ SessionFits(s) /\ EventFits(s) /\ SelectionFits(s)
         /\ Pending(pc[s], operation[s], local[s], writes[s],
                    connection[Target(s)], projectAccess[Target(s)],
                    drafts[Target(s)], revisions[Target(s)])
BY RunningRequest DEF SafetyInv, Inv, SessionOK, SessionFits, WritesFit

(* What a session has written before its last statement. *)
LEMMA WritesSoFar ==
  ASSUME SafetyInv, NEW s \in Sessions, pc[s] \notin {"idle", "Commit"}
  PROVE  /\ DOMAIN writes = Sessions
         /\ DOMAIN writes[s] = {"row", "revoked", "granted", "draft",
                                "revision", "project", "event"}
         /\ writes[s].event = NoEvent
         /\ pc[s] \in Reading =>
              Wrote(writes[s], None, {}, {}, None, None, None)
<1>1. DOMAIN writes = Sessions /\ WritesOK(s)
  BY DEF SafetyInv, Inv, TypeOK
<1>2. DOMAIN NoWrites = {"row", "revoked", "granted", "draft", "revision",
                         "project", "event"}
  BY DEF NoWrites
<1>3. DOMAIN writes[s] = DOMAIN NoWrites
  BY <1>1 DEF WritesOK
<1>4. writes[s].event = NoEvent
  BY RunningFits DEF EventFits
<1>5. pc[s] \in Reading => Wrote(writes[s], None, {}, {}, None, None, None)
  BY RunningFits DEF Pending, NothingYet
<1> QED
  BY <1>1, <1>2, <1>3, <1>4, <1>5

LEMMA BeforeAuthorizationKeeps ==
  ASSUME SafetyInv, NEW s \in Sessions, Inv',
         LockWorkspaceContext(s) \/ LockConnection(s)
  PROVE  SafetyInv'
<1>1. /\ pc[s] \in {"LockWorkspaceContext", "LockConnection"}
      /\ UNCHANGED <<database, operation, writes, outcome>>
  BY DEF LockWorkspaceContext, LockConnection
<1>2. /\ pc'[s] \in {"LockConnection", "Authorize"}
      /\ \A t \in Sessions \ {s} :
           pc'[t] = pc[t] /\ local'[t] = local[t] /\ writes'[t] = writes[t]
  BY <1>1, RunningFits DEF TypeOK, LockWorkspaceContext, LockConnection, Goto
<1>3. SessionFits(s)'
  BY <1>1, <1>2, RunningFits
  DEF SessionFits, WritesFit, EventFits, SelectionFits, Running, Target,
      Pending, NothingYet, ProjectPending, CreationPending, RenamePending,
      ReplacementPending, DraftPending, LifecyclePending, PublicationPending,
      Reading, Ending
<1> QED
  BY <1>1, <1>2, <1>3, StatementKeeps

LEMMA AdmitKeeps ==
  ASSUME SafetyInv, NEW s \in Sessions, Inv', Admit(s)
  PROVE  SafetyInv'
<1>1. /\ pc[s] = "Authorize" /\ operation[s].kind \in Kinds
      /\ UNCHANGED <<database, operation, held, local, writes, outcome>>
      /\ Goto(s, FirstStatement(operation[s].kind))
  BY RunningRequest DEF Admit, SafetyInv, Inv
<1>2. /\ pc'[s] = FirstStatement(operation[s].kind)
      /\ \A t \in Sessions \ {s} : pc'[t] = pc[t]
  BY <1>1, RunningFits DEF TypeOK, Goto
<1>3. SessionFits(s)'
  BY <1>1, <1>2, RunningFits, FirstStatementFits
  DEF SessionFits, WritesFit, EventFits, SelectionFits, Running, Target,
      Pending, NothingYet, ProjectPending, CreationPending, RenamePending,
      ReplacementPending, DraftPending, LifecyclePending, PublicationPending,
      Reading, Ending, LifecycleActions
<1> QED
  BY <1>1, <1>2, <1>3, StatementKeeps

(* With no write yet, a session sees the committed rows; they are never    *)
(* such that fetching them raises.                                         *)
LEMMA CommittedRowsDecode ==
  ASSUME CanonicalAccess, NEW c \in Connections, connection[c] # None
  PROVE  connection[c].mode = "WORKSPACE" => projectAccess[c] = {}
BY DEF CanonicalAccess

LEMMA FetchConnectionKeeps ==
  ASSUME SafetyInv, NEW s \in Sessions, Inv', FetchConnection(s)
  PROVE  SafetyInv'
<1> DEFINE c == Target(s)
<1>1. /\ pc[s] = "FetchConnection" /\ InConnection(s)
      /\ operation[s].kind \in {"RENAME", "REPLACE_ACCESS"}
  BY RunningFits DEF FetchConnection, StatementFits, InConnection, CreationKinds
<1>2. ViewRow(s) = connection[c] /\ ViewAccess(s) = projectAccess[c]
  BY <1>1, RunningFits
  DEF Pending, NothingYet, Reading, Wrote, ViewRow, ViewAccess
<1>3. ~FetchRaises(s)
  BY <1>1, <1>2, RunningFits, CommittedRowsDecode
  DEF SafetyInv, FetchRaises, SessionOK, ConnectionIsCurrent
<1>4. UNCHANGED <<database, operation, held, writes, outcome>>
  BY <1>3 DEF FetchConnection
<1>5. /\ local'[s].before = Image(connection[c], projectAccess[c])
      /\ \A t \in Sessions \ {s} : local'[t] = local[t]
  BY <1>1, <1>2, <1>3, RunningFits
  DEF FetchConnection, TypeOK, LocalStates, Image
<1>6. /\ pc'[s] \in {"RenameConnection", "LockSelectedProjects"}
      /\ \A t \in Sessions \ {s} : pc'[t] = pc[t]
  BY <1>1, <1>3, RunningFits DEF FetchConnection, TypeOK, Goto
<1>7. SessionFits(s)'
  BY <1>1, <1>4, <1>5, <1>6, RunningFits
  DEF SessionFits, WritesFit, EventFits, SelectionFits, Running, Target,
      Pending, NothingYet, ProjectPending, CreationPending, RenamePending,
      ReplacementPending, DraftPending, LifecyclePending, PublicationPending,
      Reading, Ending, LifecycleActions, database
<1> QED
  BY <1>4, <1>5, <1>6, <1>7, StatementKeeps

LEMMA LockOneProjectKeeps ==
  ASSUME SafetyInv, NEW s \in Sessions, Inv', LockOneProject(s)
  PROVE  SafetyInv'
<1>1. UNCHANGED <<database, operation, pc, local, writes, outcome>>
  BY DEF LockOneProject
<1>2. SessionFits(s)'
  BY <1>1, FitsKeep DEF SafetyInv, database
<1> QED
  BY <1>1, <1>2, StatementKeeps

LEMMA ValidateProjectsKeeps ==
  ASSUME SafetyInv, NEW s \in Sessions, Inv', ValidateProjects(s)
  PROVE  SafetyInv'
<1>1. /\ pc[s] = "LockSelectedProjects"
      /\ FoundProjects(s) = operation[s].access.projects
      /\ UNCHANGED <<database, operation, held, local, writes, outcome>>
  BY DEF ValidateProjects, ProjectsLocked
<1>2. /\ operation[s].kind \in {"CREATE_CONNECTION", "REPLACE_ACCESS"}
      /\ pc'[s] = IF operation[s].kind = "CREATE_CONNECTION"
                  THEN "InsertConnection" ELSE "DeleteProjectAccess"
      /\ \A t \in Sessions \ {s} : pc'[t] = pc[t]
  <2>1. operation[s].kind \in {"CREATE_CONNECTION", "REPLACE_ACCESS"}
    BY <1>1, RunningFits DEF StatementFits
  <2> QED
    BY <1>1, <2>1, RunningFits DEF ValidateProjects, TypeOK, Goto
<1>3. SelectionFits(s)'
  BY <1>1 DEF SelectionFits, FoundProjects, database
<1>4. SessionFits(s)'
  BY <1>1, <1>2, <1>3, RunningFits
  DEF SessionFits, WritesFit, EventFits, Running, Target,
      Pending, NothingYet, ProjectPending, CreationPending, RenamePending,
      ReplacementPending, DraftPending, LifecyclePending, PublicationPending,
      Reading, Ending, LifecycleActions, database
<1> QED
  BY <1>1, <1>2, <1>4, StatementKeeps

LEMMA InsertProjectKeeps ==
  ASSUME SafetyInv, NEW s \in Sessions, Inv', InsertProject(s)
  PROVE  SafetyInv'
<1>1. /\ pc[s] = "InsertProject" /\ operation[s].kind = "CREATE_PROJECT"
      /\ UNCHANGED <<database, operation, held, local, outcome>>
      /\ writes' = [writes EXCEPT ![s].project = operation[s].project]
  BY RunningFits DEF InsertProject, StatementFits
<1>2. /\ pc'[s] = "Commit"
      /\ \A t \in Sessions \ {s} : pc'[t] = pc[t] /\ writes'[t] = writes[t]
  BY <1>1, RunningFits DEF InsertProject, TypeOK, Goto
<1>3. /\ Wrote(writes'[s], None, {}, {}, None, None, operation[s].project)
      /\ writes'[s].event = NoEvent
  BY <1>1, WritesSoFar DEF Reading, Wrote
<1>4. SessionFits(s)'
  BY <1>1, <1>2, <1>3, RunningFits
  DEF SessionFits, WritesFit, EventFits, SelectionFits, Running, Target,
      Pending, NothingYet, ProjectPending, CreationPending, RenamePending,
      ReplacementPending, DraftPending, LifecyclePending, PublicationPending,
      Reading, Ending, LifecycleActions, database
<1> QED
  BY <1>1, <1>2, <1>4, StatementKeeps

LEMMA InsertConnectionKeeps ==
  ASSUME SafetyInv, NEW s \in Sessions, Inv', InsertConnection(s)
  PROVE  SafetyInv'
<1>1. /\ pc[s] = "InsertConnection"
      /\ operation[s].kind = "CREATE_CONNECTION"
      /\ UNCHANGED <<database, operation, held, local, outcome>>
      /\ writes' = [writes EXCEPT ![s].row = NewRow(operation[s])]
  BY RunningFits DEF InsertConnection, StatementFits, NewRow
<1>2. /\ pc'[s] = "InsertProjectAccess"
      /\ \A t \in Sessions \ {s} : pc'[t] = pc[t] /\ writes'[t] = writes[t]
  BY <1>1, RunningFits DEF InsertConnection, TypeOK, Goto
<1>3. /\ Wrote(writes'[s], NewRow(operation[s]), {}, {}, None, None, None)
      /\ writes'[s].event = NoEvent
  BY <1>1, WritesSoFar DEF Reading, Wrote
<1>4. SelectionFits(s)'
  BY <1>1, RunningFits DEF SelectionFits, database
<1>5. SessionFits(s)'
  BY <1>1, <1>2, <1>3, <1>4, RunningFits
  DEF SessionFits, WritesFit, EventFits, Running, Target,
      Pending, NothingYet, ProjectPending, CreationPending, RenamePending,
      ReplacementPending, DraftPending, LifecyclePending, PublicationPending,
      Reading, Ending, LifecycleActions, database
<1> QED
  BY <1>1, <1>2, <1>5, StatementKeeps

LEMMA DeleteProjectAccessKeeps ==
  ASSUME SafetyInv, NEW s \in Sessions, Inv', DeleteProjectAccess(s)
  PROVE  SafetyInv'
<1> DEFINE access == projectAccess[Target(s)]
<1>1. /\ pc[s] = "DeleteProjectAccess"
      /\ operation[s].kind = "REPLACE_ACCESS"
      /\ UNCHANGED <<database, operation, held, local, outcome>>
      /\ writes' = [writes EXCEPT ![s].revoked = access]
  BY RunningFits DEF DeleteProjectAccess, StatementFits
<1>2. /\ pc'[s] = "InsertProjectAccess"
      /\ \A t \in Sessions \ {s} : pc'[t] = pc[t] /\ writes'[t] = writes[t]
  BY <1>1, RunningFits DEF DeleteProjectAccess, TypeOK, Goto
<1>3. /\ Wrote(writes'[s], None, access, {}, None, None, None)
      /\ writes'[s].event = NoEvent
  BY <1>1, WritesSoFar DEF Reading, Wrote
<1>4. SelectionFits(s)'
  BY <1>1, RunningFits DEF SelectionFits, database
<1>5. SessionFits(s)'
  BY <1>1, <1>2, <1>3, <1>4, RunningFits
  DEF SessionFits, WritesFit, EventFits, Running, Target,
      Pending, NothingYet, ProjectPending, CreationPending, RenamePending,
      ReplacementPending, DraftPending, LifecyclePending, PublicationPending,
      Reading, Ending, LifecycleActions, database
<1> QED
  BY <1>1, <1>2, <1>5, StatementKeeps

(* The access rows are free: a creation's identifier has none, and a       *)
(* replacement has deleted them all.                                       *)
LEMMA AccessRowsAreFree ==
  ASSUME SafetyInv, NEW s \in Sessions, pc[s] = "InsertProjectAccess"
  PROVE  ~ViolatesAccessKeys(s)
<1>1. operation[s].kind \in {"CREATE_CONNECTION", "REPLACE_ACCESS"}
  BY RunningFits DEF StatementFits
<1>2. ViewAccess(s) = {}
  <2>1. CASE operation[s].kind = "CREATE_CONNECTION"
    <3>1. connection[Target(s)] = None
      BY <2>1, RunningFits DEF SessionOK, CreationIsFresh, Serves
    <3>2. projectAccess[Target(s)] = {}
      BY <3>1, RunningFits DEF SafetyInv, UnusedIsEmpty
    <3> QED
      BY <2>1, <3>2, RunningFits DEF Pending, CreationPending, Wrote, ViewAccess
  <2>2. CASE operation[s].kind = "REPLACE_ACCESS"
    BY <2>2, RunningFits DEF Pending, ReplacementPending, Wrote, ViewAccess
  <2> QED
    BY <1>1, <2>1, <2>2
<1>3. \A p \in operation[s].access.projects :
        projectWorkspace[p] = operation[s].workspace
  BY <1>1, RunningFits DEF SelectionFits
<1> QED
  BY <1>2, <1>3 DEF ViolatesAccessKeys

LEMMA InsertProjectAccessKeeps ==
  ASSUME SafetyInv, NEW s \in Sessions, Inv', InsertProjectAccess(s)
  PROVE  SafetyInv'
<1> DEFINE projects == operation[s].access.projects
<1>1. /\ pc[s] = "InsertProjectAccess"
      /\ operation[s].kind \in {"CREATE_CONNECTION", "REPLACE_ACCESS"}
  BY RunningFits DEF InsertProjectAccess, StatementFits
<1>2. /\ UNCHANGED <<database, operation, held, local, outcome>>
      /\ writes' = [writes EXCEPT ![s].granted = projects]
      /\ Goto(s, IF operation[s].kind = "CREATE_CONNECTION"
                 THEN "InsertAudit" ELSE "UpdateAccessMode")
  BY <1>1, AccessRowsAreFree DEF InsertProjectAccess
<1>3. /\ pc'[s] = IF operation[s].kind = "CREATE_CONNECTION"
                  THEN "InsertAudit" ELSE "UpdateAccessMode"
      /\ \A t \in Sessions \ {s} : pc'[t] = pc[t] /\ writes'[t] = writes[t]
  BY <1>1, <1>2, RunningFits DEF TypeOK, Goto
<1>4. /\ writes'[s].row = writes[s].row
      /\ writes'[s].revoked = writes[s].revoked
      /\ writes'[s].granted = projects
      /\ writes'[s].draft = writes[s].draft
      /\ writes'[s].revision = writes[s].revision
      /\ writes'[s].project = writes[s].project
      /\ writes'[s].event = NoEvent
  BY <1>1, <1>2, WritesSoFar
<1>5. EventFits(s)' /\ SelectionFits(s)'
  BY <1>1, <1>2, <1>3, <1>4, RunningFits
  DEF EventFits, SelectionFits, database
<1>6. Pending(pc'[s], operation[s], local[s], writes'[s],
              connection[Target(s)], projectAccess[Target(s)],
              drafts[Target(s)], revisions[Target(s)])
  <2>1. Pending(pc[s], operation[s], local[s], writes[s],
                connection[Target(s)], projectAccess[Target(s)],
                drafts[Target(s)], revisions[Target(s)])
    BY <1>1, RunningFits
  <2>2. CASE operation[s].kind = "CREATE_CONNECTION"
    BY ONLY <1>1, <1>3, <1>4, <2>1, <2>2
    DEF Pending, NothingYet, ProjectPending, CreationPending, RenamePending,
        ReplacementPending, DraftPending, LifecyclePending,
        PublicationPending, Wrote, Reading, Ending, LifecycleActions
  <2>3. CASE operation[s].kind = "REPLACE_ACCESS"
    BY ONLY <1>1, <1>3, <1>4, <2>1, <2>3
    DEF Pending, NothingYet, ProjectPending, CreationPending, RenamePending,
        ReplacementPending, DraftPending, LifecyclePending,
        PublicationPending, Wrote, Reading, Ending, LifecycleActions
  <2> QED
    BY <1>1, <2>2, <2>3
<1>7. SessionFits(s)'
  BY <1>1, <1>2, <1>5, <1>6, RunningFits
  DEF SessionFits, WritesFit, Running, Target, database
<1> QED
  BY <1>2, <1>3, <1>7, StatementKeeps

(* The updates of the connection row end with the audit event. *)
LEMMA UpdateRowWrites ==
  ASSUME SafetyInv, NEW s \in Sessions, pc[s] \notin {"idle", "Commit"},
         NEW row, UpdateRow(s, row), Goto(s, "InsertAudit")
  PROVE  /\ UNCHANGED <<database, operation, local, outcome>>
         /\ pc'[s] = "InsertAudit"
         /\ \A t \in Sessions \ {s} : pc'[t] = pc[t] /\ writes'[t] = writes[t]
         /\ writes'[s].row = row
         /\ writes'[s].revoked = writes[s].revoked
         /\ writes'[s].granted = writes[s].granted
         /\ writes'[s].draft = writes[s].draft
         /\ writes'[s].revision = writes[s].revision
         /\ writes'[s].project = writes[s].project
         /\ EventFits(s)'
<1>1. /\ UNCHANGED <<database, operation, local, outcome>>
      /\ writes' = [writes EXCEPT ![s].row = row]
  BY DEF UpdateRow
<1>2. /\ pc'[s] = "InsertAudit"
      /\ \A t \in Sessions \ {s} : pc'[t] = pc[t] /\ writes'[t] = writes[t]
  BY <1>1, RunningFits DEF TypeOK, Goto
<1>3. /\ writes'[s].row = row
      /\ writes'[s].revoked = writes[s].revoked
      /\ writes'[s].granted = writes[s].granted
      /\ writes'[s].draft = writes[s].draft
      /\ writes'[s].revision = writes[s].revision
      /\ writes'[s].project = writes[s].project
      /\ writes'[s].event = NoEvent
  BY <1>1, WritesSoFar
<1>4. EventFits(s)'
  BY <1>2, <1>3 DEF EventFits
<1> QED
  BY <1>1, <1>2, <1>3, <1>4

LEMMA RenameConnectionKeeps ==
  ASSUME SafetyInv, NEW s \in Sessions, Inv', RenameConnection(s)
  PROVE  SafetyInv'
<1> DEFINE row == [connection[Target(s)] EXCEPT !.name = operation[s].name]
<1>1. pc[s] = "RenameConnection" /\ operation[s].kind = "RENAME"
  BY RunningFits DEF RenameConnection, StatementFits
<1>2. UpdateRow(s, row) /\ Goto(s, "InsertAudit")
  BY <1>1, RunningFits
  DEF RenameConnection, ViewRow, Pending, NothingYet, Reading, Wrote
<1>3. SelectionFits(s)'
  BY <1>1, <1>2, UpdateRowWrites DEF SelectionFits
<1>4. Wrote(writes'[s], row, {}, {}, None, None, None)
  <2>1. Wrote(writes[s], None, {}, {}, None, None, None)
    BY <1>1, WritesSoFar DEF Reading
  <2>2. /\ writes'[s].row = row
        /\ writes'[s].revoked = writes[s].revoked
        /\ writes'[s].granted = writes[s].granted
        /\ writes'[s].draft = writes[s].draft
        /\ writes'[s].revision = writes[s].revision
        /\ writes'[s].project = writes[s].project
    BY <1>1, <1>2, UpdateRowWrites
  <2> QED
    BY ONLY <2>1, <2>2 DEF Wrote
<1>5. RenamePending("InsertAudit", operation[s], local[s], writes'[s],
                    connection[Target(s)], projectAccess[Target(s)])
  BY <1>1, <1>4, RunningFits DEF Pending, RenamePending, Ending
<1>6. Pending("InsertAudit", operation[s], local[s], writes'[s],
              connection[Target(s)], projectAccess[Target(s)],
              drafts[Target(s)], revisions[Target(s)])
  BY ONLY <1>1, <1>5
    DEF Pending, NothingYet, ProjectPending, CreationPending,
        ReplacementPending, DraftPending, LifecyclePending,
        PublicationPending, Reading, LifecycleActions
<1>7. SessionFits(s)'
  BY <1>1, <1>2, <1>3, <1>6, UpdateRowWrites, RunningFits
  DEF SessionFits, WritesFit, Running, Target, database
<1> QED
  BY <1>1, <1>2, <1>7, UpdateRowWrites, StatementKeeps

LEMMA UpdateAccessModeKeeps ==
  ASSUME SafetyInv, NEW s \in Sessions, Inv', UpdateAccessMode(s)
  PROVE  SafetyInv'
<1> DEFINE row == [connection[Target(s)] EXCEPT
                     !.mode = operation[s].access.mode]
<1>1. pc[s] = "UpdateAccessMode" /\ operation[s].kind = "REPLACE_ACCESS"
  BY RunningFits DEF UpdateAccessMode, StatementFits
<1>2. UpdateRow(s, row) /\ Goto(s, "InsertAudit")
  BY <1>1, RunningFits
  DEF UpdateAccessMode, ViewRow, Pending, ReplacementPending, Wrote
<1>3. SelectionFits(s)'
  BY <1>1, <1>2, UpdateRowWrites, RunningFits DEF SelectionFits, database
<1>4. Wrote(writes'[s], row, projectAccess[Target(s)],
            operation[s].access.projects, None, None, None)
  BY <1>1, <1>2, UpdateRowWrites, RunningFits
  DEF Pending, NothingYet, ReplacementPending, Reading, Wrote
<1>5. ReplacementPending("InsertAudit", operation[s], local[s], writes'[s],
                         connection[Target(s)], projectAccess[Target(s)])
  BY <1>1, <1>4, RunningFits DEF Pending, ReplacementPending, Ending
<1>6. Pending("InsertAudit", operation[s], local[s], writes'[s],
              connection[Target(s)], projectAccess[Target(s)],
              drafts[Target(s)], revisions[Target(s)])
  BY ONLY <1>1, <1>5
    DEF Pending, NothingYet, ProjectPending, CreationPending,
        RenamePending, DraftPending, LifecyclePending,
        PublicationPending, Reading, LifecycleActions
<1>7. SessionFits(s)'
  BY <1>1, <1>2, <1>3, <1>6, UpdateRowWrites, RunningFits
  DEF SessionFits, WritesFit, Running, Target, database
<1> QED
  BY <1>1, <1>2, <1>7, UpdateRowWrites, StatementKeeps

LEMMA UpdateLifecycleKeeps ==
  ASSUME SafetyInv, NEW s \in Sessions, Inv', UpdateLifecycle(s)
  PROVE  SafetyInv'
<1> DEFINE row == [connection[Target(s)] EXCEPT
                     !.status = LifecycleTarget(operation[s].kind)]
<1>1. pc[s] = "UpdateLifecycle" /\ operation[s].kind \in LifecycleActions
  BY RunningFits DEF UpdateLifecycle, StatementFits
<1>2. UpdateRow(s, row) /\ Goto(s, "InsertAudit")
  BY <1>1, RunningFits
  DEF UpdateLifecycle, ViewRow, Pending, NothingYet, Reading, Wrote
<1>3. SelectionFits(s)'
  BY <1>1, <1>2, UpdateRowWrites DEF SelectionFits, LifecycleActions
<1>4. Wrote(writes'[s], row, {}, {}, None, None, None)
  <2>1. Wrote(writes[s], None, {}, {}, None, None, None)
    BY <1>1, WritesSoFar DEF Reading
  <2>2. /\ writes'[s].row = row
        /\ writes'[s].revoked = writes[s].revoked
        /\ writes'[s].granted = writes[s].granted
        /\ writes'[s].draft = writes[s].draft
        /\ writes'[s].revision = writes[s].revision
        /\ writes'[s].project = writes[s].project
    BY <1>1, <1>2, UpdateRowWrites
  <2> QED
    BY ONLY <2>1, <2>2 DEF Wrote
<1>5. LifecyclePending("InsertAudit", operation[s], writes'[s],
                       connection[Target(s)])
  BY <1>1, <1>4, RunningFits DEF Pending, LifecyclePending, Ending
<1>6. Pending("InsertAudit", operation[s], local[s], writes'[s],
              connection[Target(s)], projectAccess[Target(s)],
              drafts[Target(s)], revisions[Target(s)])
  BY ONLY <1>1, <1>5
    DEF Pending, NothingYet, ProjectPending, CreationPending,
        RenamePending, ReplacementPending, DraftPending,
        PublicationPending, Reading, LifecycleActions
<1>7. SessionFits(s)'
  BY <1>1, <1>2, <1>3, <1>6, UpdateRowWrites, RunningFits
  DEF SessionFits, WritesFit, Running, Target, database
<1> QED
  BY <1>1, <1>2, <1>7, UpdateRowWrites, StatementKeeps

-----------------------------------------------------------------------------
(* Draft authoring, publication and audit. *)

LEMMA UpsertDraftKeeps ==
  ASSUME SafetyInv, NEW s \in Sessions, Inv', UpsertDraft(s)
  PROVE  SafetyInv'
<1> DEFINE compiled == Canonicalize[operation[s].configuration]
<1>1. /\ pc[s] = "UpsertDraft" /\ operation[s].kind = "PUT_DRAFT"
      /\ compiled # None
      /\ UNCHANGED <<database, operation, local, outcome>>
      /\ writes' = [writes EXCEPT ![s].draft = compiled]
  BY RunningFits DEF UpsertDraft, StatementFits
<1>2. /\ pc'[s] = "Commit"
      /\ \A t \in Sessions \ {s} : pc'[t] = pc[t] /\ writes'[t] = writes[t]
  BY <1>1, RunningFits DEF UpsertDraft, TypeOK, Goto
<1>3. /\ Wrote(writes'[s], None, {}, {}, compiled, None, None)
      /\ writes'[s].event = NoEvent
  BY <1>1, WritesSoFar DEF Reading, Wrote
<1>4. SessionFits(s)'
  BY <1>1, <1>2, <1>3, RunningFits
  DEF SessionFits, WritesFit, EventFits, SelectionFits, Running, Target,
      Pending, NothingYet, ProjectPending, CreationPending, RenamePending,
      ReplacementPending, DraftPending, LifecyclePending, PublicationPending,
      Reading, Ending, LifecycleActions, database
<1> QED
  BY <1>1, <1>2, <1>4, StatementKeeps

LEMMA LockDraftKeeps ==
  ASSUME SafetyInv, NEW s \in Sessions, Inv', LockDraft(s)
  PROVE  SafetyInv'
<1> DEFINE stored == drafts[Target(s)]
<1>1. pc[s] = "LockDraft" /\ operation[s].kind = "PUBLISH" /\ stored # None
  BY RunningFits DEF LockDraft, StatementFits
<1>2. CASE Canonicalize[stored] = None
  BY <1>2, RaiseKeeps DEF LockDraft
<1>3. CASE Canonicalize[stored] # None
  <2>1. /\ UNCHANGED <<database, operation, writes, outcome>>
        /\ local' = [local EXCEPT ![s].compiled = Canonicalize[stored]]
        /\ Goto(s, "NextRevisionNumber")
    BY <1>3 DEF LockDraft
  <2>2. /\ pc'[s] = "NextRevisionNumber"
        /\ local'[s].compiled = Canonicalize[stored]
        /\ \A t \in Sessions \ {s} : pc'[t] = pc[t] /\ local'[t] = local[t]
    BY <1>1, <2>1, RunningFits DEF TypeOK, LocalStates, Goto
  <2>3. SessionFits(s)'
    BY <1>1, <1>3, <2>1, <2>2, RunningFits
    DEF SessionFits, WritesFit, EventFits, SelectionFits, Running, Target,
        Pending, NothingYet, ProjectPending, CreationPending, RenamePending,
        ReplacementPending, DraftPending, LifecyclePending,
        PublicationPending, Reading, Ending, LifecycleActions, database
  <2> QED
    BY <2>1, <2>2, <2>3, StatementKeeps
<1> QED
  BY <1>2, <1>3

LEMMA NextRevisionNumberKeeps ==
  ASSUME SafetyInv, NEW s \in Sessions, Inv', NextRevisionNumber(s)
  PROVE  SafetyInv'
<1>1. /\ pc[s] = "NextRevisionNumber" /\ operation[s].kind = "PUBLISH"
      /\ UNCHANGED <<database, operation, writes, outcome>>
  BY RunningFits DEF NextRevisionNumber, StatementFits
<1>2. /\ pc'[s] = "InsertRevision"
      /\ local'[s].compiled = local[s].compiled
      /\ \A t \in Sessions \ {s} : pc'[t] = pc[t] /\ local'[t] = local[t]
  BY <1>1, RunningFits DEF NextRevisionNumber, TypeOK, LocalStates, Goto
<1>3. SessionFits(s)'
  BY <1>1, <1>2, RunningFits
  DEF SessionFits, WritesFit, EventFits, SelectionFits, Running, Target,
      Pending, NothingYet, ProjectPending, CreationPending, RenamePending,
      ReplacementPending, DraftPending, LifecyclePending, PublicationPending,
      Reading, Ending, LifecycleActions, database
<1> QED
  BY <1>1, <1>2, <1>3, StatementKeeps

(* The number a publication has computed is still free when it inserts the *)
(* revision.                                                               *)
LEMMA NextNumberIsFree ==
  ASSUME NEW rows, Gapless(rows)
  PROVE  ~ \E row \in rows : row.number = Cardinality(rows) + 1
<1>1. Cardinality(rows) \in Nat
  BY FS_CardinalityType DEF Gapless
<1>2. ASSUME NEW row \in rows PROVE row.number \in 1..Cardinality(rows)
  BY DEF Gapless
<1> QED
  BY <1>1, <1>2

LEMMA InsertRevisionKeeps ==
  ASSUME SafetyInv, NEW s \in Sessions, Inv', InsertRevision(s)
  PROVE  SafetyInv'
<1> DEFINE c == Target(s)
           revision == NextRevision(drafts[c], revisions[c])
<1>1. pc[s] = "InsertRevision" /\ operation[s].kind = "PUBLISH"
  BY RunningFits DEF InsertRevision, StatementFits
<1>2. /\ local[s].number = Cardinality(revisions[c]) + 1
      /\ local[s].compiled = Canonicalize[drafts[c]]
  BY <1>1, RunningFits
  DEF SessionOK, RevisionIsNext, Pending, PublicationPending
<1>3. ~ \E row \in revisions[c] : row.number = local[s].number
  <2>1. Gapless(revisions[c])
    BY <1>1, RunningFits DEF SafetyInv, Inv, RevisionHistoryGapless
  <2> QED
    BY <1>2, <2>1, NextNumberIsFree
<1>4. /\ UNCHANGED <<database, operation, held, local, outcome>>
      /\ writes' = [writes EXCEPT ![s].revision = revision]
      /\ Goto(s, "ActivateDraftConnection")
  BY <1>2, <1>3 DEF InsertRevision, NextRevision
<1>5. /\ pc'[s] = "ActivateDraftConnection"
      /\ \A t \in Sessions \ {s} : pc'[t] = pc[t] /\ writes'[t] = writes[t]
  BY <1>1, <1>4, RunningFits DEF TypeOK, Goto
<1>6. /\ Wrote(writes'[s], None, {}, {}, None, revision, None)
      /\ writes'[s].event = NoEvent
  BY <1>1, <1>4, WritesSoFar DEF Reading, Wrote
<1>7. SessionFits(s)'
  <2>1. PublicationPending("ActivateDraftConnection", operation[s], local[s],
                           writes'[s], connection[c], drafts[c], revisions[c])
    BY <1>1, <1>2, <1>6, RunningFits DEF Pending, PublicationPending, Ending
  <2>2. Pending("ActivateDraftConnection", operation[s], local[s], writes'[s],
                connection[c], projectAccess[c], drafts[c], revisions[c])
    BY ONLY <1>1, <2>1
    DEF Pending, NothingYet, ProjectPending, CreationPending, RenamePending,
        ReplacementPending, DraftPending, LifecyclePending, Reading,
        Ending, LifecycleActions
  <2> QED
    BY <1>1, <1>4, <1>5, <1>6, <2>2, RunningFits
    DEF SessionFits, WritesFit, EventFits, SelectionFits, Running, Target,
        Ending, database
<1> QED
  BY <1>4, <1>5, <1>7, StatementKeeps

LEMMA ActivateDraftConnectionKeeps ==
  ASSUME SafetyInv, NEW s \in Sessions, Inv', ActivateDraftConnection(s)
  PROVE  SafetyInv'
<1> DEFINE c == Target(s)
           row == connection[c]
           revision == NextRevision(drafts[c], revisions[c])
<1>1. /\ pc[s] = "ActivateDraftConnection" /\ operation[s].kind = "PUBLISH"
      /\ Goto(s, "InsertAudit")
  BY RunningFits DEF ActivateDraftConnection, StatementFits
<1>2. /\ Wrote(writes[s], None, {}, {}, None, revision, None)
      /\ ViewRow(s) = row
      /\ InConnection(s)
  BY <1>1, RunningFits
  DEF Pending, PublicationPending, Wrote, ViewRow, InConnection, CreationKinds
<1>3. /\ UNCHANGED <<database, operation, local, outcome>>
      /\ pc'[s] = "InsertAudit"
      /\ \A t \in Sessions \ {s} : pc'[t] = pc[t] /\ writes'[t] = writes[t]
      /\ Wrote(writes'[s], Activated(row), {}, {}, None, revision, None)
      /\ EventFits(s)'
  <2>1. CASE row.status = "DRAFT"
    <3>1. UpdateRow(s, Activated(row))
      BY <1>2, <2>1 DEF ActivateDraftConnection, Activated
    <3> QED
      BY <1>1, <1>2, <3>1, UpdateRowWrites DEF Wrote
  <2>2. CASE row.status # "DRAFT"
    <3>1. UNCHANGED <<database, operation, held, local, writes, outcome>>
      BY <1>2, <2>2 DEF ActivateDraftConnection
    <3>2. Activated(row) = None
      BY <2>2 DEF Activated
    <3>3. /\ pc'[s] = "InsertAudit"
          /\ \A t \in Sessions \ {s} : pc'[t] = pc[t]
      BY <1>1, RunningFits DEF TypeOK, Goto
    <3>4. writes[s].event = NoEvent
      BY <1>1, RunningFits DEF EventFits
    <3> QED
      BY <1>2, <3>1, <3>2, <3>3, <3>4 DEF EventFits
  <2> QED
    BY <2>1, <2>2
<1>4. PublicationPending("InsertAudit", operation[s], local[s], writes'[s],
                         row, drafts[c], revisions[c])
  BY <1>1, <1>3, RunningFits DEF Pending, PublicationPending, Ending
<1>5. Pending("InsertAudit", operation[s], local[s], writes'[s], row,
              projectAccess[c], drafts[c], revisions[c])
  BY ONLY <1>1, <1>4
  DEF Pending, NothingYet, ProjectPending, CreationPending, RenamePending,
      ReplacementPending, DraftPending, LifecyclePending, Reading,
      LifecycleActions
<1>6. SessionFits(s)'
  BY <1>1, <1>3, <1>5, RunningFits
  DEF SessionFits, WritesFit, SelectionFits, Running, Target, database
<1> QED
  BY <1>3, <1>6, StatementKeeps

(* The row a mutation leaves is a row. *)
LEMMA MutatedRows ==
  ASSUME NEW row \in ConnectionRows, NEW op \in OperationRecords,
         op.access \in AccessPolicies
  PROVE  /\ NewRow(op) \in ConnectionRows
         /\ [row EXCEPT !.name = op.name] \in ConnectionRows
         /\ [row EXCEPT !.mode = op.access.mode] \in ConnectionRows
         /\ op.kind \in LifecycleActions =>
              [row EXCEPT !.status = LifecycleTarget(op.kind)]
                \in ConnectionRows
         /\ [row EXCEPT !.status = "ACTIVE"] \in ConnectionRows
<1>1. op.name \in Names /\ op.workspace \in Workspaces
  BY DEF OperationRecords
<1>2. op.access.mode \in AccessModes
  BY DEF AccessPolicies
<1>3. NewRow(op) \in ConnectionRows
  BY <1>1, <1>2 DEF NewRow, ConnectionRows, ConnectionStatuses
<1>4. /\ [row EXCEPT !.name = op.name] \in ConnectionRows
      /\ [row EXCEPT !.mode = op.access.mode] \in ConnectionRows
  BY <1>1, <1>2 DEF ConnectionRows
<1>5. [row EXCEPT !.status = "ACTIVE"] \in ConnectionRows
  BY DEF ConnectionRows, ConnectionStatuses
<1>6. op.kind \in LifecycleActions =>
        [row EXCEPT !.status = LifecycleTarget(op.kind)] \in ConnectionRows
  BY LifecycleTargetIsStatus DEF ConnectionRows
<1> QED
  BY <1>3, <1>4, <1>5, <1>6

(* The connection as the transaction sees it when all writes are done, and *)
(* as it will be committed.                                                *)
FinalRow(op, row) ==
  CASE op.kind = "CREATE_CONNECTION" -> NewRow(op)
    [] op.kind = "RENAME" -> [row EXCEPT !.name = op.name]
    [] op.kind = "REPLACE_ACCESS" -> [row EXCEPT !.mode = op.access.mode]
    [] op.kind \in LifecycleActions ->
         [row EXCEPT !.status = LifecycleTarget(op.kind)]
    [] op.kind = "PUBLISH" ->
         IF row.status = "DRAFT" THEN [row EXCEPT !.status = "ACTIVE"] ELSE row

FinalAccess(op, access) ==
  IF op.kind \in {"CREATE_CONNECTION", "REPLACE_ACCESS"}
  THEN op.access.projects ELSE access

LEMMA FinalRows ==
  ASSUME NEW op, NEW row, NEW access
  PROVE  /\ op.kind = "CREATE_CONNECTION" =>
              /\ FinalRow(op, row) = NewRow(op)
              /\ FinalAccess(op, access) = op.access.projects
         /\ op.kind = "RENAME" =>
              /\ FinalRow(op, row) = [row EXCEPT !.name = op.name]
              /\ FinalAccess(op, access) = access
         /\ op.kind = "REPLACE_ACCESS" =>
              /\ FinalRow(op, row) = [row EXCEPT !.mode = op.access.mode]
              /\ FinalAccess(op, access) = op.access.projects
         /\ op.kind \in LifecycleActions =>
              /\ FinalRow(op, row) =
                   [row EXCEPT !.status = LifecycleTarget(op.kind)]
              /\ FinalAccess(op, access) = access
         /\ op.kind = "PUBLISH" =>
              /\ FinalRow(op, row) = IF row.status = "DRAFT"
                   THEN [row EXCEPT !.status = "ACTIVE"] ELSE row
              /\ FinalAccess(op, access) = access
<1>1. CASE op.kind = "CREATE_CONNECTION"
  BY <1>1 DEF FinalRow, FinalAccess, LifecycleActions
<1>2. CASE op.kind = "RENAME"
  BY <1>2 DEF FinalRow, FinalAccess, LifecycleActions
<1>3. CASE op.kind = "REPLACE_ACCESS"
  BY <1>3 DEF FinalRow, FinalAccess, LifecycleActions
<1>4. CASE op.kind \in LifecycleActions
  BY <1>4 DEF FinalRow, FinalAccess, LifecycleActions
<1>5. CASE op.kind = "PUBLISH"
  BY <1>5 DEF FinalRow, FinalAccess, LifecycleActions
<1> QED
  BY <1>1, <1>2, <1>3, <1>4, <1>5 DEF LifecycleActions

Audited(op) == op.kind \in Kinds \ {"CREATE_PROJECT", "PUT_DRAFT"}

(* A request for an existing connection finds one that decodes, a creation *)
(* finds none.                                                             *)
LEMMA TargetRow ==
  ASSUME SafetyInv, NEW s \in Sessions, Authorized(s)
  PROVE  /\ operation[s].kind = "CREATE_CONNECTION" =>
              /\ connection[Target(s)] = None
              /\ projectAccess[Target(s)] = {}
              /\ revisions[Target(s)] = {}
              /\ audited[Target(s)] = [revision |-> 0]
         /\ operation[s].kind \notin CreationKinds =>
              /\ connection[Target(s)] # None
              /\ connection[Target(s)] \in ConnectionRows
              /\ connection[Target(s)].workspace = operation[s].workspace
              /\ local[s].mode = connection[Target(s)].mode
              /\ local[s].status = connection[Target(s)].status
<1>1. pc[s] # "idle"
  BY DEF Authorized
<1>2. ASSUME operation[s].kind = "CREATE_CONNECTION"
      PROVE  connection[Target(s)] = None
  BY <1>1, <1>2, RunningFits DEF SessionOK, CreationIsFresh, Serves
<1>3. ASSUME operation[s].kind \notin CreationKinds
      PROVE  /\ connection[Target(s)] # None
             /\ connection[Target(s)] \in ConnectionRows
             /\ connection[Target(s)].workspace = operation[s].workspace
             /\ local[s].mode = connection[Target(s)].mode
             /\ local[s].status = connection[Target(s)].status
  BY <1>1, <1>3, RunningFits
  DEF SessionOK, ConnectionIsCurrent, InConnection, Authorized, TypeOK
<1> QED
  BY <1>1, <1>2, <1>3, RunningFits DEF SafetyInv, UnusedIsEmpty

LEMMA ViewAtEnd ==
  ASSUME SafetyInv, NEW s \in Sessions, pc[s] \in Ending,
         Audited(operation[s])
  PROVE  /\ ViewRow(s) = FinalRow(operation[s], connection[Target(s)])
         /\ ViewAccess(s) = FinalAccess(operation[s], projectAccess[Target(s)])
         /\ ViewRow(s) \in ConnectionRows
<1> DEFINE op == operation[s]
           c == Target(s)
           row == connection[c]
           access == projectAccess[c]
<1>1. /\ pc[s] # "idle" /\ Authorized(s) /\ op \in OperationRecords
      /\ op.access \in AccessPolicies
  BY RunningRequest DEF Ending, Authorized, SafetyInv, Inv
<1>2. CASE op.kind = "CREATE_CONNECTION"
  <2>1. Wrote(writes[s], NewRow(op), {}, op.access.projects, None, None, None)
    BY <1>1, <1>2, RunningFits DEF Pending, CreationPending
  <2>2. access = {}
    BY <1>1, <1>2, TargetRow
  <2>3. NewRow(op) \in ConnectionRows
    BY <1>1 DEF NewRow, ConnectionRows, ConnectionStatuses, OperationRecords,
                AccessPolicies
  <2>4. ViewRow(s) = NewRow(op) /\ ViewAccess(s) = op.access.projects
    BY <2>1, <2>2, <2>3, NoneAssumption DEF Wrote, ViewRow, ViewAccess
  <2> QED
    BY <1>2, <2>3, <2>4, FinalRows
<1>3. ASSUME op.kind \notin CreationKinds
      PROVE  row \in ConnectionRows
  BY <1>1, <1>3, TargetRow
<1>4. CASE op.kind = "RENAME"
  <2>1. Wrote(writes[s], [row EXCEPT !.name = op.name], {}, {}, None, None, None)
    BY <1>1, <1>4, RunningFits DEF Pending, RenamePending
  <2>2. [row EXCEPT !.name = op.name] \in ConnectionRows
    BY <1>1, <1>3, <1>4, MutatedRows DEF CreationKinds
  <2>3. ViewRow(s) = [row EXCEPT !.name = op.name] /\ ViewAccess(s) = access
    BY <2>1, <2>2, NoneAssumption DEF Wrote, ViewRow, ViewAccess
  <2> QED
    BY <1>4, <2>2, <2>3, FinalRows
<1>5. CASE op.kind = "REPLACE_ACCESS"
  <2>1. Wrote(writes[s], [row EXCEPT !.mode = op.access.mode], access,
              op.access.projects, None, None, None)
    BY <1>1, <1>5, RunningFits DEF Pending, ReplacementPending
  <2>2. [row EXCEPT !.mode = op.access.mode] \in ConnectionRows
    BY <1>1, <1>3, <1>5, MutatedRows DEF CreationKinds
  <2>3. ViewRow(s) = [row EXCEPT !.mode = op.access.mode] /\ ViewAccess(s) = op.access.projects
    BY <2>1, <2>2, NoneAssumption DEF Wrote, ViewRow, ViewAccess
  <2> QED
    BY <1>5, <2>2, <2>3, FinalRows
<1>6. CASE op.kind \in LifecycleActions
  <2>1. Wrote(writes[s], [row EXCEPT !.status = LifecycleTarget(op.kind)],
              {}, {}, None, None, None)
    BY <1>1, <1>6, RunningFits DEF Pending, LifecyclePending
  <2>2. [row EXCEPT !.status = LifecycleTarget(op.kind)] \in ConnectionRows
    BY <1>1, <1>3, <1>6, MutatedRows DEF CreationKinds, LifecycleActions
  <2>3. /\ ViewRow(s) = [row EXCEPT !.status = LifecycleTarget(op.kind)]
        /\ ViewAccess(s) = access
    BY <2>1, <2>2, NoneAssumption DEF Wrote, ViewRow, ViewAccess
  <2> QED
    BY <1>6, <2>2, <2>3, FinalRows
<1>7. CASE op.kind = "PUBLISH"
  <2>1. Wrote(writes[s], Activated(row), {}, {}, None,
              NextRevision(drafts[c], revisions[c]), None)
    BY <1>1, <1>7, RunningFits DEF Pending, PublicationPending
  <2>2. /\ row \in ConnectionRows
        /\ [row EXCEPT !.status = "ACTIVE"] \in ConnectionRows
    BY <1>1, <1>3, <1>7, MutatedRows DEF CreationKinds
  <2>3. /\ ViewRow(s) = IF row.status = "DRAFT"
                        THEN [row EXCEPT !.status = "ACTIVE"] ELSE row
        /\ ViewAccess(s) = access
    BY <2>1, <2>2, NoneAssumption DEF Wrote, ViewRow, ViewAccess, Activated
  <2> QED
    BY <1>7, <2>2, <2>3, FinalRows
<1> QED
  BY <1>2, <1>4, <1>5, <1>6, <1>7 DEF Audited, Kinds, CreationKinds

(* The connection can be fetched again for the response. *)
LEMMA FinalRowDecodes ==
  ASSUME SafetyInv, NEW s \in Sessions, pc[s] \in Ending,
         Audited(operation[s])
  PROVE  ~FetchRaises(s)
<1> DEFINE op == operation[s]
           row == connection[Target(s)]
           access == projectAccess[Target(s)]
<1>1. /\ pc[s] # "idle" /\ Authorized(s) /\ op \in OperationRecords
      /\ op.access \in AccessPolicies /\ Target(s) \in Connections
  BY RunningRequest DEF Ending, Authorized, SafetyInv, Inv
<1>2. CASE op.kind = "CREATE_CONNECTION"
  <2>1. ViewRow(s).mode = op.access.mode /\ ViewAccess(s) = op.access.projects
    BY <1>2, ViewAtEnd, FinalRows DEF NewRow
  <2> QED
    BY <1>1, <2>1 DEF FetchRaises, AccessPolicies
<1>3. CASE op.kind = "REPLACE_ACCESS"
  <2>1. row \in ConnectionRows
    BY <1>1, <1>3, TargetRow DEF CreationKinds
  <2>2. ViewRow(s).mode = op.access.mode /\ ViewAccess(s) = op.access.projects
    BY <1>3, <2>1, ViewAtEnd, FinalRows DEF ConnectionRows
  <2> QED
    BY <1>1, <2>2 DEF FetchRaises, AccessPolicies
<1>4. CASE op.kind \in LifecycleActions \cup {"RENAME", "PUBLISH"}
  <2>1. row \in ConnectionRows /\ row # None
    BY <1>1, <1>4, TargetRow DEF CreationKinds, LifecycleActions
  <2>2. FinalRow(op, row).mode = row.mode /\ FinalAccess(op, access) = access
    BY <1>4, <2>1 DEF FinalRow, FinalAccess, ConnectionRows, LifecycleActions
  <2>3. row.mode = "WORKSPACE" => access = {}
    BY <1>1, <2>1, CommittedRowsDecode DEF SafetyInv
  <2> QED
    BY <2>2, <2>3, ViewAtEnd DEF FetchRaises
<1> QED
  BY <1>2, <1>3, <1>4 DEF Audited, Kinds, CreationKinds

LEMMA InsertAuditKeeps ==
  ASSUME SafetyInv, NEW s \in Sessions, Inv', InsertAudit(s)
  PROVE  SafetyInv'
<1> DEFINE event == [action |-> operation[s].kind, role |-> local[s].role,
                     before |-> EventImages(s).before,
                     after |-> EventImages(s).after]
<1>1. pc[s] = "InsertAudit" /\ Audited(operation[s])
  BY RunningFits, RunningRequest
  DEF InsertAudit, StatementFits, Audited, SafetyInv, Inv
<1>2. /\ UNCHANGED <<database, operation, held, local, outcome>>
      /\ writes' = [writes EXCEPT ![s].event = event]
      /\ Goto(s, "Commit")
  BY <1>1, FinalRowDecodes DEF InsertAudit, Ending
<1>3. /\ pc'[s] = "Commit"
      /\ \A t \in Sessions \ {s} : pc'[t] = pc[t] /\ writes'[t] = writes[t]
  BY <1>1, <1>2, RunningFits DEF TypeOK, Goto
<1>4. /\ writes'[s].row = writes[s].row
      /\ writes'[s].revoked = writes[s].revoked
      /\ writes'[s].granted = writes[s].granted
      /\ writes'[s].draft = writes[s].draft
      /\ writes'[s].revision = writes[s].revision
      /\ writes'[s].project = writes[s].project
      /\ writes'[s].event = event
  BY <1>1, <1>2, RunningFits DEF TypeOK, WritesOK, NoWrites
<1>5. Pending("Commit", operation[s], local[s], writes'[s],
              connection[Target(s)], projectAccess[Target(s)],
              drafts[Target(s)], revisions[Target(s)])
  BY <1>1, <1>4, RunningFits
  DEF Audited, Wrote, Pending, NothingYet, ProjectPending, CreationPending,
      RenamePending, ReplacementPending, DraftPending, LifecyclePending,
      PublicationPending, Reading, Ending
<1>6. EventImages(s)' = EventImages(s)
  BY <1>2, <1>4
  DEF EventImages, AuditedOldName, AuditedAccess, AuditedStatus, ViewRow,
      ViewAccess, Target, database
<1>7. EventFits(s)'
  BY <1>1, <1>2, <1>3, <1>4, <1>6 DEF EventFits, Audited
<1>8. SelectionFits(s)'
  BY <1>1, <1>2, <1>3, RunningFits DEF SelectionFits, Ending, database
<1>9. SessionFits(s)'
  BY <1>1, <1>2, <1>5, <1>7, <1>8, <1>3, RunningFits
  DEF SessionFits, WritesFit, Running, Target, database
<1> QED
  BY <1>2, <1>3, <1>9, StatementKeeps

-----------------------------------------------------------------------------
(* A request arrives, authority is administered, a request fails. *)

LEMMA BeginKeeps ==
  ASSUME SafetyInv, NEW s \in Sessions, NEW op \in Operations, Begin(s, op),
         Inv'
  PROVE  SafetyInv'
<1>1. /\ TypeOK /\ ~Running(s) /\ op # None
      /\ operation[s] = None /\ writes[s] = NoWrites
      /\ UNCHANGED <<database, local, writes>>
  BY NoneAssumption
  DEF Begin, SafetyInv, Inv, SessionFits, WritesFit, Running
<1>2. /\ operation'[s] = op /\ pc'[s] = "LockWorkspaceContext"
      /\ outcome'[s] = None
      /\ \A t \in Sessions \ {s} :
           /\ operation'[t] = operation[t] /\ pc'[t] = pc[t]
           /\ outcome'[t] = outcome[t]
  BY <1>1 DEF Begin, Goto, TypeOK
<1>3. Policy'
  BY <1>1, PolicyKept DEF SafetyInv, Policy
<1>4. NoInternalError'
  BY <1>2, NoneAssumption DEF SafetyInv, NoInternalError, Problems
<1>5. FreshProjects'
  <2>1. op.kind = "CREATE_PROJECT" =>
          /\ projectWorkspace[op.project] = None
          /\ \A t \in Sessions : Serves(t, "CREATE_PROJECT")
               => operation[t].project # op.project
    BY DEF Begin, Fresh
  <2> QED
    BY <1>1, <1>2, <2>1 DEF SafetyInv, FreshProjects, Serves, Running, database
<1>6. \A t \in Sessions \ {s} : SessionFits(t)'
  BY <1>1, <1>2, FitsKeep DEF SafetyInv, database
<1>7. SessionFits(s)'
  <2>1. Wrote(writes'[s], None, {}, {}, None, None, None)
    BY <1>1 DEF Wrote, NoWrites
  <2>2. EventFits(s)' /\ SelectionFits(s)'
    BY <1>1, <1>2 DEF EventFits, SelectionFits, NoWrites, Ending
  <2> QED
    BY <1>1, <1>2, <2>1, <2>2
    DEF SessionFits, WritesFit, Pending, NothingYet, ProjectPending,
        CreationPending, RenamePending, ReplacementPending, DraftPending,
        LifecyclePending, PublicationPending, Ending
<1> QED
  BY <1>3, <1>4, <1>5, <1>6, <1>7 DEF SafetyInv, Policy

LEMMA AdministrationKeeps ==
  ASSUME SafetyInv, Inv',
         UNCHANGED <<projectWorkspace, connection, projectAccess, drafts,
                     revisions, audited, operation, pc, local, writes, outcome>>
  PROVE  SafetyInv'
<1>1. \A t \in Sessions : SessionFits(t)'
  BY FitsKeep DEF SafetyInv
<1> QED
  BY <1>1
  DEF SafetyInv, NoInternalError, CanonicalAccess, ActivationFollowsPublication,
      LedgerReplaysToState, FreshProjects, UnusedIsEmpty, Serves, Running

LEMMA FailureKeeps ==
  ASSUME SafetyInv, NEW s \in Sessions, Inv',
         \/ WorkspaceNotFound(s) \/ ConnectionNotFound(s) \/ Refuse(s)
         \/ ProjectNotFound(s) \/ RejectDraft(s) \/ DraftMissing(s) \/ Abort(s)
  PROVE  SafetyInv'
<1>1. CASE Refuse(s)
  <2>1. operation[s].kind \in Kinds
    BY <1>1, RunningRequest DEF Refuse, SafetyInv, Inv
  <2>2. Authorize(operation[s], local[s]) # "INTERNAL_ERROR"
    BY <2>1, AuthorizeAnswers DEF Refusals
  <2> QED
    BY <1>1, <2>2, RaiseKeeps DEF Refuse
<1>2. CASE \/ WorkspaceNotFound(s) \/ ConnectionNotFound(s)
           \/ ProjectNotFound(s) \/ RejectDraft(s)
  BY <1>2, RaiseKeeps
  DEF WorkspaceNotFound, ConnectionNotFound, ProjectNotFound, RejectDraft
<1>3. CASE DraftMissing(s) \/ Abort(s)
  BY <1>3, RaiseKeeps DEF DraftMissing, Abort
<1> QED
  BY <1>1, <1>2, <1>3

-----------------------------------------------------------------------------
(* What a commit installs. *)

LEMMA ProjectCommit ==
  ASSUME SafetyInv, NEW s \in Sessions, Commit(s),
         operation[s].kind = "CREATE_PROJECT"
  PROVE  /\ projectWorkspace' = [projectWorkspace EXCEPT
              ![operation[s].project] = operation[s].workspace]
         /\ UNCHANGED <<workspaceStatus, membership, connection,
                        projectAccess, drafts, revisions, audited>>
<1>1. pc[s] = "Commit"
  BY DEF Commit
<1>2. /\ Wrote(writes[s], None, {}, {}, None, None, operation[s].project)
      /\ writes[s].event = NoEvent
  BY <1>1, RunningFits DEF Pending, ProjectPending, EventFits
<1>3. operation[s].project # None /\ TypeOK
  BY <1>1, RunningRequest, NoneAssumption DEF SafetyInv, Inv
<1>4. projectAccess' = projectAccess
  <2>1. projectAccess' = [projectAccess EXCEPT ![Target(s)] = @]
    BY <1>2 DEF Commit, Wrote
  <2> QED
    BY <1>3, <2>1 DEF TypeOK
<1> QED
  BY <1>2, <1>3, <1>4 DEF Commit, Wrote, Installed

LEMMA DraftCommit ==
  ASSUME SafetyInv, NEW s \in Sessions, Commit(s),
         operation[s].kind = "PUT_DRAFT"
  PROVE  /\ Canonicalize[operation[s].configuration] # None
         /\ drafts' = [drafts EXCEPT
              ![Target(s)] = Canonicalize[operation[s].configuration]]
         /\ UNCHANGED <<workspaceStatus, membership, projectWorkspace,
                        connection, projectAccess, revisions, audited>>
<1> DEFINE compiled == Canonicalize[operation[s].configuration]
<1>1. pc[s] = "Commit"
  BY DEF Commit
<1>2. /\ compiled # None
      /\ Wrote(writes[s], None, {}, {}, compiled, None, None)
      /\ writes[s].event = NoEvent
  BY <1>1, RunningFits DEF Pending, DraftPending, EventFits
<1>3. TypeOK
  BY DEF SafetyInv, Inv
<1>4. projectAccess' = projectAccess
  <2>1. projectAccess' = [projectAccess EXCEPT ![Target(s)] = @]
    BY <1>2 DEF Commit, Wrote
  <2> QED
    BY <1>3, <2>1 DEF TypeOK
<1> QED
  BY <1>2, <1>4 DEF Commit, Wrote, Installed

(* The commits that are audited install the row and the access that the    *)
(* transaction has seen since its last write.                              *)
LEMMA AuditedCommit ==
  ASSUME SafetyInv, NEW s \in Sessions, Commit(s), Audited(operation[s])
  PROVE  /\ connection' = [connection EXCEPT ![Target(s)] =
              FinalRow(operation[s], connection[Target(s)])]
         /\ projectAccess' = [projectAccess EXCEPT ![Target(s)] =
              FinalAccess(operation[s], projectAccess[Target(s)])]
         /\ revisions' = IF operation[s].kind = "PUBLISH"
              THEN [revisions EXCEPT ![Target(s)] =
                      @ \cup {NextRevision(drafts[Target(s)], @)}]
              ELSE revisions
         /\ audited' = [audited EXCEPT ![Target(s)] =
              Overlay(EventImages(s).after, @)]
         /\ UNCHANGED <<workspaceStatus, membership, projectWorkspace, drafts>>
<1> DEFINE op == operation[s]
           c == Target(s)
           w == writes[s]
<1>1. /\ pc[s] = "Commit" /\ pc[s] # "idle" /\ pc[s] \in Ending
      /\ Authorized(s) /\ TypeOK /\ c \in Connections
  BY RunningRequest DEF Commit, Ending, Authorized, SafetyInv, Inv
<1>2. /\ w.draft = None /\ w.project = None
      /\ w.revision = IF op.kind = "PUBLISH"
                      THEN NextRevision(drafts[c], revisions[c]) ELSE None
  BY <1>1, RunningFits
  DEF Audited, Kinds, CreationKinds, Pending, CreationPending, RenamePending,
      ReplacementPending, LifecyclePending, PublicationPending, Wrote,
      LifecycleActions
<1>3. connection' = [connection EXCEPT ![c] = ViewRow(s)]
  BY <1>1 DEF Commit, Installed, ViewRow, TypeOK
<1>4. projectAccess' = [projectAccess EXCEPT ![c] = ViewAccess(s)]
  BY <1>1 DEF Commit, ViewAccess, TypeOK
<1>5. revisions' = IF op.kind = "PUBLISH"
        THEN [revisions EXCEPT ![c] = @ \cup {NextRevision(drafts[c], @)}]
        ELSE revisions
  <2>1. CASE op.kind = "PUBLISH"
    <3>1. NextRevision(drafts[c], revisions[c]) \in Revisions
      <4>1. Cardinality(revisions[c]) + 1 \in Nat
        BY <1>1, FS_CardinalityType
        DEF SafetyInv, Inv, RevisionHistoryGapless, Gapless
      <4>2. Canonicalize[drafts[c]] \in Configurations
        BY <1>1, <2>1, RunningFits, CanonicalizeAssumption
        DEF Pending, PublicationPending, TypeOK
      <4> QED
        BY <4>1, <4>2 DEF NextRevision, Revisions
    <3> QED
      BY <1>2, <2>1, <3>1, NoneAssumption DEF Commit
  <2>2. CASE op.kind # "PUBLISH"
    BY <1>2, <2>2 DEF Commit
  <2> QED
    BY <2>1, <2>2
<1>6. audited' = [audited EXCEPT ![c] = Overlay(EventImages(s).after, @)]
  <2>1. /\ w.event.action = op.kind
        /\ w.event.after = EventImages(s).after
    <3>1. op.kind \notin {"CREATE_PROJECT", "PUT_DRAFT"}
      BY DEF Audited
    <3>2. w.event = [action |-> op.kind, role |-> local[s].role,
                     before |-> EventImages(s).before,
                     after |-> EventImages(s).after]
      BY <1>1, <3>1, RunningFits DEF EventFits
    <3> QED
      BY ONLY <3>2
  <2>2. w.event # NoEvent
    BY <2>1, NoneAssumption DEF Audited, NoEvent
  <2> QED
    BY <2>1, <2>2 DEF Commit
<1>7. UNCHANGED <<workspaceStatus, membership, projectWorkspace, drafts>>
  BY <1>2 DEF Commit, Installed
<1> QED
  BY <1>1, <1>3, <1>4, <1>5, <1>6, <1>7, ViewAtEnd

-----------------------------------------------------------------------------
(* A commit and the invariant. *)

(* The fields of the row a mutation leaves. *)
LEMMA FinalFields ==
  ASSUME SafetyInv, NEW s \in Sessions, Authorized(s), Audited(operation[s])
  PROVE  LET op == operation[s]
             row == connection[Target(s)]
             final == FinalRow(op, row) IN
         /\ final \in ConnectionRows
         /\ final # None
         /\ final.workspace = op.workspace
         /\ final.name = IF op.kind \in {"CREATE_CONNECTION", "RENAME"}
                         THEN op.name ELSE row.name
         /\ final.mode = IF op.kind \in {"CREATE_CONNECTION", "REPLACE_ACCESS"}
                         THEN op.access.mode ELSE row.mode
         /\ final.status =
              IF op.kind = "CREATE_CONNECTION" THEN "DRAFT"
              ELSE IF op.kind \in LifecycleActions THEN LifecycleTarget(op.kind)
              ELSE IF op.kind = "PUBLISH" /\ row.status = "DRAFT" THEN "ACTIVE"
              ELSE row.status
<1> DEFINE op == operation[s]
           row == connection[Target(s)]
           final == FinalRow(op, row)
<1>1. op \in OperationRecords /\ op.access \in AccessPolicies
  BY RunningRequest DEF Authorized, SafetyInv, Inv
<1>2. CASE op.kind = "CREATE_CONNECTION"
  <2>1. final = NewRow(op)
    BY <1>2, FinalRows
  <2>2. NewRow(op) \in ConnectionRows
    BY <1>1 DEF NewRow, ConnectionRows, ConnectionStatuses, OperationRecords,
                AccessPolicies
  <2> QED
    BY <1>2, <2>1, <2>2, NoneAssumption DEF NewRow
<1>3. ASSUME op.kind \notin CreationKinds
      PROVE  row \in ConnectionRows /\ row.workspace = op.workspace
  BY <1>3, TargetRow
<1>4. CASE op.kind = "RENAME"
  <2>1. row \in ConnectionRows /\ row.workspace = op.workspace
    BY <1>3, <1>4 DEF CreationKinds
  <2>2. final = [row EXCEPT !.name = op.name]
    BY <1>4, FinalRows
  <2>3. final \in ConnectionRows
    BY <1>1, <2>1, <2>2, MutatedRows
  <2> QED
    BY <1>4, <2>1, <2>2, <2>3, NoneAssumption DEF ConnectionRows, LifecycleActions
<1>5. CASE op.kind = "REPLACE_ACCESS"
  <2>1. row \in ConnectionRows /\ row.workspace = op.workspace
    BY <1>3, <1>5 DEF CreationKinds
  <2>2. final = [row EXCEPT !.mode = op.access.mode]
    BY <1>5, FinalRows
  <2>3. final \in ConnectionRows
    BY <1>1, <2>1, <2>2, MutatedRows
  <2> QED
    BY <1>5, <2>1, <2>2, <2>3, NoneAssumption DEF ConnectionRows, LifecycleActions
<1>6. CASE op.kind \in LifecycleActions
  <2>1. row \in ConnectionRows /\ row.workspace = op.workspace
    BY <1>3, <1>6 DEF CreationKinds, LifecycleActions
  <2>2. final = [row EXCEPT !.status = LifecycleTarget(op.kind)]
    BY <1>6, FinalRows
  <2>3. final \in ConnectionRows
    BY <1>1, <1>6, <2>1, <2>2, MutatedRows
  <2> QED
    BY <1>6, <2>1, <2>2, <2>3, NoneAssumption DEF ConnectionRows, LifecycleActions
<1>7. CASE op.kind = "PUBLISH"
  <2>1. row \in ConnectionRows /\ row.workspace = op.workspace
    BY <1>3, <1>7 DEF CreationKinds
  <2>2. final = IF row.status = "DRAFT"
                THEN [row EXCEPT !.status = "ACTIVE"] ELSE row
    BY <1>7, FinalRows
  <2>3. final \in ConnectionRows
    BY <1>1, <2>1, <2>2, MutatedRows
  <2> QED
    BY <1>7, <2>1, <2>2, <2>3, NoneAssumption DEF ConnectionRows, LifecycleActions
<1> QED
  BY <1>2, <1>4, <1>5, <1>6, <1>7 DEF Audited, Kinds, CreationKinds

(* A mutation leaves a canonical access policy. *)
LEMMA FinalAccessIsCanonical ==
  ASSUME SafetyInv, NEW s \in Sessions, pc[s] = "Commit", Audited(operation[s])
  PROVE  LET row == FinalRow(operation[s], connection[Target(s)])
             access == FinalAccess(operation[s], projectAccess[Target(s)]) IN
         /\ row.mode = "WORKSPACE" => access = {}
         /\ \A p \in access : projectWorkspace[p] = row.workspace
<1> DEFINE op == operation[s]
           c == Target(s)
           row == FinalRow(op, connection[c])
           access == FinalAccess(op, projectAccess[c])
<1>1. /\ Authorized(s) /\ pc[s] # "idle" /\ c \in Connections
      /\ op.access \in AccessPolicies
  BY RunningRequest DEF Authorized, SafetyInv, Inv
<1>2. row.workspace = op.workspace
  BY <1>1, FinalFields
<1>3. CASE op.kind \in {"CREATE_CONNECTION", "REPLACE_ACCESS"}
  <2>1. row.mode = op.access.mode /\ access = op.access.projects
    BY <1>1, <1>3, FinalFields DEF FinalAccess
  <2>2. \A p \in op.access.projects : projectWorkspace[p] = op.workspace
    BY <1>1, <1>3, RunningFits DEF SelectionFits, Ending
  <2> QED
    BY <1>1, <1>2, <2>1, <2>2 DEF AccessPolicies
<1>4. CASE op.kind \notin {"CREATE_CONNECTION", "REPLACE_ACCESS"}
  <2>1. row.mode = connection[c].mode /\ access = projectAccess[c]
    BY <1>1, <1>4, FinalFields DEF FinalAccess
  <2>2. connection[c] # None /\ connection[c].workspace = op.workspace
    BY <1>1, <1>4, TargetRow DEF Audited, CreationKinds
  <2> QED
    BY <1>1, <1>2, <2>1, <2>2 DEF SafetyInv, CanonicalAccess
<1> QED
  BY <1>3, <1>4

(* What authorization says of a lifecycle action. *)
LEMMA LifecycleIsAllowed ==
  ASSUME Inv, NEW s \in Sessions, Authorized(s),
         operation[s].kind \in LifecycleActions
  PROVE  LifecycleTransitionAllowed(local[s].status, operation[s].kind)
<1>1. Authorize(operation[s], local[s]) = "AUTHORIZED"
  BY DEF Inv, SessionOK
<1>2. AuthorizeLifecycle(local[s], operation[s].kind) = "AUTHORIZED"
  BY <1>1 DEF Authorize, LifecycleActions
<1> QED
  BY <1>2 DEF AuthorizeLifecycle, FirstRefusal

(* What a mutation leaves has been published if it can be run. *)
LEMMA FinalStatusFollowsPublication ==
  ASSUME SafetyInv, NEW s \in Sessions, Commit(s), Audited(operation[s])
  PROVE  LET row == FinalRow(operation[s], connection[Target(s)])
             rows == revisions'[Target(s)] IN
         /\ row.status \in {"ACTIVE", "DISABLED"} => rows # {}
         /\ row.status = "DRAFT" => rows = {}
<1> DEFINE op == operation[s]
           c == Target(s)
           old == connection[c]
           row == FinalRow(op, old)
<1>1. /\ Authorized(s) /\ c \in Connections /\ TypeOK
  BY RunningRequest DEF Commit, Authorized, SafetyInv, Inv
<1>2. op.kind # "CREATE_CONNECTION" =>
        /\ old # None
        /\ old.status \in {"ACTIVE", "DISABLED"} => revisions[c] # {}
        /\ old.status = "DRAFT" => revisions[c] = {}
        /\ local[s].status = old.status
  BY <1>1, TargetRow DEF Audited, CreationKinds, SafetyInv,
                         ActivationFollowsPublication
<1>3. CASE op.kind = "CREATE_CONNECTION"
  BY <1>1, <1>3, FinalFields, TargetRow, AuditedCommit
<1>4. CASE op.kind = "PUBLISH"
  <2>1. revisions'[c] # {}
    <3>1. revisions' = [revisions EXCEPT ![c] =
                          @ \cup {NextRevision(drafts[c], @)}]
      BY <1>4, AuditedCommit
    <3> QED
      BY <1>1, <3>1 DEF TypeOK
  <2>2. row.status # "DRAFT"
    BY <1>1, <1>4, FinalFields DEF LifecycleActions
  <2> QED
    BY <2>1, <2>2
<1>5. CASE op.kind \in LifecycleActions
  <2>1. revisions'[c] = revisions[c]
    BY <1>5, AuditedCommit DEF LifecycleActions
  <2>2. row.status = LifecycleTarget(op.kind)
    BY <1>1, <1>5, FinalFields DEF LifecycleActions
  <2>3. LifecycleTransitionAllowed(old.status, op.kind)
    BY <1>1, <1>2, <1>5, LifecycleIsAllowed DEF SafetyInv, LifecycleActions
  <2> QED
    BY <1>2, <1>5, <2>1, <2>2, <2>3
    DEF LifecycleTransitionAllowed, LifecycleTarget, LifecycleActions
<1>6. CASE op.kind \in {"RENAME", "REPLACE_ACCESS"}
  <2>1. row.status = old.status
    BY <1>1, <1>6, FinalFields DEF LifecycleActions
  <2>2. revisions'[c] = revisions[c]
    BY <1>6, AuditedCommit
  <2> QED
    BY <1>2, <1>6, <2>1, <2>2
<1> QED
  BY <1>3, <1>4, <1>5, <1>6 DEF Audited, Kinds, CreationKinds

-----------------------------------------------------------------------------
(* A commit and the audit ledger. *)

FullImage(row, access, history) ==
  [name |-> row.name, mode |-> row.mode, projects |-> access,
   status |-> row.status, revision |-> Cardinality(history)]

(* What the ledger says after one more event. *)
LEMMA OverlayOfCreation ==
  ASSUME NEW name, NEW mode, NEW projects, NEW status
  PROVE  Overlay([name |-> name, mode |-> mode, projects |-> projects,
                  status |-> status], [revision |-> 0])
           = [name |-> name, mode |-> mode, projects |-> projects,
              status |-> status, revision |-> 0]
BY DEF Overlay

LEMMA OverlayOfName ==
  ASSUME NEW name, NEW mode, NEW projects, NEW status, NEW revision,
         NEW newName
  PROVE  Overlay([name |-> newName],
                 [name |-> name, mode |-> mode, projects |-> projects,
                  status |-> status, revision |-> revision])
           = [name |-> newName, mode |-> mode, projects |-> projects,
              status |-> status, revision |-> revision]
BY DEF Overlay

LEMMA OverlayOfAccess ==
  ASSUME NEW name, NEW mode, NEW projects, NEW status, NEW revision,
         NEW newMode, NEW newProjects
  PROVE  Overlay([mode |-> newMode, projects |-> newProjects],
                 [name |-> name, mode |-> mode, projects |-> projects,
                  status |-> status, revision |-> revision])
           = [name |-> name, mode |-> newMode, projects |-> newProjects,
              status |-> status, revision |-> revision]
BY DEF Overlay

LEMMA OverlayOfStatus ==
  ASSUME NEW name, NEW mode, NEW projects, NEW status, NEW revision,
         NEW newStatus
  PROVE  Overlay([status |-> newStatus],
                 [name |-> name, mode |-> mode, projects |-> projects,
                  status |-> status, revision |-> revision])
           = [name |-> name, mode |-> mode, projects |-> projects,
              status |-> newStatus, revision |-> revision]
BY DEF Overlay

LEMMA OverlayOfPublication ==
  ASSUME NEW name, NEW mode, NEW projects, NEW status, NEW revision,
         NEW newRevision, NEW newStatus
  PROVE  Overlay([revision |-> newRevision, status |-> newStatus],
                 [name |-> name, mode |-> mode, projects |-> projects,
                  status |-> status, revision |-> revision])
           = [name |-> name, mode |-> mode, projects |-> projects,
              status |-> newStatus, revision |-> newRevision]
BY DEF Overlay

(* The image an event gives of the time after its step, by kind. *)
LEMMA ImagesAfter ==
  ASSUME NEW s \in Sessions
  PROVE  LET op == operation[s]
             after == EventImages(s).after IN
         /\ op.kind = "CREATE_CONNECTION" =>
              after = [name |-> op.name, mode |-> op.access.mode,
                       projects |-> op.access.projects, status |-> "DRAFT"]
         /\ op.kind = "RENAME" => after = [name |-> op.name]
         /\ op.kind = "REPLACE_ACCESS" =>
              after = [mode |-> ViewRow(s).mode, projects |-> ViewAccess(s)]
         /\ op.kind = "PUBLISH" =>
              after = [revision |-> local[s].number,
                       status |-> ViewRow(s).status]
         /\ op.kind \in LifecycleActions =>
              after = [status |-> LifecycleTarget(op.kind)]
<1> DEFINE op == operation[s]
<1>1. CASE op.kind = "CREATE_CONNECTION"
  BY <1>1 DEF EventImages, LifecycleActions
<1>2. CASE op.kind = "RENAME"
  BY <1>2 DEF EventImages, LifecycleActions
<1>3. CASE op.kind = "REPLACE_ACCESS"
  BY <1>3 DEF EventImages, AuditedAccess, LifecycleActions
<1>4. CASE op.kind = "PUBLISH"
  BY <1>4 DEF EventImages, AuditedStatus, LifecycleActions
<1>5. CASE op.kind \in LifecycleActions
  BY <1>5 DEF EventImages, LifecycleActions
<1> QED
  BY <1>1, <1>2, <1>3, <1>4, <1>5 DEF LifecycleActions

LEMMA CountGrows ==
  ASSUME NEW rows, Gapless(rows),
         NEW new, new.number = Cardinality(rows) + 1
  PROVE  Cardinality(rows \cup {new}) = Cardinality(rows) + 1
<1>1. Cardinality(rows) \in Nat
  BY FS_CardinalityType DEF Gapless
<1>2. new \notin rows
  BY <1>1 DEF Gapless
<1> QED
  BY <1>2, FS_AddElement DEF Gapless

(* The event a commit brings makes the ledger say what the rows say. *)
LEMMA CommitAudits ==
  ASSUME SafetyInv, NEW s \in Sessions, Commit(s), Audited(operation[s])
  PROVE  audited'[Target(s)] =
           FullImage(FinalRow(operation[s], connection[Target(s)]),
                     FinalAccess(operation[s], projectAccess[Target(s)]),
                     revisions'[Target(s)])
<1> DEFINE op == operation[s]
           c == Target(s)
           row == connection[c]
           final == FinalRow(op, row)
           access == FinalAccess(op, projectAccess[c])
<1>1. /\ Authorized(s) /\ pc[s] = "Commit" /\ pc[s] # "idle"
      /\ pc[s] \in Ending /\ c \in Connections /\ TypeOK
  BY RunningRequest DEF Commit, Authorized, Ending, SafetyInv, Inv
<1>2. audited'[c] = Overlay(EventImages(s).after, audited[c])
  <2>1. audited' = [audited EXCEPT ![c] = Overlay(EventImages(s).after, @)]
    BY AuditedCommit
  <2> QED
    BY <1>1, <2>1 DEF TypeOK
<1>3. ViewRow(s) = final /\ ViewAccess(s) = access
  BY <1>1, ViewAtEnd
<1>4. op.kind \notin CreationKinds =>
        audited[c] = [name |-> row.name, mode |-> row.mode,
                      projects |-> projectAccess[c], status |-> row.status,
                      revision |-> Cardinality(revisions[c])]
  BY <1>1, TargetRow DEF SafetyInv, LedgerReplaysToState
<1>5. op.kind # "PUBLISH" => revisions'[c] = revisions[c]
  BY AuditedCommit
<1>6. CASE op.kind = "CREATE_CONNECTION"
  <2>1. final = NewRow(op) /\ access = op.access.projects
    BY <1>6, FinalRows
  <2>2. audited[c] = [revision |-> 0] /\ Cardinality(revisions'[c]) = 0
    BY <1>1, <1>5, <1>6, TargetRow, FS_EmptySet
  <2>3. EventImages(s).after =
          [name |-> op.name, mode |-> op.access.mode,
           projects |-> op.access.projects, status |-> "DRAFT"]
    BY <1>6, ImagesAfter
  <2> QED
    BY <1>2, <2>1, <2>2, <2>3, OverlayOfCreation DEF FullImage, NewRow
<1>7. CASE op.kind = "RENAME"
  <2>1. /\ final.name = op.name /\ final.mode = row.mode
        /\ final.status = row.status /\ access = projectAccess[c]
    BY <1>1, <1>7, FinalFields DEF LifecycleActions, FinalAccess
  <2>2. EventImages(s).after = [name |-> op.name]
    BY <1>7, ImagesAfter
  <2>3. Overlay([name |-> op.name],
                [name |-> row.name, mode |-> row.mode,
                 projects |-> projectAccess[c], status |-> row.status,
                 revision |-> Cardinality(revisions[c])])
         = [name |-> op.name, mode |-> row.mode, projects |-> projectAccess[c],
            status |-> row.status, revision |-> Cardinality(revisions[c])]
    BY OverlayOfName
  <2> QED
    BY <1>2, <1>4, <1>5, <1>7, <2>1, <2>2, <2>3 DEF FullImage, CreationKinds
<1>8. CASE op.kind = "REPLACE_ACCESS"
  <2>1. final.name = row.name /\ final.status = row.status
    BY <1>1, <1>8, FinalFields DEF LifecycleActions
  <2>2. EventImages(s).after = [mode |-> final.mode, projects |-> access]
    BY <1>3, <1>8, ImagesAfter
  <2>3. Overlay([mode |-> final.mode, projects |-> access],
                [name |-> row.name, mode |-> row.mode,
                 projects |-> projectAccess[c], status |-> row.status,
                 revision |-> Cardinality(revisions[c])])
         = [name |-> row.name, mode |-> final.mode, projects |-> access,
            status |-> row.status, revision |-> Cardinality(revisions[c])]
    BY OverlayOfAccess
  <2> QED
    BY <1>2, <1>4, <1>5, <1>8, <2>1, <2>2, <2>3 DEF FullImage, CreationKinds
<1>9. CASE op.kind \in LifecycleActions
  <2>1. /\ final.name = row.name /\ final.mode = row.mode
        /\ final.status = LifecycleTarget(op.kind)
        /\ access = projectAccess[c]
    BY <1>1, <1>9, FinalFields DEF LifecycleActions, FinalAccess
  <2>2. EventImages(s).after = [status |-> LifecycleTarget(op.kind)]
    BY <1>9, ImagesAfter
  <2>3. op.kind \notin CreationKinds /\ op.kind # "PUBLISH"
    BY <1>9 DEF CreationKinds, LifecycleActions
  <2>4. Overlay([status |-> LifecycleTarget(op.kind)],
                [name |-> row.name, mode |-> row.mode,
                 projects |-> projectAccess[c], status |-> row.status,
                 revision |-> Cardinality(revisions[c])])
         = [name |-> row.name, mode |-> row.mode, projects |-> projectAccess[c],
            status |-> LifecycleTarget(op.kind), revision |-> Cardinality(revisions[c])]
    BY OverlayOfStatus
  <2> QED
    BY <1>2, <1>4, <1>5, <2>1, <2>2, <2>3, <2>4 DEF FullImage
<1>10. CASE op.kind = "PUBLISH"
  <2>1. /\ final.name = row.name /\ final.mode = row.mode
        /\ access = projectAccess[c]
    BY <1>1, <1>10, FinalFields DEF LifecycleActions, FinalAccess
  <2>2. local[s].number = Cardinality(revisions[c]) + 1
    BY <1>1, <1>10, RunningFits DEF Pending, PublicationPending
  <2>3. EventImages(s).after = [revision |-> Cardinality(revisions[c]) + 1,
                                status |-> final.status]
    BY <1>3, <1>10, <2>2, ImagesAfter
  <2>4. Cardinality(revisions'[c]) = Cardinality(revisions[c]) + 1
    <3>1. revisions' = [revisions EXCEPT ![c] =
                          @ \cup {NextRevision(drafts[c], @)}]
      BY <1>10, AuditedCommit
    <3>2. revisions'[c] =
            revisions[c] \cup {NextRevision(drafts[c], revisions[c])}
      BY <1>1, <3>1 DEF TypeOK
    <3>3. Gapless(revisions[c])
      BY <1>1 DEF SafetyInv, Inv, RevisionHistoryGapless
    <3>4. NextRevision(drafts[c], revisions[c]).number
            = Cardinality(revisions[c]) + 1
      BY DEF NextRevision
    <3> QED
      BY <3>2, <3>3, <3>4, CountGrows
  <2>5. Overlay([revision |-> Cardinality(revisions[c]) + 1,
                 status |-> final.status],
                [name |-> row.name, mode |-> row.mode,
                 projects |-> projectAccess[c], status |-> row.status,
                 revision |-> Cardinality(revisions[c])])
         = [name |-> row.name, mode |-> row.mode, projects |-> projectAccess[c],
            status |-> final.status, revision |-> Cardinality(revisions[c]) + 1]
    BY OverlayOfPublication
  <2> QED
    BY <1>2, <1>4, <1>10, <2>1, <2>3, <2>4, <2>5 DEF FullImage, CreationKinds
<1> QED
  BY <1>6, <1>7, <1>8, <1>9, <1>10 DEF Audited, Kinds, CreationKinds

-----------------------------------------------------------------------------
(* A commit and the other sessions. *)

(* Before it has locked its connection a session depends on no row of it.  *)
LEMMA FitsKeepEarly ==
  ASSUME NEW t \in Sessions, SessionFits(t),
         pc[t] = "idle" <=> operation[t] = None,
         operation'[t] = operation[t], pc'[t] = pc[t],
         local'[t] = local[t], writes'[t] = writes[t],
         ~InConnection(t),
         \A p \in operation[t].access.projects :
           projectWorkspace[p] = operation[t].workspace
             => projectWorkspace'[p] = projectWorkspace[p]
  PROVE  SessionFits(t)'
<1>1. SelectionFits(t)'
  BY DEF SessionFits, SelectionFits
<1>2. CASE pc[t] = "idle"
  BY <1>1, <1>2
  DEF SessionFits, WritesFit, EventFits, Running, Ending, NoWrites
<1>3. CASE pc[t] \in {"LockWorkspaceContext", "LockConnection"}
  <2>1. EventFits(t)'
    BY <1>3 DEF SessionFits, EventFits
  <2>2. WritesFit(t)'
    BY <1>3
    DEF SessionFits, WritesFit, Running, Pending, NothingYet, ProjectPending,
        CreationPending, RenamePending, ReplacementPending, DraftPending,
        LifecyclePending, PublicationPending, Ending
  <2> QED
    BY <1>1, <2>1, <2>2 DEF SessionFits
<1>4. CASE operation[t].kind \in CreationKinds /\ pc[t] # "idle"
  <2>1. operation[t].kind = "CREATE_CONNECTION" =>
          EventImages(t)' = EventImages(t)
    BY DEF EventImages, Target, LifecycleActions
  <2>2. EventFits(t)'
    BY <1>4, <2>1 DEF SessionFits, EventFits, CreationKinds
  <2>3. WritesFit(t)'
    BY <1>4
    DEF SessionFits, WritesFit, Running, Pending, NothingYet, ProjectPending,
        CreationPending, RenamePending, ReplacementPending, DraftPending,
        LifecyclePending, PublicationPending, CreationKinds, LifecycleActions
  <2> QED
    BY <1>1, <2>2, <2>3 DEF SessionFits
<1> QED
  BY <1>2, <1>3, <1>4 DEF InConnection

LEMMA CommitKinds ==
  ASSUME Inv, NEW s \in Sessions, Commit(s)
  PROVE  \/ operation[s].kind = "CREATE_PROJECT"
         \/ operation[s].kind = "PUT_DRAFT"
         \/ Audited(operation[s])
BY RunningRequest DEF Commit, Inv, Audited

(* A project never changes its workspace. *)
LEMMA OwnersStay ==
  ASSUME SafetyInv, NEW s \in Sessions, Commit(s),
         NEW p \in Projects, projectWorkspace[p] # None
  PROVE  projectWorkspace'[p] = projectWorkspace[p]
<1>1. CASE operation[s].kind = "CREATE_PROJECT"
  <2>1. /\ Serves(s, "CREATE_PROJECT") /\ TypeOK
        /\ projectWorkspace' = [projectWorkspace EXCEPT
             ![operation[s].project] = operation[s].workspace]
    BY <1>1, ProjectCommit, RunningRequest
    DEF Commit, Serves, SafetyInv, Inv
  <2>2. projectWorkspace[operation[s].project] = None
    BY <2>1 DEF SafetyInv, FreshProjects
  <2> QED
    BY <2>1, <2>2 DEF TypeOK
<1>2. CASE operation[s].kind # "CREATE_PROJECT"
  BY <1>2, DraftCommit, AuditedCommit, CommitKinds DEF SafetyInv
<1> QED
  BY <1>1, <1>2

(* No commit touches the draft of a connection another session has locked. *)
LEMMA CommitTouchesNoOtherDraft ==
  ASSUME SafetyInv, NEW s \in Sessions, Commit(s), NEW t \in Sessions \ {s},
         InConnection(t)
  PROVE  drafts'[Target(t)] = drafts[Target(t)]
<1>1. CASE operation[s].kind = "PUT_DRAFT"
  <2>1. /\ InConnection(s) /\ SessionOK(s) /\ SessionOK(t) /\ TypeOK
        /\ LocksExclusive
    BY <1>1 DEF Commit, InConnection, CreationKinds, SafetyInv, Inv
  <2>2. /\ ConnectionRow(Target(s)) \in held[s]
        /\ ConnectionRow(Target(t)) \in held[t]
    BY <2>1 DEF SessionOK, ConnectionIsCurrent
  <2>3. Target(s) # Target(t)
    BY <2>1, <2>2 DEF LocksExclusive
  <2>4. drafts' = [drafts EXCEPT
          ![Target(s)] = Canonicalize[operation[s].configuration]]
    BY <1>1, DraftCommit
  <2> QED
    BY <2>1, <2>3, <2>4 DEF TypeOK
<1>2. CASE operation[s].kind # "PUT_DRAFT"
  BY <1>2, ProjectCommit, AuditedCommit, CommitKinds DEF SafetyInv
<1> QED
  BY <1>1, <1>2

LEMMA CommitKeepsOthers ==
  ASSUME SafetyInv, NEW s \in Sessions, Commit(s), NEW t \in Sessions \ {s}
  PROVE  SessionFits(t)'
<1>1. /\ SessionFits(t) /\ TypeOK /\ Inv
      /\ pc[t] = "idle" <=> operation[t] = None
      /\ operation'[t] = operation[t] /\ pc'[t] = pc[t]
      /\ local'[t] = local[t] /\ writes'[t] = writes[t]
  BY DEF SafetyInv, Inv, TypeOK, Commit, End
<1>2. CASE pc[t] = "idle"
  BY <1>1, <1>2
  DEF SessionFits, WritesFit, EventFits, SelectionFits, Running, Ending,
      NoWrites
<1>3. CASE pc[t] # "idle"
  <2>1. \A p \in operation[t].access.projects :
          projectWorkspace[p] = operation[t].workspace
            => projectWorkspace'[p] = projectWorkspace[p]
    <3>1. /\ operation[t].access.projects \subseteq Projects
          /\ operation[t].workspace # None
      BY <1>1, <1>3, RunningRequest, NoneAssumption
    <3> QED
      BY <3>1, OwnersStay
  <2>2. CASE InConnection(t)
    <3>1. /\ connection'[Target(t)] = connection[Target(t)]
          /\ projectAccess'[Target(t)] = projectAccess[Target(t)]
          /\ revisions'[Target(t)] = revisions[Target(t)]
          /\ drafts'[Target(t)] = drafts[Target(t)]
      BY <1>1, <2>2, CommitTouchesNoOther, CommitTouchesNoOtherDraft
    <3> QED
      BY <1>1, <2>1, <3>1, FitsKeep
  <2>3. CASE ~InConnection(t)
    BY <1>1, <2>1, <2>3, FitsKeepEarly
  <2> QED
    BY <2>2, <2>3
<1> QED
  BY <1>2, <1>3

LEMMA CommitKeepsPolicy ==
  ASSUME SafetyInv, NEW s \in Sessions, Commit(s), Audited(operation[s])
  PROVE  Policy'
<1> DEFINE op == operation[s]
           c == Target(s)
           row == FinalRow(op, connection[c])
           access == FinalAccess(op, projectAccess[c])
<1>1. /\ TypeOK /\ c \in Connections /\ pc[s] = "Commit" /\ Policy
      /\ row # None
  BY RunningRequest, FinalFields DEF Commit, Authorized, SafetyInv, Inv, Policy
<1>2. /\ connection'[c] = row
      /\ projectAccess'[c] = access
      /\ projectWorkspace' = projectWorkspace
  BY <1>1, AuditedCommit DEF TypeOK
<1>3. \A d \in Connections \ {c} :
        /\ connection'[d] = connection[d]
        /\ projectAccess'[d] = projectAccess[d]
        /\ revisions'[d] = revisions[d]
        /\ audited'[d] = audited[d]
  BY <1>1, AuditedCommit DEF TypeOK
<1>4. CanonicalAccess'
  BY <1>1, <1>2, <1>3, FinalAccessIsCanonical DEF Policy, CanonicalAccess
<1>5. ActivationFollowsPublication'
  BY <1>1, <1>2, <1>3, FinalStatusFollowsPublication
  DEF Policy, ActivationFollowsPublication
<1>6. LedgerReplaysToState'
  <2>1. audited'[c] = FullImage(row, access, revisions'[c])
    BY CommitAudits
  <2> QED
    BY <1>1, <1>2, <1>3, <2>1 DEF Policy, LedgerReplaysToState, FullImage
<1>7. UnusedIsEmpty'
  BY <1>1, <1>2, <1>3 DEF Policy, UnusedIsEmpty
<1> QED
  BY <1>4, <1>5, <1>6, <1>7 DEF Policy

LEMMA CommitKeeps ==
  ASSUME SafetyInv, NEW s \in Sessions, Commit(s), Inv'
  PROVE  SafetyInv'
<1>1. /\ TypeOK /\ Inv /\ Policy /\ End(s, "SUCCEEDED") /\ Running(s)
      /\ operation[s] \in OperationRecords
  BY RunningRequest DEF Commit, SafetyInv, Inv, Policy
<1>2. Policy'
  <2>1. CASE operation[s].kind = "CREATE_PROJECT"
    <3>1. UNCHANGED <<connection, projectAccess, revisions, audited>>
      BY <2>1, ProjectCommit
    <3>2. CanonicalAccess'
      <4>1. \A c \in Connections : connection[c] # None =>
              /\ projectAccess[c] \subseteq Projects
              /\ connection[c].workspace # None
        BY <1>1, NoneAssumption DEF TypeOK, ConnectionRows
      <4>2. \A c \in Connections : connection[c] # None =>
              \A p \in projectAccess[c] :
                projectWorkspace'[p] = projectWorkspace[p]
        BY <1>1, <4>1, OwnersStay DEF Policy, CanonicalAccess
      <4> QED
        BY <1>1, <3>1, <4>2 DEF Policy, CanonicalAccess
    <3> QED
      BY <1>1, <3>1, <3>2
      DEF Policy, ActivationFollowsPublication, LedgerReplaysToState,
          UnusedIsEmpty
  <2>2. CASE operation[s].kind = "PUT_DRAFT"
    BY <1>1, <2>2, DraftCommit
    DEF Policy, CanonicalAccess, ActivationFollowsPublication,
        LedgerReplaysToState, UnusedIsEmpty
  <2>3. CASE Audited(operation[s])
    BY <2>3, CommitKeepsPolicy
  <2> QED
    BY <1>1, <2>1, <2>2, <2>3, CommitKinds
<1>3. NoInternalError'
  BY <1>1 DEF SafetyInv, NoInternalError, End, TypeOK
<1>4. FreshProjects'
  <2>1. /\ operation'[s] = None
        /\ \A t \in Sessions \ {s} : operation'[t] = operation[t]
    BY <1>1 DEF End, TypeOK
  <2>2. \A t \in Sessions \ {s} : Serves(t, "CREATE_PROJECT")
          => projectWorkspace'[operation[t].project] = None
    <3>1. CASE operation[s].kind = "CREATE_PROJECT"
      <4>1. projectWorkspace' = [projectWorkspace EXCEPT
              ![operation[s].project] = operation[s].workspace]
        BY <3>1, ProjectCommit
      <4>2. Serves(s, "CREATE_PROJECT")
        BY <1>1, <3>1 DEF Serves
      <4> QED
        BY <1>1, <4>1, <4>2 DEF SafetyInv, FreshProjects, TypeOK
    <3>2. CASE operation[s].kind # "CREATE_PROJECT"
      <4>1. projectWorkspace' = projectWorkspace
        BY <1>1, <3>2, DraftCommit, AuditedCommit, CommitKinds
      <4> QED
        BY <4>1 DEF SafetyInv, FreshProjects
    <3> QED
      BY <3>1, <3>2
  <2> QED
    BY <2>1, <2>2 DEF SafetyInv, FreshProjects, Serves, Running
<1>5. SessionFits(s)'
  <2>1. /\ operation'[s] = None /\ pc'[s] = "idle" /\ writes'[s] = NoWrites
    BY <1>1 DEF End, TypeOK
  <2> QED
    BY <2>1
    DEF SessionFits, WritesFit, EventFits, SelectionFits, Running, NoWrites,
        Ending
<1>6. \A t \in Sessions \ {s} : SessionFits(t)'
  BY CommitKeepsOthers
<1> QED
  BY <1>2, <1>3, <1>4, <1>5, <1>6 DEF SafetyInv, Policy

LEMMA StepKeeps ==
  ASSUME SafetyInv, NEW s \in Sessions, Step(s), Inv'
  PROVE  SafetyInv'
BY BeforeAuthorizationKeeps, AdmitKeeps, InsertProjectKeeps,
   FetchConnectionKeeps, LockOneProjectKeeps, ValidateProjectsKeeps,
   InsertConnectionKeeps, RenameConnectionKeeps, DeleteProjectAccessKeeps,
   InsertProjectAccessKeeps, UpdateAccessModeKeeps, UpdateLifecycleKeeps,
   UpsertDraftKeeps, LockDraftKeeps, NextRevisionNumberKeeps,
   InsertRevisionKeeps, ActivateDraftConnectionKeeps, InsertAuditKeeps,
   CommitKeeps, FailureKeeps
DEF Step

-----------------------------------------------------------------------------
(* The invariant. *)

LEMMA InitIsSafe == Init => SafetyInv
<1> SUFFICES ASSUME Init PROVE SafetyInv
  OBVIOUS
<1>1. Inv
  BY InitEstablishes
<1>2. NoInternalError
  BY NoneAssumption DEF Init, NoInternalError, Problems
<1>3. CanonicalAccess /\ ActivationFollowsPublication /\ LedgerReplaysToState
      /\ UnusedIsEmpty
  BY DEF Init, CanonicalAccess, ActivationFollowsPublication,
         LedgerReplaysToState, UnusedIsEmpty
<1>4. FreshProjects
  BY DEF Init, FreshProjects, Serves, Running
<1>5. \A s \in Sessions : SessionFits(s)
  BY DEF Init, SessionFits, WritesFit, EventFits, SelectionFits, Running,
         NoWrites, Ending
<1> QED
  BY <1>1, <1>2, <1>3, <1>4, <1>5 DEF SafetyInv

LEMMA NextKeeps == SafetyInv /\ [Next]_vars => SafetyInv'
<1> SUFFICES ASSUME SafetyInv, [Next]_vars PROVE SafetyInv'
  OBVIOUS
<1>1. Inv'
  BY NextPreserves DEF SafetyInv
<1>2. CASE UNCHANGED vars
  BY <1>1, <1>2, AdministrationKeeps DEF vars, database
<1>3. ASSUME NEW s \in Sessions, NEW op \in Operations, Begin(s, op)
      PROVE  SafetyInv'
  BY <1>1, <1>3, BeginKeeps
<1>4. ASSUME NEW s \in Sessions, Step(s) \/ Abort(s)
      PROVE  SafetyInv'
  BY <1>1, <1>4, StepKeeps, FailureKeeps
<1>5. ASSUME NEW w \in Workspaces, NEW u \in Users, ChangeMembership(w, u)
      PROVE  SafetyInv'
  BY <1>1, <1>5, AdministrationKeeps DEF ChangeMembership
<1>6. ASSUME NEW w \in Workspaces, ChangeWorkspaceStatus(w)
      PROVE  SafetyInv'
  BY <1>1, <1>6, AdministrationKeeps DEF ChangeWorkspaceStatus
<1> QED
  BY <1>2, <1>3, <1>4, <1>5, <1>6 DEF Next

(* The inductive invariant: what a session has read is what the database   *)
(* holds, and what it has written so far is what its request asks for.     *)
THEOREM SafetyInvariance == Spec => []SafetyInv
BY InitIsSafe, NextKeeps, PTL DEF Spec

(* No interleaving makes a request violate a key of the schema or leave a  *)
(* connection the repository refuses to decode.                            *)
THEOREM NoRequestFailsInternally == Spec => []NoInternalError
<1>1. SafetyInv => NoInternalError
  BY DEF SafetyInv
<1> QED
  BY <1>1, SafetyInvariance, PTL

(* The access policy of ADR 0022 stays canonical: no access rows in        *)
(* WORKSPACE mode, and only projects of the connection's workspace.        *)
THEOREM AccessStaysCanonical == Spec => []CanonicalAccess
<1>1. SafetyInv => CanonicalAccess
  BY DEF SafetyInv
<1> QED
  BY <1>1, SafetyInvariance, PTL

(* A connection is ACTIVE or DISABLED only if it has been published, and   *)
(* DRAFT only if it has not.                                               *)
THEOREM OnlyPublishedConnectionsRun == Spec => []ActivationFollowsPublication
<1>1. SafetyInv => ActivationFollowsPublication
  BY DEF SafetyInv
<1> QED
  BY <1>1, SafetyInvariance, PTL

(* The audit ledger says what the connection rows say: no event is lost,   *)
(* repeated, or written from a read that another commit has made stale.    *)
THEOREM LedgerIsComplete == Spec => []LedgerReplaysToState
<1>1. SafetyInv => LedgerReplaysToState
  BY DEF SafetyInv
<1> QED
  BY <1>1, SafetyInvariance, PTL

-----------------------------------------------------------------------------
(* What a commit may never do. *)

(* The role a mutation is authorized by is the actor's at the commit. *)
LEMMA CommittingRole ==
  ASSUME Inv, NEW s \in Sessions, Commit(s)
  PROVE  /\ Authorized(s)
         /\ Authorize(operation[s], local[s]) = "AUTHORIZED"
         /\ local[s].role =
              membership[operation[s].workspace][operation[s].user]
<1>1. pc[s] = "Commit" /\ SessionOK(s)
  BY DEF Commit, Inv
<1>2. Authorized(s) /\ InContext(s)
  BY <1>1, RunningRequest DEF Authorized, InContext
<1> QED
  BY <1>1, <1>2 DEF SessionOK, ContextIsCurrent

LEMMA CommittedEventFits ==
  ASSUME SafetyInv, NEW s \in Sessions, Commit(s),
         writes[s].event # NoEvent
  PROVE  LET event == writes[s].event IN
         /\ event.role = membership[operation[s].workspace][operation[s].user]
         /\ \A f \in DOMAIN event.before :
              event.before[f] = audited[Target(s)][f]
<1> DEFINE op == operation[s]
           c == Target(s)
           row == connection[c]
<1>1. /\ pc[s] = "Commit" /\ pc[s] # "idle" /\ pc[s] \in Ending /\ Inv
      /\ c \in Connections
  BY RunningRequest DEF Commit, Ending, SafetyInv, Inv
<1>2. Audited(op)
  BY <1>1, RunningFits, RunningRequest DEF EventFits, Audited
<1>3. /\ writes[s].event.role = local[s].role
      /\ writes[s].event.before = EventImages(s).before
  <2>1. writes[s].event =
          [action |-> op.kind, role |-> local[s].role,
           before |-> EventImages(s).before, after |-> EventImages(s).after]
    BY <1>1, <1>2, RunningFits DEF EventFits, Audited
  <2> QED
    BY ONLY <2>1
<1>4. op.kind \notin CreationKinds =>
        /\ audited[c].name = row.name
        /\ audited[c].mode = row.mode
        /\ audited[c].projects = projectAccess[c]
        /\ audited[c].status = row.status
        /\ local[s].status = row.status
  <2>1. op.kind \notin CreationKinds => row # None /\ local[s].status = row.status
    BY <1>1, TargetRow, CommittingRole
  <2>2. row # None =>
          audited[c] = [name |-> row.name, mode |-> row.mode,
                        projects |-> projectAccess[c], status |-> row.status,
                        revision |-> Cardinality(revisions[c])]
    BY <1>1 DEF SafetyInv, LedgerReplaysToState
  <2> QED
    BY ONLY <2>1, <2>2
<1>5. \A f \in DOMAIN EventImages(s).before :
        EventImages(s).before[f] = audited[c][f]
  <2>1. CASE op.kind \in {"CREATE_CONNECTION", "PUBLISH"}
    <3>1. EventImages(s).before = Nothing
      BY <2>1 DEF EventImages, LifecycleActions
    <3> QED
      BY <3>1 DEF Nothing
  <2>2. CASE op.kind = "RENAME"
    <3>1. EventImages(s).before = [name |-> local[s].before.name]
      BY <2>2 DEF EventImages, LifecycleActions, AuditedOldName
    <3>2. local[s].before.name = row.name
      <4>1. local[s].before = Image(row, projectAccess[c])
        BY <1>1, <2>2, RunningFits DEF Pending, RenamePending
      <4> QED
        BY ONLY <4>1 DEF Image
    <3> QED
      BY <1>4, <2>2, <3>1, <3>2 DEF CreationKinds
  <2>3. CASE op.kind = "REPLACE_ACCESS"
    <3>1. EventImages(s).before = [mode |-> local[s].before.mode,
                                   projects |-> local[s].before.projects]
      BY <2>3 DEF EventImages, LifecycleActions
    <3>2. /\ local[s].before.mode = row.mode
          /\ local[s].before.projects = projectAccess[c]
      <4>1. local[s].before = Image(row, projectAccess[c])
        BY <1>1, <2>3, RunningFits DEF Pending, ReplacementPending
      <4> QED
        BY ONLY <4>1 DEF Image
    <3> QED
      BY <1>4, <2>3, <3>1, <3>2 DEF CreationKinds
  <2>4. CASE op.kind \in LifecycleActions
    <3>1. EventImages(s).before = [status |-> local[s].status]
      BY <2>4 DEF EventImages, LifecycleActions
    <3> QED
      BY <1>4, <2>4, <3>1 DEF CreationKinds, LifecycleActions
  <2> QED
    BY <1>2, <2>1, <2>2, <2>3, <2>4 DEF Audited, Kinds, CreationKinds
<1> QED
  BY <1>1, <1>3, <1>5, CommittingRole

LEMMA CommitRespectsKillSwitch ==
  ASSUME SafetyInv, NEW s \in Sessions, Commit(s), NEW c \in Connections,
         connection[c] # None, connection[c].status = "DISABLED",
         connection'[c].status = "ACTIVE"
  PROVE  Serves(s, "ENABLE") /\ Target(s) = c
<1>1. /\ TypeOK /\ Inv /\ Running(s) /\ Authorized(s)
  BY CommittingRole, RunningRequest DEF Commit, SafetyInv, Inv
<1>2. connection' # connection
  BY DEF SafetyInv
<1>3. Audited(operation[s])
  BY <1>1, <1>2, ProjectCommit, DraftCommit, CommitKinds
<1>4. connection' = [connection EXCEPT ![Target(s)] =
                       FinalRow(operation[s], connection[Target(s)])]
  BY <1>3, AuditedCommit
<1>5. Target(s) = c
  BY <1>1, <1>4 DEF TypeOK
<1>6. FinalRow(operation[s], connection[c]).status = "ACTIVE"
  BY <1>1, <1>4, <1>5 DEF TypeOK
<1>7. operation[s].kind \in LifecycleActions
  BY <1>1, <1>3, <1>5, <1>6, FinalFields
<1>8. LifecycleTarget(operation[s].kind) = "ACTIVE"
  BY <1>1, <1>3, <1>5, <1>6, <1>7, FinalFields DEF LifecycleActions
<1>9. operation[s].kind = "ENABLE"
  BY <1>7, <1>8 DEF LifecycleActions, LifecycleTarget
<1> QED
  BY <1>1, <1>5, <1>9 DEF Serves

(* What authorization says of the two requests that decide the mode. *)
LEMMA ModeIsAdministered ==
  ASSUME NEW op, NEW context, Authorize(op, context) = "AUTHORIZED"
  PROVE  /\ op.kind = "CREATE_CONNECTION" /\ op.access.mode = "WORKSPACE" =>
              context.role \in {"OWNER", "ADMIN"}
         /\ op.kind = "REPLACE_ACCESS" /\ op.access.mode # context.mode =>
              context.role \in {"OWNER", "ADMIN"}
         /\ op.kind \in LifecycleActions => context.role \in {"OWNER", "ADMIN"}
<1>1. CASE op.kind = "CREATE_CONNECTION"
  <2>1. AuthorizeCreation(context, op.access) = "AUTHORIZED"
    BY <1>1 DEF Authorize, LifecycleActions
  <2> QED
    BY <1>1, <2>1
    DEF AuthorizeCreation, FirstRefusal, CanCreateWithAccess, AuthorRoles,
        LifecycleActions
<1>2. CASE op.kind = "REPLACE_ACCESS"
  <2>1. AuthorizeAccess(context, op.access) = "AUTHORIZED"
    BY <1>2 DEF Authorize, LifecycleActions
  <2> QED
    BY <1>2, <2>1
    DEF AuthorizeAccess, FirstRefusal, CanReplaceAccess, LifecycleRoles,
        LifecycleActions
<1>3. CASE op.kind \in LifecycleActions
  <2>1. AuthorizeLifecycle(context, op.kind) = "AUTHORIZED"
    BY <1>3 DEF Authorize, LifecycleActions
  <2> QED
    BY <1>3, <2>1
    DEF AuthorizeLifecycle, FirstRefusal, CanManageConnectionLifecycle,
        LifecycleRoles, LifecycleActions
<1> QED
  BY <1>1, <1>2, <1>3

(* A publication always adds a revision. *)
LEMMA PublicationAddsRevision ==
  ASSUME SafetyInv, NEW s \in Sessions, Commit(s),
         operation[s].kind = "PUBLISH"
  PROVE  revisions'[Target(s)] # revisions[Target(s)]
<1> DEFINE c == Target(s)
           new == NextRevision(drafts[c], revisions[c])
<1>1. /\ TypeOK /\ c \in Connections /\ Audited(operation[s])
      /\ Gapless(revisions[c])
  BY RunningRequest
  DEF Commit, SafetyInv, Inv, RevisionHistoryGapless, Audited, Kinds
<1>2. revisions'[c] = revisions[c] \cup {new}
  <2>1. revisions' =
          [revisions EXCEPT ![c] = @ \cup {NextRevision(drafts[c], @)}]
    BY <1>1, AuditedCommit
  <2> QED
    BY <1>1, <2>1 DEF TypeOK
<1>3. new.number = Cardinality(revisions[c]) + 1
  BY DEF NextRevision
<1>4. Cardinality(revisions'[c]) = Cardinality(revisions[c]) + 1
  BY <1>1, <1>2, <1>3, CountGrows
<1>5. Cardinality(revisions[c]) \in Nat
  BY <1>1, FS_CardinalityType DEF Gapless
<1> QED
  BY <1>4, <1>5

LEMMA CommitWidensOnlyForAdministrators ==
  ASSUME SafetyInv, NEW s \in Sessions, Commit(s)
  PROVE  LET c == Target(s)
             old == connection[c]
             new == connection'[c]
             published == revisions'[c] # revisions[c]
             widened == old = None /\ new # None /\ new.mode = "WORKSPACE"
             switched == old # None /\ new.mode # old.mode
             moved == old # None /\ new.status # old.status IN
         \/ ~widened /\ ~switched /\ ~moved
         \/ ~switched /\ published /\ old.status = "DRAFT"
         \/ membership[operation[s].workspace][operation[s].user]
              \in {"OWNER", "ADMIN"}
<1> DEFINE op == operation[s]
           c == Target(s)
           old == connection[c]
           new == connection'[c]
           role == membership[op.workspace][op.user]
<1>1. /\ TypeOK /\ Inv /\ c \in Connections /\ Authorized(s)
      /\ Authorize(op, local[s]) = "AUTHORIZED" /\ local[s].role = role
  BY CommittingRole, RunningRequest DEF Commit, SafetyInv, Inv
<1>2. CASE ~Audited(op)
  BY <1>1, <1>2, ProjectCommit, DraftCommit, CommitKinds
<1>3. CASE Audited(op)
  <2>1. new = FinalRow(op, old)
    BY <1>1, <1>3, AuditedCommit DEF TypeOK
  <2>2. CASE op.kind = "CREATE_CONNECTION"
    <3>1. old = None /\ new.mode = op.access.mode
      BY <1>1, <1>3, <2>1, <2>2, TargetRow, FinalFields
    <3> QED
      BY <1>1, <2>2, <3>1, ModeIsAdministered
  <2>3. CASE op.kind = "RENAME"
    BY <1>1, <1>3, <2>1, <2>3, TargetRow, FinalFields
    DEF CreationKinds, LifecycleActions
  <2>4. CASE op.kind = "REPLACE_ACCESS"
    <3>1. /\ old # None /\ old.mode = local[s].mode
          /\ new.mode = op.access.mode /\ new.status = old.status
      BY <1>1, <1>3, <2>1, <2>4, TargetRow, FinalFields
      DEF CreationKinds, LifecycleActions
    <3> QED
      BY <1>1, <2>4, <3>1, ModeIsAdministered
  <2>5. CASE op.kind \in LifecycleActions
    BY <1>1, <2>5, ModeIsAdministered
  <2>6. CASE op.kind = "PUBLISH"
    <3>1. /\ old # None /\ new.mode = old.mode
          /\ new.status # old.status => old.status = "DRAFT"
      BY <1>1, <1>3, <2>1, <2>6, TargetRow, FinalFields
      DEF CreationKinds, LifecycleActions
    <3> QED
      BY <2>6, <3>1, PublicationAddsRevision
  <2> QED
    BY <1>3, <2>2, <2>3, <2>4, <2>5, <2>6 DEF Audited, Kinds, CreationKinds
<1> QED
  BY <1>2, <1>3

(* Along a behavior both invariants hold and a request in flight has no    *)
(* outcome, so a step in which a session succeeds is its commit.           *)
LEMMA Along == Spec => [](SafetyInv /\ NoOutcomeYet)
<1>1. Init => NoOutcomeYet
  BY DEF Init, NoOutcomeYet
<1>2. SafetyInv /\ NoOutcomeYet /\ [Next]_vars => NoOutcomeYet'
  BY NoOutcomeYetPreserved DEF SafetyInv
<1> QED
  BY <1>1, <1>2, SafetyInvariance, PTL DEF Spec

(* Every audit event names the role the actor has at the commit, and its   *)
(* image of the time before is what the ledger said until then.            *)
THEOREM ConsecutiveEventsFit == Spec => AuditEventsFitTogether
<1>1. SafetyInv /\ NoOutcomeYet /\ [Next]_vars =>
        [\A s \in Sessions : Commits(s) /\ writes[s].event # NoEvent =>
           LET event == writes[s].event IN
           /\ event.role =
                membership[operation[s].workspace][operation[s].user]
           /\ \A f \in DOMAIN event.before :
                event.before[f] = audited[Target(s)][f]]_vars
  BY SuccessIsCommit, CommittedEventFits DEF SafetyInv
<1> QED
  BY <1>1, Along, PTL DEF Spec, AuditEventsFitTogether

(* Whatever is in flight when a connection is disabled, only an ENABLE     *)
(* makes it ACTIVE again.                                                  *)
THEOREM DisabledStaysDisabled == Spec => KillSwitchHolds
<1>1. ASSUME SafetyInv, [Next]_vars, NEW c \in Connections,
             connection[c] # None, connection[c].status = "DISABLED",
             connection'[c].status = "ACTIVE"
      PROVE  \E s \in Sessions : Serves(s, "ENABLE") /\ Target(s) = c
  <2>1. connection' # connection
    BY <1>1 DEF SafetyInv
  <2>2. ASSUME NEW s \in Sessions, Step(s) \/ Abort(s)
        PROVE  Commit(s)
    BY <1>1, <2>1, <2>2, StepKinds DEF SafetyInv, Raise, database
  <2>3. \E s \in Sessions : Commit(s)
    BY <1>1, <2>1, <2>2
    DEF Next, Begin, vars, database, ChangeMembership, ChangeWorkspaceStatus
  <2> QED
    BY <1>1, <2>3, CommitRespectsKillSwitch
<1>2. SafetyInv /\ [Next]_vars =>
        [\A c \in Connections :
           /\ connection[c] # None /\ connection[c].status = "DISABLED"
           /\ connection'[c].status = "ACTIVE"
           => \E s \in Sessions : Serves(s, "ENABLE") /\ Target(s) = c]_vars
  BY <1>1
<1> QED
  BY <1>2, SafetyInvariance, PTL DEF Spec, KillSwitchHolds

(* Only an OWNER or ADMIN, with that role at the commit, opens a           *)
(* connection to its workspace or moves it other than by publishing it.    *)
THEOREM BuildersNeverWiden == Spec => OnlyAdministratorsWiden
<1>1. SafetyInv /\ NoOutcomeYet /\ [Next]_vars =>
        [\A s \in Sessions : Commits(s) =>
           LET c == Target(s)
               old == connection[c]
               new == connection'[c]
               published == revisions'[c] # revisions[c]
               widened == old = None /\ new # None /\ new.mode = "WORKSPACE"
               switched == old # None /\ new.mode # old.mode
               moved == old # None /\ new.status # old.status IN
           \/ ~widened /\ ~switched /\ ~moved
           \/ ~switched /\ published /\ old.status = "DRAFT"
           \/ membership[operation[s].workspace][operation[s].user]
                \in {"OWNER", "ADMIN"}]_vars
  BY SuccessIsCommit, CommitWidensOnlyForAdministrators DEF SafetyInv
<1> QED
  BY <1>1, Along, PTL DEF Spec, OnlyAdministratorsWiden

-----------------------------------------------------------------------------
(* The transactions implement the registry. *)

(* The registry speaks of requests in the same words. *)
LEMMA SameAuthorization ==
  ASSUME NEW op, op.kind \in Kinds, NEW context
  PROVE  Registry!Authorize(op, context) = Authorize(op, context)
<1> USE DEF Registry!FirstRefusal, FirstRefusal
<1>1. Registry!AuthorizeProjectCreation(context)
        = AuthorizeProjectCreation(context)
  BY DEF Registry!AuthorizeProjectCreation, AuthorizeProjectCreation,
         Registry!CanCreateProject, CanCreateProject,
         Registry!WorkspaceAllowsMutation, WorkspaceAllowsMutation
<1>2. Registry!AuthorizeCreation(context, op.access)
        = AuthorizeCreation(context, op.access)
  BY DEF Registry!AuthorizeCreation, AuthorizeCreation,
         Registry!CanCreateWithAccess, CanCreateWithAccess,
         Registry!AuthorRoles, AuthorRoles,
         Registry!WorkspaceAllowsMutation, WorkspaceAllowsMutation
<1>3. Registry!AuthorizeAccess(context, op.access)
        = AuthorizeAccess(context, op.access)
  BY DEF Registry!AuthorizeAccess, AuthorizeAccess,
         Registry!CanReplaceAccess, CanReplaceAccess,
         Registry!LifecycleRoles, LifecycleRoles,
         Registry!WorkspaceAllowsMutation, WorkspaceAllowsMutation,
         Registry!ConnectionAllowsAccessReplacement,
         ConnectionAllowsAccessReplacement
<1>4. Registry!AuthorizeLifecycle(context, op.kind)
        = AuthorizeLifecycle(context, op.kind)
  BY DEF Registry!AuthorizeLifecycle, AuthorizeLifecycle,
         Registry!CanManageConnectionLifecycle, CanManageConnectionLifecycle,
         Registry!LifecycleRoles, LifecycleRoles,
         Registry!WorkspaceAllowsLifecycleAction,
         WorkspaceAllowsLifecycleAction,
         Registry!LifecycleTransitionAllowed, LifecycleTransitionAllowed
<1>5. Registry!AuthorizeAuthoring(context) = AuthorizeAuthoring(context)
  BY DEF Registry!AuthorizeAuthoring, AuthorizeAuthoring,
         Registry!CanAuthorConnections, CanAuthorConnections,
         Registry!AuthorRoles, AuthorRoles,
         Registry!WorkspaceAllowsMutation, WorkspaceAllowsMutation,
         Registry!ConnectionAllowsAuthoring, ConnectionAllowsAuthoring
<1> QED
  BY <1>1, <1>2, <1>3, <1>4, <1>5
  DEF Registry!Authorize, Authorize, Registry!LifecycleActions,
      LifecycleActions, Kinds, CreationKinds

(* A creation is authorized without any connection. *)
LEMMA CreationReadsTwoFields ==
  ASSUME NEW op, op.kind \in CreationKinds,
         NEW c1, NEW c2,
         c1.role = c2.role, c1.workspaceStatus = c2.workspaceStatus
  PROVE  Authorize(op, c1) = Authorize(op, c2)
<1>1. CASE op.kind = "CREATE_PROJECT"
  BY <1>1 DEF Authorize, AuthorizeProjectCreation, LifecycleActions
<1>2. CASE op.kind = "CREATE_CONNECTION"
  BY <1>2 DEF Authorize, AuthorizeCreation, LifecycleActions
<1> QED
  BY <1>1, <1>2 DEF CreationKinds

(* At its commit a request may act, by the state of that very moment. *)
LEMMA CommitMayAct ==
  ASSUME Inv, NEW s \in Sessions, Commit(s)
  PROVE  Registry!MayAct(operation[s])
<1> DEFINE op == operation[s]
           row == connection[op.connection]
           role == membership[op.workspace][op.user]
           status == workspaceStatus[op.workspace]
           exists == op.kind \notin CreationKinds
           context == [role |-> role, workspaceStatus |-> status,
                       mode |-> IF row = None THEN None ELSE row.mode,
                       status |-> IF row = None THEN None ELSE row.status]
<1>1. op.kind \in Kinds
  BY RunningRequest DEF Commit, Inv
<1>2. /\ role # None
      /\ exists => row # None /\ row.workspace = op.workspace
      /\ Authorize(op, [role |-> role, workspaceStatus |-> status,
                        mode |-> IF exists THEN row.mode ELSE None,
                        status |-> IF exists THEN row.status ELSE None])
           = "AUTHORIZED"
  BY CommitHasAuthority DEF CommitIsAuthorized
<1>3. Authorize(op, context) = "AUTHORIZED"
  <2>1. CASE exists
    BY <1>2, <2>1
  <2>2. CASE ~exists
    <3>1. Authorize(op, context)
            = Authorize(op, [role |-> role, workspaceStatus |-> status,
                             mode |-> None, status |-> None])
      BY <2>2, CreationReadsTwoFields
    <3> QED
      BY <1>2, <2>2, <3>1
  <2> QED
    BY <2>1, <2>2
<1>4. Registry!Authorize(op, context) = "AUTHORIZED"
  BY <1>1, <1>3, SameAuthorization
<1> QED
  BY <1>2, <1>4
  DEF Registry!MayAct, Registry!Exists, Registry!CreationKinds, CreationKinds

(* One lemma for each request: its commit is its step of the registry. *)
LEMMA ProjectCreationPerforms ==
  ASSUME SafetyInv, NEW s \in Sessions, Commit(s),
         operation[s].kind = "CREATE_PROJECT"
  PROVE  Registry!CreateProject(operation[s])
<1>1. Registry!MayAct(operation[s]) /\ Serves(s, "CREATE_PROJECT")
  BY CommitMayAct, RunningRequest DEF Commit, Serves, SafetyInv, Inv
<1>2. projectWorkspace[operation[s].project] = None
  BY <1>1 DEF SafetyInv, FreshProjects
<1> QED
  BY <1>1, <1>2, ProjectCommit DEF Registry!CreateProject

LEMMA DraftPerforms ==
  ASSUME SafetyInv, NEW s \in Sessions, Commit(s),
         operation[s].kind = "PUT_DRAFT"
  PROVE  Registry!PutDraft(operation[s])
<1>1. Registry!MayAct(operation[s])
  BY CommitMayAct DEF SafetyInv
<1> QED
  BY <1>1, DraftCommit DEF Registry!PutDraft, Target

(* What the commits of the other requests have in common. *)
LEMMA CommitOfRow ==
  ASSUME SafetyInv, NEW s \in Sessions, Commit(s), Audited(operation[s])
  PROVE  LET op == operation[s]
             c == op.connection IN
         /\ TypeOK /\ c \in Connections
         /\ Registry!MayAct(op)
         /\ connection' =
              [connection EXCEPT ![c] = FinalRow(op, connection[c])]
         /\ projectAccess' =
              [projectAccess EXCEPT ![c] = FinalAccess(op, projectAccess[c])]
         /\ op.kind # "PUBLISH" => revisions' = revisions
         /\ UNCHANGED <<workspaceStatus, membership, projectWorkspace, drafts>>
<1>1. TypeOK /\ operation[s].connection \in Connections
  BY RunningRequest DEF Commit, SafetyInv, Inv, Target
<1>2. Registry!MayAct(operation[s])
  BY CommitMayAct DEF SafetyInv
<1> QED
  BY <1>1, <1>2, AuditedCommit DEF Target

LEMMA SelectionIsOwned ==
  ASSUME SafetyInv, NEW s \in Sessions, Commit(s),
         operation[s].kind \in {"CREATE_CONNECTION", "REPLACE_ACCESS"}
  PROVE  Registry!OwnsProjects(operation[s])
<1>1. pc[s] \in Ending /\ pc[s] # "idle"
  BY DEF Commit, Ending
<1>2. SelectionFits(s)
  BY <1>1, RunningFits
<1> QED
  BY <1>1, <1>2 DEF SelectionFits, Registry!OwnsProjects

LEMMA CreationPerforms ==
  ASSUME SafetyInv, NEW s \in Sessions, Commit(s),
         operation[s].kind = "CREATE_CONNECTION"
  PROVE  Registry!CreateConnection(operation[s])
<1> DEFINE op == operation[s]
           c == op.connection
<1>1. Audited(op) /\ Authorized(s)
  BY CommittingRole DEF Audited, Kinds, CreationKinds, SafetyInv
<1>2. /\ Registry!MayAct(op) /\ op.kind # "PUBLISH"
      /\ connection' = [connection EXCEPT ![c] = NewRow(op)]
      /\ projectAccess' = [projectAccess EXCEPT ![c] = op.access.projects]
      /\ UNCHANGED <<workspaceStatus, membership, projectWorkspace, drafts,
                     revisions>>
  BY <1>1, CommitOfRow, FinalRows
<1>3. connection[c] = None
  BY <1>1, TargetRow DEF Target
<1>4. Registry!OwnsProjects(op)
  BY SelectionIsOwned
<1> QED
  BY <1>2, <1>3, <1>4 DEF Registry!CreateConnection, NewRow

LEMMA RenamePerforms ==
  ASSUME SafetyInv, NEW s \in Sessions, Commit(s), operation[s].kind = "RENAME"
  PROVE  Registry!Rename(operation[s])
<1> DEFINE op == operation[s]
           c == op.connection
<1>1. Audited(op)
  BY DEF Audited, Kinds
<1>2. /\ TypeOK /\ c \in Connections /\ Registry!MayAct(op)
      /\ connection' =
           [connection EXCEPT ![c] = [connection[c] EXCEPT !.name = op.name]]
      /\ projectAccess' = [projectAccess EXCEPT ![c] = projectAccess[c]]
      /\ UNCHANGED <<workspaceStatus, membership, projectWorkspace, drafts,
                     revisions>>
  BY <1>1, CommitOfRow, FinalRows
<1>3. projectAccess' = projectAccess
  BY <1>2 DEF TypeOK
<1>4. connection' = [connection EXCEPT ![c].name = op.name]
  BY <1>2
<1> QED
  BY <1>2, <1>3, <1>4 DEF Registry!Rename

LEMMA ReplacementPerforms ==
  ASSUME SafetyInv, NEW s \in Sessions, Commit(s),
         operation[s].kind = "REPLACE_ACCESS"
  PROVE  Registry!ReplaceAccess(operation[s])
<1> DEFINE op == operation[s]
           c == op.connection
<1>1. Audited(op)
  BY DEF Audited, Kinds, CreationKinds
<1>2. /\ Registry!MayAct(op)
      /\ connection' = [connection EXCEPT ![c] =
           [connection[c] EXCEPT !.mode = op.access.mode]]
      /\ projectAccess' = [projectAccess EXCEPT ![c] = op.access.projects]
      /\ UNCHANGED <<workspaceStatus, membership, projectWorkspace, drafts,
                     revisions>>
  BY <1>1, CommitOfRow, FinalRows
<1>3. Registry!OwnsProjects(op)
  BY SelectionIsOwned
<1>4. connection' = [connection EXCEPT ![c].mode = op.access.mode]
  BY <1>2
<1> QED
  BY <1>2, <1>3, <1>4 DEF Registry!ReplaceAccess

LEMMA LifecyclePerforms ==
  ASSUME SafetyInv, NEW s \in Sessions, Commit(s),
         operation[s].kind \in LifecycleActions
  PROVE  Registry!TransitionLifecycle(operation[s])
<1> DEFINE op == operation[s]
           c == op.connection
<1>1. Audited(op) /\ op.kind # "PUBLISH"
  BY DEF Audited, Kinds, CreationKinds, LifecycleActions
<1>2. /\ TypeOK /\ c \in Connections /\ Registry!MayAct(op)
      /\ connection' = [connection EXCEPT ![c] =
           [connection[c] EXCEPT !.status = LifecycleTarget(op.kind)]]
      /\ projectAccess' = [projectAccess EXCEPT ![c] = projectAccess[c]]
      /\ UNCHANGED <<workspaceStatus, membership, projectWorkspace, drafts,
                     revisions>>
  BY <1>1, CommitOfRow, FinalRows
<1>3. projectAccess' = projectAccess
  BY <1>2 DEF TypeOK
<1>4. Registry!LifecycleTarget(op.kind) = LifecycleTarget(op.kind)
  BY DEF Registry!LifecycleTarget, LifecycleTarget, LifecycleActions
<1>5. connection' =
        [connection EXCEPT ![c].status = Registry!LifecycleTarget(op.kind)]
  BY <1>2, <1>4
<1> QED
  BY <1>2, <1>3, <1>5
  DEF Registry!TransitionLifecycle, Registry!LifecycleActions, LifecycleActions

(* The registry counts revisions with its own instance of FiniteSets. *)
LEMMA SameCardinality ==
  ASSUME NEW S PROVE Registry!Cardinality(S) = Cardinality(S)
BY DEF Registry!Cardinality, Cardinality, Registry!IsFiniteSet, IsFiniteSet

LEMMA PublicationPerforms ==
  ASSUME SafetyInv, NEW s \in Sessions, Commit(s), operation[s].kind = "PUBLISH"
  PROVE  Registry!Publish(operation[s])
<1> DEFINE op == operation[s]
           c == op.connection
           row == connection[c]
<1>1. Audited(op) /\ Authorized(s) /\ pc[s] \in Ending /\ pc[s] # "idle"
      /\ op.kind \notin CreationKinds
  BY CommittingRole
  DEF Commit, Ending, Audited, Kinds, CreationKinds, SafetyInv
<1>2. /\ TypeOK /\ c \in Connections /\ Registry!MayAct(op)
      /\ connection' = [connection EXCEPT ![c] =
           IF row.status = "DRAFT" THEN [row EXCEPT !.status = "ACTIVE"]
           ELSE row]
      /\ projectAccess' = [projectAccess EXCEPT ![c] = projectAccess[c]]
      /\ UNCHANGED <<workspaceStatus, membership, projectWorkspace, drafts>>
  BY <1>1, CommitOfRow, FinalRows
<1>3. projectAccess' = projectAccess
  BY <1>2 DEF TypeOK
<1>4. drafts[c] # None /\ Canonicalize[drafts[c]] # None
  BY <1>1, RunningFits DEF Pending, PublicationPending, Target
<1>5. revisions' = [revisions EXCEPT ![c] = @ \cup
        {[number |-> Cardinality(@) + 1,
          configuration |-> Canonicalize[drafts[c]]]}]
  BY <1>1, AuditedCommit DEF NextRevision, Target
<1>6. connection' = [connection EXCEPT ![c].status =
                       IF @ = "DRAFT" THEN "ACTIVE" ELSE @]
  <2>1. row \in ConnectionRows
    BY <1>1, TargetRow DEF Target
  <2>2. [row EXCEPT !.status = row.status] = row
    BY <2>1 DEF ConnectionRows
  <2> QED
    BY <1>2, <2>2
<1> QED
  BY <1>2, <1>3, <1>4, <1>5, <1>6, SameCardinality DEF Registry!Publish

LEMMA CommitPerforms ==
  ASSUME SafetyInv, NEW s \in Sessions, Commit(s)
  PROVE  \E op \in Operations : Registry!Perform(op)
<1>1. operation[s] \in Operations /\ operation[s].kind \in Kinds
  BY RunningRequest DEF Commit, SafetyInv, Inv, TypeOK, Running
<1>2. Registry!Perform(operation[s])
  BY <1>1, ProjectCreationPerforms, DraftPerforms, CreationPerforms,
     RenamePerforms, ReplacementPerforms, LifecyclePerforms,
     PublicationPerforms
  DEF Registry!Perform, Kinds, CreationKinds
<1> QED
  BY <1>1, <1>2

LEMMA AdministrationAdministers ==
  ASSUME \/ \E w \in Workspaces, u \in Users : ChangeMembership(w, u)
         \/ \E w \in Workspaces : ChangeWorkspaceStatus(w)
  PROVE  Registry!Administer
<1> USE DEF Registry!Administer
<1>1. ASSUME NEW w \in Workspaces, NEW u \in Users, ChangeMembership(w, u)
      PROVE  Registry!Administer
  <2>1. PICK role \in RolesOf[u] \ {membership[w][u]} :
          membership' = [membership EXCEPT ![w][u] = role]
    BY <1>1 DEF ChangeMembership
  <2>2. role \in Registry!Roles \cup {None}
    BY <2>1, RolesOfAssumption DEF Registry!Roles, Roles
  <2> QED
    BY <1>1, <2>1, <2>2 DEF ChangeMembership
<1>2. ASSUME NEW w \in Workspaces, ChangeWorkspaceStatus(w)
      PROVE  Registry!Administer
  <2>1. PICK status \in StatusesSeen \ {workspaceStatus[w]} :
          workspaceStatus' = [workspaceStatus EXCEPT ![w] = status]
    BY <1>2 DEF ChangeWorkspaceStatus
  <2>2. status \in Registry!WorkspaceStatuses
    BY <2>1, StatusesSeenAssumption
    DEF Registry!WorkspaceStatuses, WorkspaceStatuses
  <2> QED
    BY <1>2, <2>1, <2>2 DEF ChangeWorkspaceStatus
<1> QED
  BY <1>1, <1>2

LEMMA InitRefines == Init => Registry!Init
<1> SUFFICES ASSUME Init PROVE Registry!Init
  OBVIOUS
<1>1. workspaceStatus \in [Workspaces -> Registry!WorkspaceStatuses]
  BY StatusesSeenAssumption
  DEF Init, Registry!WorkspaceStatuses, WorkspaceStatuses
<1>2. membership \in [Workspaces -> [Users -> Registry!Roles \cup {None}]]
  BY DEF Init, Registry!Roles, Roles
<1> QED
  BY <1>1, <1>2 DEF Init, Registry!Init

(* A commit and a step of the administration are steps of the registry,    *)
(* every other step changes nothing the registry knows of.                 *)
LEMMA NextRefines ==
  ASSUME SafetyInv, [Next]_vars
  PROVE  [Registry!Next]_(Registry!vars)
<1>1. CASE UNCHANGED database
  BY <1>1 DEF database, Registry!vars
<1>2. ASSUME NEW s \in Sessions, Commit(s)
      PROVE  Registry!Next
  BY <1>2, CommitPerforms DEF Registry!Next
<1>3. ASSUME NEW s \in Sessions, Step(s) \/ Abort(s)
      PROVE  Commit(s) \/ UNCHANGED database
  BY <1>3, StepKinds DEF SafetyInv, Raise
<1>4. CASE \/ \E w \in Workspaces, u \in Users : ChangeMembership(w, u)
           \/ \E w \in Workspaces : ChangeWorkspaceStatus(w)
  BY <1>4, AdministrationAdministers DEF Registry!Next
<1> QED
  BY <1>1, <1>2, <1>3, <1>4 DEF Next, Begin, vars

(* The transactions implement the atomic registry: every commit takes      *)
(* effect as one step, which the role, the workspace status and the        *)
(* connection state of that moment authorize, and nothing else is seen.    *)
THEOREM TransactionsImplementRegistry == Spec => ImplementsRegistry
<1>1. Init => Registry!Init
  BY InitRefines
<1>2. SafetyInv /\ [Next]_vars => [Registry!Next]_(Registry!vars)
  BY NextRefines
<1> QED
  BY <1>1, <1>2, SafetyInvariance, PTL
  DEF Spec, ImplementsRegistry, Registry!Spec

-----------------------------------------------------------------------------
(* What is stored can be published. *)

(* Canonicalization accepts what it has returned. *)
AcceptsItsOutput ==
  \A x \in Configurations : Canonicalize[x] # None =>
    Canonicalize[Canonicalize[x]] # None

LEMMA NextKeepsDraftsPublishable ==
  ASSUME AcceptsItsOutput, SafetyInv, DraftsStayPublishable, [Next]_vars
  PROVE  DraftsStayPublishable'
<1>1. CASE UNCHANGED drafts
  BY <1>1 DEF DraftsStayPublishable
<1>2. ASSUME NEW s \in Sessions, Commit(s)
      PROVE  DraftsStayPublishable'
  <2>1. CASE operation[s].kind = "PUT_DRAFT"
    <3>1. /\ TypeOK /\ Target(s) \in Connections
          /\ operation[s].configuration \in Configurations
      BY <1>2, RunningRequest DEF Commit, SafetyInv, Inv, OperationRecords
    <3>2. /\ Canonicalize[operation[s].configuration] # None
          /\ drafts' = [drafts EXCEPT
               ![Target(s)] = Canonicalize[operation[s].configuration]]
      BY <1>2, <2>1, DraftCommit
    <3> QED
      BY <3>1, <3>2 DEF AcceptsItsOutput, DraftsStayPublishable, TypeOK
  <2>2. CASE operation[s].kind # "PUT_DRAFT"
    BY <1>1, <1>2, <2>2, ProjectCommit, AuditedCommit, CommitKinds
    DEF SafetyInv
  <2> QED
    BY <2>1, <2>2
<1>3. ASSUME NEW s \in Sessions, Step(s) \/ Abort(s)
      PROVE  Commit(s) \/ UNCHANGED drafts
  BY <1>3, StepKinds DEF SafetyInv, Raise, database
<1> QED
  BY <1>1, <1>2, <1>3
  DEF Next, Begin, vars, database, ChangeMembership, ChangeWorkspaceStatus

(* A stored draft is one the provider accepts again, if the provider       *)
(* accepts what it returns.                                                *)
THEOREM StoredDraftsArePublishable ==
  ASSUME AcceptsItsOutput
  PROVE  Spec => []DraftsStayPublishable
<1>1. Init => DraftsStayPublishable
  BY DEF Init, DraftsStayPublishable
<1>2. SafetyInv /\ DraftsStayPublishable /\ [Next]_vars
        => DraftsStayPublishable'
  BY NextKeepsDraftsPublishable
<1> QED
  BY <1>1, <1>2, SafetyInvariance, PTL DEF Spec

(* GenericHttpProvider does, so with it every PUT draft that succeeds can  *)
(* be published, although canonicalizing twice may change the text.        *)
Provider == INSTANCE ProviderConfiguration_proofs

THEOREM GenericHttpDraftsArePublishable ==
  ASSUME Configurations \subseteq Provider!SubmittedConfigurations,
         None \notin Provider!SubmittedConfigurations,
         Canonicalize = [x \in Configurations |-> Provider!Compile(x)]
  PROVE  Spec => []DraftsStayPublishable
<1>1. AcceptsItsOutput
  <2>1. ASSUME NEW x \in Configurations, Canonicalize[x] # None
        PROVE  Canonicalize[Canonicalize[x]] # None
    <3>1. /\ Canonicalize[x] \in Configurations
          /\ Canonicalize[x] = Provider!Compile(x)
          /\ x \in Provider!SubmittedConfigurations
      BY <2>1, CanonicalizeAssumption
    <3>2. Provider!Compile(Provider!Compile(x)) # None
      BY <2>1, <3>1, Provider!CompiledIsAccepted
    <3> QED
      BY <3>1, <3>2
  <2> QED
    BY <2>1 DEF AcceptsItsOutput
<1> QED
  BY <1>1, StoredDraftsArePublishable

-----------------------------------------------------------------------------
(* Waiting. *)

(* The rows a transaction may have locked: those of its workspace. *)
OwnRow(t, row) ==
  \/ row = WorkspaceRow(operation[t].workspace)
  \/ row = MembershipRow(operation[t].workspace, operation[t].user)
  \/ /\ InConnection(t)
     /\ row \in {ConnectionRow(Target(t)), DraftRow(Target(t))}
  \/ \E p \in Projects : /\ row = ProjectRow(p)
                         /\ projectWorkspace[p] = operation[t].workspace

LocksFit(t) == \A row \in held[t] : InContext(t) /\ OwnRow(t, row)

(* The lock of the workspace row keeps all other mutations of a workspace  *)
(* at their first statement.                                               *)
LEMMA OneTransactionPerWorkspace ==
  ASSUME Inv, NEW s \in Sessions, NEW t \in Sessions,
         s # t, InContext(s), InContext(t)
  PROVE  operation[s].workspace # operation[t].workspace
<1>1. /\ WorkspaceRow(operation[s].workspace) \in held[s]
      /\ WorkspaceRow(operation[t].workspace) \in held[t]
  BY DEF Inv, SessionOK, ContextIsCurrent
<1> QED
  BY <1>1 DEF Inv, LocksExclusive

(* Rows of different kinds are different. *)
LEMMA RowsDiffer ==
  ASSUME NEW w, NEW u, NEW c, NEW d, NEW p, NEW q
  PROVE  /\ ConnectionRow(c) # WorkspaceRow(w)
         /\ ConnectionRow(c) # MembershipRow(w, u)
         /\ ConnectionRow(c) # DraftRow(d)
         /\ ConnectionRow(c) # ProjectRow(p)
         /\ ConnectionRow(c) = ConnectionRow(d) => c = d
         /\ DraftRow(c) # WorkspaceRow(w)
         /\ DraftRow(c) # MembershipRow(w, u)
         /\ DraftRow(c) # ProjectRow(p)
         /\ DraftRow(c) = DraftRow(d) => c = d
         /\ ProjectRow(p) # WorkspaceRow(w)
         /\ ProjectRow(p) # MembershipRow(w, u)
         /\ ProjectRow(p) = ProjectRow(q) => p = q
BY DEF WorkspaceRow, MembershipRow, ConnectionRow, DraftRow, ProjectRow

LEMMA WhoeverWaitsIsAtTheDoor ==
  ASSUME Inv, \A s \in Sessions : LocksFit(s),
         NEW s \in Sessions, NEW t \in Sessions, WaitsFor(s, t)
  PROVE  pc[s] = "LockWorkspaceContext" /\ InContext(t)
<1> SUFFICES ASSUME pc[s] # "LockWorkspaceContext" PROVE FALSE
  <2>1. pc[s] = "LockWorkspaceContext" => InContext(t)
    BY DEF WaitsFor, Blocks, LocksFit
  <2> QED
    BY <2>1
<1>1. s # t /\ InContext(s) /\ SessionOK(s) /\ SessionOK(t)
  BY DEF WaitsFor, InContext, Inv
<1>2. InConnection(t) => connection[Target(t)].workspace = operation[t].workspace
  BY <1>1 DEF SessionOK, ConnectionIsCurrent
<1>3. ASSUME NEW row \in held[t],
             \/ row = ConnectionRow(Target(s))
             \/ row = DraftRow(Target(s))
      PROVE  InContext(t) /\ InConnection(t) /\ Target(t) = Target(s)
  BY <1>3, RowsDiffer DEF LocksFit, OwnRow
<1>4. CASE pc[s] = "LockConnection"
  BY <1>1, <1>2, <1>3, <1>4, OneTransactionPerWorkspace
  DEF WaitsFor, Blocks, Addressed
<1>5. CASE pc[s] = "LockSelectedProjects"
  <2>1. PICK p \in FoundProjects(s) : ProjectRow(p) \in held[t]
    BY <1>5 DEF WaitsFor, Blocks
  <2>2. InContext(t) /\ projectWorkspace[p] = operation[t].workspace
    BY <2>1, RowsDiffer DEF LocksFit, OwnRow
  <2>3. projectWorkspace[p] = operation[s].workspace
    BY <2>1 DEF FoundProjects
  <2> QED
    BY <1>1, <2>2, <2>3, OneTransactionPerWorkspace
<1>6. InConnection(s) =>
        connection[Target(s)].workspace = operation[s].workspace
  BY <1>1 DEF SessionOK, ConnectionIsCurrent
<1>7. CASE pc[s] \in {"RenameConnection", "UpdateAccessMode",
                      "ActivateDraftConnection", "UpdateLifecycle",
                      "UpsertDraft", "LockDraft"}
  <2>1. InConnection(s)
    BY <1>1, <1>7
    DEF SessionOK, StatementFits, InConnection, CreationKinds, LifecycleActions
  <2>2. \/ ConnectionRow(Target(s)) \in held[t]
        \/ DraftRow(Target(s)) \in held[t]
    BY <1>7 DEF WaitsFor, Blocks
  <2> QED
    BY <1>1, <1>2, <1>3, <1>6, <2>1, <2>2, OneTransactionPerWorkspace
<1>8. CASE pc[s] = "InsertRevision"
  <2>1. InConnection(s)
    BY <1>1, <1>8 DEF SessionOK, StatementFits, InConnection, CreationKinds
  <2>2. Target(t) = Target(s) /\ writes[t].revision # None
    BY <1>8 DEF WaitsFor
  <2>3. InContext(t) /\ InConnection(t)
    BY <1>1, <2>2
    DEF SessionOK, RevisionIsNext, Authorized, InContext, InConnection,
        CreationKinds
  <2> QED
    BY <1>1, <1>2, <1>6, <2>1, <2>2, <2>3, OneTransactionPerWorkspace
<1> QED
  BY <1>4, <1>5, <1>7, <1>8 DEF WaitsFor

(* A statement after those of the context that locks at most one more row. *)
LEMMA LocksKeep ==
  ASSUME SafetyInv, \A t \in Sessions : LocksFit(t), NEW s \in Sessions,
         UNCHANGED <<operation, projectWorkspace>>,
         NEW statement, Goto(s, statement),
         statement \notin {"idle", "LockWorkspaceContext", "LockConnection"},
         NEW row, OwnRow(s, row)',
         held' = held \/ Hold(s, {row})
  PROVE  \A t \in Sessions : LocksFit(t)'
<1>1. /\ pc'[s] = statement /\ held'[s] \subseteq held[s] \cup {row}
      /\ \A t \in Sessions \ {s} : pc'[t] = pc[t] /\ held'[t] = held[t]
  BY DEF SafetyInv, Inv, TypeOK, Goto, Hold
<1>2. ASSUME NEW t \in Sessions \ {s} PROVE LocksFit(t)'
  BY <1>1, <1>2 DEF LocksFit, InContext, OwnRow, InConnection, Target
<1>3. InContext(s)' /\ (InConnection(s) => InConnection(s)')
  BY <1>1 DEF InContext, InConnection
<1>4. \A own \in held[s] : OwnRow(s, own)'
  BY <1>3 DEF LocksFit, OwnRow, Target
<1>5. LocksFit(s)'
  BY <1>1, <1>3, <1>4 DEF LocksFit
<1> QED
  BY <1>2, <1>5

LEMMA EndReleases ==
  ASSUME SafetyInv, \A t \in Sessions : LocksFit(t), NEW s \in Sessions,
         NEW result, End(s, result),
         \A p \in Projects : projectWorkspace[p] # None
           => projectWorkspace'[p] = projectWorkspace[p]
  PROVE  \A t \in Sessions : LocksFit(t)'
<1>1. TypeOK
  BY DEF SafetyInv, Inv
<1>2. /\ held'[s] = {}
      /\ \A t \in Sessions \ {s} : /\ operation'[t] = operation[t]
                                   /\ pc'[t] = pc[t] /\ held'[t] = held[t]
  BY <1>1 DEF TypeOK, End
<1>3. ASSUME NEW t \in Sessions \ {s}, NEW row \in held[t]
      PROVE  InContext(t)' /\ OwnRow(t, row)'
  <2>1. InContext(t) /\ OwnRow(t, row)
    BY <1>3 DEF LocksFit
  <2>2. operation[t].workspace # None
    BY <2>1, RunningRequest, NoneAssumption DEF InContext, SafetyInv, Inv
  <2>3. ASSUME NEW p \in Projects,
               projectWorkspace[p] = operation[t].workspace
        PROVE  projectWorkspace'[p] = operation[t].workspace
    BY <2>2, <2>3
  <2> QED
    BY <1>2, <2>1, <2>3 DEF InContext, OwnRow, InConnection, Target
<1> QED
  BY <1>2, <1>3 DEF LocksFit

(* One that locks nothing more. *)
LEMMA QuietStatement ==
  ASSUME SafetyInv, \A t \in Sessions : LocksFit(t), NEW s \in Sessions,
         UNCHANGED <<database, operation, held>>,
         NEW statement, Goto(s, statement),
         statement \notin {"idle", "LockWorkspaceContext", "LockConnection"}
  PROVE  \A t \in Sessions : LocksFit(t)'
<1> DEFINE row == WorkspaceRow(operation[s].workspace)
<1>1. UNCHANGED <<operation, projectWorkspace>> /\ held' = held
  BY DEF database
<1>2. OwnRow(s, row)'
  BY DEF OwnRow
<1> QED
  BY <1>1, <1>2, LocksKeep

LEMMA QuietStatements ==
  ASSUME SafetyInv, \A t \in Sessions : LocksFit(t), NEW s \in Sessions,
         \/ Admit(s) \/ InsertProject(s) \/ ValidateProjects(s)
         \/ InsertConnection(s) \/ DeleteProjectAccess(s)
         \/ NextRevisionNumber(s) \/ InsertAudit(s) \/ FetchConnection(s)
         \/ InsertProjectAccess(s) \/ InsertRevision(s)
  PROVE  \A t \in Sessions : LocksFit(t)'
<1>1. CASE Admit(s)
  <2>1. /\ pc[s] # "idle" /\ UNCHANGED <<database, operation, held>>
        /\ Goto(s, FirstStatement(operation[s].kind))
    BY <1>1 DEF Admit
  <2>2. operation[s].kind \in Kinds
    BY <2>1, RunningRequest DEF SafetyInv, Inv
  <2>3. FirstStatement(operation[s].kind)
          \notin {"idle", "LockWorkspaceContext", "LockConnection"}
    BY <2>2, FirstStatementFits
  <2> QED
    BY <2>1, <2>3, QuietStatement
<1>2. CASE InsertProject(s)
  BY <1>2, QuietStatement DEF InsertProject
<1>3. CASE ValidateProjects(s)
  BY <1>3, QuietStatement DEF ValidateProjects, ProjectsLocked
<1>4. CASE InsertConnection(s)
  BY <1>4, QuietStatement DEF InsertConnection
<1>5. CASE DeleteProjectAccess(s)
  BY <1>5, QuietStatement DEF DeleteProjectAccess
<1>6. CASE NextRevisionNumber(s)
  BY <1>6, QuietStatement DEF NextRevisionNumber
<1>7. ASSUME Raise(s, "INTERNAL_ERROR")
      PROVE  \A t \in Sessions : LocksFit(t)'
  BY <1>7, EndReleases DEF Raise, database
<1>8. CASE InsertAudit(s)
  BY <1>7, <1>8, QuietStatement DEF InsertAudit
<1>9. CASE FetchConnection(s)
  BY <1>7, <1>9, QuietStatement DEF FetchConnection
<1>10. CASE InsertProjectAccess(s)
  BY <1>7, <1>10, QuietStatement DEF InsertProjectAccess
<1>11. CASE InsertRevision(s)
  BY <1>7, <1>11, QuietStatement DEF InsertRevision
<1> QED
  BY <1>1, <1>2, <1>3, <1>4, <1>5, <1>6, <1>8, <1>9, <1>10, <1>11

LEMMA LockingStatements ==
  ASSUME SafetyInv, \A t \in Sessions : LocksFit(t), NEW s \in Sessions,
         \/ LockWorkspaceContext(s) \/ LockConnection(s) \/ LockOneProject(s)
         \/ RenameConnection(s) \/ UpdateAccessMode(s) \/ UpdateLifecycle(s)
         \/ ActivateDraftConnection(s) \/ UpsertDraft(s) \/ LockDraft(s)
  PROVE  \A t \in Sessions : LocksFit(t)'
<1>1. TypeOK /\ SessionOK(s)
  BY DEF SafetyInv, Inv
<1>2. CASE LockWorkspaceContext(s)
  <2> DEFINE rows == ContextRows(operation[s].workspace, operation[s].user)
  <2>1. /\ pc[s] = "LockWorkspaceContext" /\ Hold(s, rows)
        /\ UNCHANGED <<database, operation>>
        /\ Goto(s, IF operation[s].kind \in CreationKinds
                   THEN "Authorize" ELSE "LockConnection")
    BY <1>2 DEF LockWorkspaceContext
  <2>2. /\ pc'[s] \in {"Authorize", "LockConnection"}
        /\ held'[s] = held[s] \cup rows
        /\ \A t \in Sessions \ {s} : pc'[t] = pc[t] /\ held'[t] = held[t]
    BY <1>1, <2>1 DEF TypeOK, Goto, Hold
  <2>3. \A row \in rows : OwnRow(s, row)'
    BY <2>1 DEF ContextRows, OwnRow
  <2>4. held[s] = {}
    BY <2>1 DEF LocksFit, InContext
  <2>5. LocksFit(s)'
    BY <2>2, <2>3, <2>4 DEF LocksFit, InContext
  <2>6. ASSUME NEW t \in Sessions \ {s} PROVE LocksFit(t)'
    BY <2>1, <2>2, <2>6
    DEF LocksFit, InContext, OwnRow, InConnection, Target, database
  <2> QED
    BY <2>5, <2>6
<1>3. CASE LockConnection(s)
  <2>1. /\ pc[s] = "LockConnection" /\ Hold(s, {ConnectionRow(Target(s))})
        /\ UNCHANGED <<operation, projectWorkspace>> /\ Goto(s, "Authorize")
    BY <1>3 DEF LockConnection, database
  <2>2. pc'[s] = "Authorize" /\ operation[s].kind \notin CreationKinds
    BY <1>1, <2>1 DEF TypeOK, Goto, SessionOK, StatementFits
  <2>3. OwnRow(s, ConnectionRow(Target(s)))' /\ Target(s)' = Target(s)
    BY <2>1, <2>2 DEF OwnRow, InConnection, Target
  <2> QED
    BY <2>1, <2>3, LocksKeep DEF Target
<1>4. CASE LockOneProject(s)
  <2>1. PICK p \in FoundProjects(s) : Hold(s, {ProjectRow(p)})
    BY <1>4 DEF LockOneProject
  <2>2. /\ pc[s] = "LockSelectedProjects"
        /\ UNCHANGED <<operation, projectWorkspace, pc>>
    BY <1>4 DEF LockOneProject, database
  <2>3. p \in Projects /\ projectWorkspace[p] = operation[s].workspace
    BY <1>1, <2>1, <2>2, RunningRequest DEF FoundProjects, SafetyInv, Inv
  <2>4. OwnRow(s, ProjectRow(p))'
    BY <2>2, <2>3 DEF OwnRow
  <2>5. UNCHANGED <<operation, projectWorkspace>> /\ Goto(s, pc[s])
    BY <1>1, <2>2 DEF TypeOK, Goto
  <2> QED
    BY <2>1, <2>2, <2>4, <2>5, LocksKeep
<1>5. ASSUME pc[s] \notin {"idle", "LockWorkspaceContext", "LockConnection"},
             operation[s].kind \notin CreationKinds,
             NEW row \in {ConnectionRow(Target(s)), DraftRow(Target(s))},
             held' = held \/ Hold(s, {row}),
             UNCHANGED <<database, operation>>,
             NEW statement \in {"InsertAudit", "Commit", "NextRevisionNumber"},
             Goto(s, statement)
      PROVE  \A t \in Sessions : LocksFit(t)'
  <2>1. UNCHANGED <<operation, projectWorkspace>> /\ pc'[s] = statement
    BY <1>1, <1>5 DEF database, TypeOK, Goto
  <2>2. OwnRow(s, row)'
    BY <1>5, <2>1 DEF OwnRow, InConnection, Target
  <2> QED
    BY <1>5, <2>1, <2>2, LocksKeep
<1>6. CASE \/ RenameConnection(s) \/ UpdateAccessMode(s)
           \/ UpdateLifecycle(s) \/ ActivateDraftConnection(s)
  <2>1. /\ pc[s] \notin {"idle", "LockWorkspaceContext", "LockConnection"}
        /\ held' = held \/ Hold(s, {ConnectionRow(Target(s))})
        /\ UNCHANGED <<database, operation>> /\ Goto(s, "InsertAudit")
    BY <1>6 DEF RenameConnection, UpdateAccessMode, UpdateLifecycle,
                ActivateDraftConnection, UpdateRow
  <2>2. operation[s].kind \notin CreationKinds
    BY <1>1, <1>6
    DEF RenameConnection, UpdateAccessMode, UpdateLifecycle, SessionOK,
        ActivateDraftConnection, StatementFits, CreationKinds, LifecycleActions
  <2> QED
    BY <1>5, <2>1, <2>2
<1>7. CASE UpsertDraft(s)
  <2>1. /\ pc[s] = "UpsertDraft" /\ Hold(s, {DraftRow(Target(s))})
        /\ UNCHANGED <<database, operation>> /\ Goto(s, "Commit")
        /\ operation[s].kind \notin CreationKinds
    BY <1>1, <1>7 DEF UpsertDraft, SessionOK, StatementFits, CreationKinds
  <2> QED
    BY <1>5, <2>1
<1>8. CASE LockDraft(s)
  <2>1. CASE Raise(s, "REQUEST_VALIDATION_FAILED")
    BY <2>1, EndReleases DEF Raise, database
  <2>2. CASE ~Raise(s, "REQUEST_VALIDATION_FAILED")
    <3>1. /\ pc[s] = "LockDraft" /\ Hold(s, {DraftRow(Target(s))})
          /\ UNCHANGED <<database, operation>>
          /\ Goto(s, "NextRevisionNumber")
          /\ operation[s].kind \notin CreationKinds
      BY <1>1, <1>8, <2>2
      DEF LockDraft, SessionOK, StatementFits, CreationKinds
    <3> QED
      BY <1>5, <3>1
  <2> QED
    BY <2>1, <2>2
<1> QED
  BY <1>2, <1>3, <1>4, <1>6, <1>7, <1>8

LEMMA CommitReleases ==
  ASSUME SafetyInv, \A t \in Sessions : LocksFit(t), NEW s \in Sessions,
         Commit(s)
  PROVE  \A t \in Sessions : LocksFit(t)'
<1>1. End(s, "SUCCEEDED")
  BY DEF Commit
<1>2. \A p \in Projects : projectWorkspace[p] # None
        => projectWorkspace'[p] = projectWorkspace[p]
  BY OwnersStay
<1> QED
  BY <1>1, <1>2, EndReleases

LEMMA RaiseReleases ==
  ASSUME SafetyInv, \A t \in Sessions : LocksFit(t), NEW s \in Sessions,
         NEW problem, Raise(s, problem)
  PROVE  \A t \in Sessions : LocksFit(t)'
BY EndReleases DEF Raise, database

LEMMA StepLocks ==
  ASSUME SafetyInv, \A t \in Sessions : LocksFit(t), NEW s \in Sessions,
         Step(s) \/ Abort(s)
  PROVE  \A t \in Sessions : LocksFit(t)'
<1>1. CASE \/ WorkspaceNotFound(s) \/ ConnectionNotFound(s) \/ Refuse(s)
           \/ ProjectNotFound(s) \/ RejectDraft(s) \/ DraftMissing(s)
           \/ Abort(s)
  BY <1>1, RaiseReleases
  DEF WorkspaceNotFound, ConnectionNotFound, Refuse, ProjectNotFound,
      RejectDraft, DraftMissing, Abort
<1>2. CASE ~ \/ WorkspaceNotFound(s) \/ ConnectionNotFound(s) \/ Refuse(s)
             \/ ProjectNotFound(s) \/ RejectDraft(s) \/ DraftMissing(s)
             \/ Abort(s)
  BY <1>2, QuietStatements, LockingStatements, CommitReleases DEF Step
<1> QED
  BY <1>1, <1>2

LEMMA BeginLocks ==
  ASSUME SafetyInv, \A t \in Sessions : LocksFit(t), NEW s \in Sessions,
         NEW op, Begin(s, op)
  PROVE  \A t \in Sessions : LocksFit(t)'
<1>1. pc[s] = "idle"
  BY DEF Begin, SafetyInv, Inv, SessionOK, IdleHasNothing, TypeOK, Running
<1>2. held'[s] = {}
  BY <1>1 DEF Begin, LocksFit, InContext
<1>3. /\ UNCHANGED <<projectWorkspace, held>>
      /\ \A t \in Sessions \ {s} : /\ operation'[t] = operation[t]
                                   /\ pc'[t] = pc[t]
  BY DEF Begin, Goto, SafetyInv, Inv, TypeOK, database
<1>4. ASSUME NEW t \in Sessions \ {s} PROVE LocksFit(t)'
  BY <1>3, <1>4 DEF LocksFit, InContext, OwnRow, InConnection, Target
<1> QED
  BY <1>2, <1>4 DEF LocksFit

LEMMA NextLocks ==
  ASSUME SafetyInv, \A t \in Sessions : LocksFit(t), [Next]_vars
  PROVE  \A t \in Sessions : LocksFit(t)'
<1>1. CASE UNCHANGED <<operation, pc, held, projectWorkspace>>
  BY <1>1 DEF LocksFit, InContext, OwnRow, InConnection, Target
<1>2. CASE \E s \in Sessions, op \in Operations : Begin(s, op)
  BY <1>2, BeginLocks
<1>3. CASE \E s \in Sessions : Step(s) \/ Abort(s)
  BY <1>3, StepLocks
<1> QED
  BY <1>1, <1>2, <1>3
  DEF Next, vars, database, ChangeMembership, ChangeWorkspaceStatus

(* Whoever waits does so before it has locked anything, whoever is waited  *)
(* for has: so no transaction waits for one that waits, whatever sessions, *)
(* connections and projects there are, and none ends in a deadlock.        *)
THEOREM WaitersBlockNobody == Spec => []NoChainOfWaiters
<1>1. Init => \A t \in Sessions : LocksFit(t)
  BY DEF Init, LocksFit
<1>2. SafetyInv /\ (\A t \in Sessions : LocksFit(t)) /\ [Next]_vars
        => (\A t \in Sessions : LocksFit(t))'
  BY NextLocks
<1>3. SafetyInv /\ (\A t \in Sessions : LocksFit(t)) => NoChainOfWaiters
  BY WhoeverWaitsIsAtTheDoor DEF SafetyInv, NoChainOfWaiters, InContext
<1> QED
  BY <1>1, <1>2, <1>3, SafetyInvariance, PTL DEF Spec

-----------------------------------------------------------------------------
(* Termination, as far as it is a safety property. *)

(* How far a transaction has come. *)
Order(statement) ==
  IF statement = "LockWorkspaceContext" THEN 1
  ELSE IF statement = "LockConnection" THEN 2
  ELSE IF statement = "Authorize" THEN 3
  ELSE IF statement \in {"InsertProject", "FetchConnection", "UpsertDraft",
                         "LockDraft", "UpdateLifecycle"} THEN 4
  ELSE IF statement = "LockSelectedProjects" THEN 5
  ELSE IF statement \in {"InsertConnection", "DeleteProjectAccess",
                         "RenameConnection", "NextRevisionNumber"} THEN 6
  ELSE IF statement \in {"InsertProjectAccess", "InsertRevision"} THEN 7
  ELSE IF statement \in {"UpdateAccessMode", "ActivateDraftConnection"} THEN 8
  ELSE IF statement = "InsertAudit" THEN 9
  ELSE 10

(* A statement keeps every lock and is followed by a later statement, or   *)
(* locks one more of the projects the request selects.                     *)
Advances(s) ==
  \/ Order(pc[s]) < Order(pc'[s]) /\ held[s] \subseteq held'[s]
  \/ /\ pc[s] = "LockSelectedProjects" /\ pc'[s] = pc[s]
     /\ \E p \in operation[s].access.projects :
          ProjectRow(p) \notin held[s] /\ held'[s] = held[s] \cup {ProjectRow(p)}

(* Whatever changes for a running request either ends it or advances its   *)
(* transaction: no statement runs twice, no lock is released before the    *)
(* end, and nothing another session or an administrator does takes a       *)
(* request back (connection_repository.py).                                *)
RequestsAdvance ==
  \A s \in Sessions :
    /\ Running(s) /\ Running(s)'
    /\ \/ pc'[s] # pc[s] \/ held'[s] # held[s]
       \/ local'[s] # local[s] \/ writes'[s] # writes[s]
    => operation'[s] = operation[s] /\ Advances(s)

RequestsOnlyAdvance == [][RequestsAdvance]_vars

Others(s) ==
  \A t \in Sessions \ {s} :
    /\ pc'[t] = pc[t] /\ held'[t] = held[t]
    /\ local'[t] = local[t] /\ writes'[t] = writes[t]

Domains ==
  /\ DOMAIN pc = Sessions /\ DOMAIN held = Sessions
  /\ DOMAIN local = Sessions /\ DOMAIN writes = Sessions

LEMMA DomainsAreSessions == TypeOK => Domains
BY DEF TypeOK, Domains

LEMMA GotoAdvances ==
  ASSUME Domains, NEW s \in Sessions, NEW statement,
         Goto(s, statement), Order(pc[s]) < Order(statement),
         held' = held \/ \E rows : Hold(s, rows)
  PROVE  Advances(s)
<1>1. pc'[s] = statement
  BY DEF Domains, Goto
<1>2. held[s] \subseteq held'[s]
  BY DEF Domains, Hold
<1> QED
  BY <1>1, <1>2 DEF Advances

LEMMA OthersStand ==
  ASSUME Domains, NEW s \in Sessions,
         pc' = pc \/ \E statement : Goto(s, statement),
         held' = held \/ \E rows : Hold(s, rows),
         \A t \in Sessions \ {s} : local'[t] = local[t] /\ writes'[t] = writes[t]
  PROVE  Others(s)
<1>1. \A t \in Sessions \ {s} : pc'[t] = pc[t]
  BY DEF Domains, Goto
<1>2. \A t \in Sessions \ {s} : held'[t] = held[t]
  BY DEF Domains, Hold
<1> QED
  BY <1>1, <1>2 DEF Others

LEMMA StatementAdvances ==
  ASSUME TypeOK, NEW s \in Sessions, Step(s), ~ \E result : End(s, result)
  PROVE  Advances(s) /\ Others(s)
<1>1. Domains
  BY DomainsAreSessions
<1>2. ASSUME NEW statement, Goto(s, statement),
             Order(pc[s]) < Order(statement),
             held' = held \/ \E rows : Hold(s, rows),
             \A t \in Sessions \ {s} :
               local'[t] = local[t] /\ writes'[t] = writes[t]
      PROVE  Advances(s) /\ Others(s)
  BY <1>1, <1>2, GotoAdvances, OthersStand
<1>3. ASSUME NEW result, End(s, result) PROVE FALSE
  BY <1>3
<1>4. CASE LockWorkspaceContext(s)
  <2>1. PICK statement \in {"Authorize", "LockConnection"} : Goto(s, statement)
    BY <1>4 DEF LockWorkspaceContext
  <2>2. pc[s] = "LockWorkspaceContext" /\ (Hold(s, ContextRows(operation[s].workspace, operation[s].user)))
    BY <1>4 DEF LockWorkspaceContext
  <2>3. \A t \in Sessions \ {s} :
          local'[t] = local[t] /\ writes'[t] = writes[t]
    BY <1>1, <1>4 DEF LockWorkspaceContext, Domains
  <2>4. Order(pc[s]) < Order(statement)
    BY <2>1, <2>2 DEF Order
  <2> QED
    BY <1>2, <2>1, <2>2, <2>3, <2>4
<1>5. CASE LockConnection(s)
  <2>1. PICK statement \in {"Authorize"} : Goto(s, statement)
    BY <1>5 DEF LockConnection
  <2>2. pc[s] = "LockConnection" /\ (Hold(s, {ConnectionRow(Target(s))}))
    BY <1>5 DEF LockConnection
  <2>3. \A t \in Sessions \ {s} :
          local'[t] = local[t] /\ writes'[t] = writes[t]
    BY <1>1, <1>5 DEF LockConnection, Domains
  <2>4. Order(pc[s]) < Order(statement)
    BY <2>1, <2>2 DEF Order
  <2> QED
    BY <1>2, <2>1, <2>2, <2>3, <2>4
<1>6. CASE InsertProject(s)
  <2>1. PICK statement \in {"Commit"} : Goto(s, statement)
    BY <1>6 DEF InsertProject
  <2>2. pc[s] = "InsertProject" /\ (held' = held)
    BY <1>6 DEF InsertProject
  <2>3. \A t \in Sessions \ {s} :
          local'[t] = local[t] /\ writes'[t] = writes[t]
    BY <1>1, <1>6 DEF InsertProject, Domains
  <2>4. Order(pc[s]) < Order(statement)
    BY <2>1, <2>2 DEF Order
  <2> QED
    BY <1>2, <2>1, <2>2, <2>3, <2>4
<1>7. CASE InsertConnection(s)
  <2>1. PICK statement \in {"InsertProjectAccess"} : Goto(s, statement)
    BY <1>7 DEF InsertConnection
  <2>2. pc[s] = "InsertConnection" /\ (held' = held)
    BY <1>7 DEF InsertConnection
  <2>3. \A t \in Sessions \ {s} :
          local'[t] = local[t] /\ writes'[t] = writes[t]
    BY <1>1, <1>7 DEF InsertConnection, Domains
  <2>4. Order(pc[s]) < Order(statement)
    BY <2>1, <2>2 DEF Order
  <2> QED
    BY <1>2, <2>1, <2>2, <2>3, <2>4
<1>8. CASE DeleteProjectAccess(s)
  <2>1. PICK statement \in {"InsertProjectAccess"} : Goto(s, statement)
    BY <1>8 DEF DeleteProjectAccess
  <2>2. pc[s] = "DeleteProjectAccess" /\ (held' = held)
    BY <1>8 DEF DeleteProjectAccess
  <2>3. \A t \in Sessions \ {s} :
          local'[t] = local[t] /\ writes'[t] = writes[t]
    BY <1>1, <1>8 DEF DeleteProjectAccess, Domains
  <2>4. Order(pc[s]) < Order(statement)
    BY <2>1, <2>2 DEF Order
  <2> QED
    BY <1>2, <2>1, <2>2, <2>3, <2>4
<1>9. CASE RenameConnection(s)
  <2>1. PICK statement \in {"InsertAudit"} : Goto(s, statement)
    BY <1>9 DEF RenameConnection, UpdateRow
  <2>2. pc[s] = "RenameConnection" /\ (Hold(s, {ConnectionRow(Target(s))}))
    BY <1>9 DEF RenameConnection, UpdateRow
  <2>3. \A t \in Sessions \ {s} :
          local'[t] = local[t] /\ writes'[t] = writes[t]
    BY <1>1, <1>9 DEF RenameConnection, UpdateRow, Domains
  <2>4. Order(pc[s]) < Order(statement)
    BY <2>1, <2>2 DEF Order
  <2> QED
    BY <1>2, <2>1, <2>2, <2>3, <2>4
<1>10. CASE UpdateAccessMode(s)
  <2>1. PICK statement \in {"InsertAudit"} : Goto(s, statement)
    BY <1>10 DEF UpdateAccessMode, UpdateRow
  <2>2. pc[s] = "UpdateAccessMode" /\ (Hold(s, {ConnectionRow(Target(s))}))
    BY <1>10 DEF UpdateAccessMode, UpdateRow
  <2>3. \A t \in Sessions \ {s} :
          local'[t] = local[t] /\ writes'[t] = writes[t]
    BY <1>1, <1>10 DEF UpdateAccessMode, UpdateRow, Domains
  <2>4. Order(pc[s]) < Order(statement)
    BY <2>1, <2>2 DEF Order
  <2> QED
    BY <1>2, <2>1, <2>2, <2>3, <2>4
<1>11. CASE UpdateLifecycle(s)
  <2>1. PICK statement \in {"InsertAudit"} : Goto(s, statement)
    BY <1>11 DEF UpdateLifecycle, UpdateRow
  <2>2. pc[s] = "UpdateLifecycle" /\ (Hold(s, {ConnectionRow(Target(s))}))
    BY <1>11 DEF UpdateLifecycle, UpdateRow
  <2>3. \A t \in Sessions \ {s} :
          local'[t] = local[t] /\ writes'[t] = writes[t]
    BY <1>1, <1>11 DEF UpdateLifecycle, UpdateRow, Domains
  <2>4. Order(pc[s]) < Order(statement)
    BY <2>1, <2>2 DEF Order
  <2> QED
    BY <1>2, <2>1, <2>2, <2>3, <2>4
<1>12. CASE ActivateDraftConnection(s)
  <2>1. PICK statement \in {"InsertAudit"} : Goto(s, statement)
    BY <1>12 DEF ActivateDraftConnection, UpdateRow
  <2>2. pc[s] = "ActivateDraftConnection" /\ (held' = held \/ Hold(s, {ConnectionRow(Target(s))}))
    BY <1>12 DEF ActivateDraftConnection, UpdateRow
  <2>3. \A t \in Sessions \ {s} :
          local'[t] = local[t] /\ writes'[t] = writes[t]
    BY <1>1, <1>12 DEF ActivateDraftConnection, UpdateRow, Domains
  <2>4. Order(pc[s]) < Order(statement)
    BY <2>1, <2>2 DEF Order
  <2> QED
    BY <1>2, <2>1, <2>2, <2>3, <2>4
<1>13. CASE UpsertDraft(s)
  <2>1. PICK statement \in {"Commit"} : Goto(s, statement)
    BY <1>13 DEF UpsertDraft
  <2>2. pc[s] = "UpsertDraft" /\ (Hold(s, {DraftRow(Target(s))}))
    BY <1>13 DEF UpsertDraft
  <2>3. \A t \in Sessions \ {s} :
          local'[t] = local[t] /\ writes'[t] = writes[t]
    BY <1>1, <1>13 DEF UpsertDraft, Domains
  <2>4. Order(pc[s]) < Order(statement)
    BY <2>1, <2>2 DEF Order
  <2> QED
    BY <1>2, <2>1, <2>2, <2>3, <2>4
<1>14. CASE NextRevisionNumber(s)
  <2>1. PICK statement \in {"InsertRevision"} : Goto(s, statement)
    BY <1>14 DEF NextRevisionNumber
  <2>2. pc[s] = "NextRevisionNumber" /\ (held' = held)
    BY <1>14 DEF NextRevisionNumber
  <2>3. \A t \in Sessions \ {s} :
          local'[t] = local[t] /\ writes'[t] = writes[t]
    BY <1>1, <1>14 DEF NextRevisionNumber, Domains
  <2>4. Order(pc[s]) < Order(statement)
    BY <2>1, <2>2 DEF Order
  <2> QED
    BY <1>2, <2>1, <2>2, <2>3, <2>4
<1>15. CASE ValidateProjects(s)
  <2>1. PICK statement \in {"InsertConnection", "DeleteProjectAccess"} : Goto(s, statement)
    BY <1>15 DEF ValidateProjects, ProjectsLocked
  <2>2. pc[s] = "LockSelectedProjects" /\ (held' = held)
    BY <1>15 DEF ValidateProjects, ProjectsLocked
  <2>3. \A t \in Sessions \ {s} :
          local'[t] = local[t] /\ writes'[t] = writes[t]
    BY <1>1, <1>15 DEF ValidateProjects, ProjectsLocked, Domains
  <2>4. Order(pc[s]) < Order(statement)
    BY <2>1, <2>2 DEF Order
  <2> QED
    BY <1>2, <2>1, <2>2, <2>3, <2>4
<1>16. CASE FetchConnection(s)
  <2>1. PICK statement \in {"RenameConnection", "LockSelectedProjects"} : Goto(s, statement)
    BY <1>16, <1>3 DEF FetchConnection, Raise
  <2>2. pc[s] = "FetchConnection" /\ (held' = held)
    BY <1>16, <1>3 DEF FetchConnection, Raise
  <2>3. \A t \in Sessions \ {s} :
          local'[t] = local[t] /\ writes'[t] = writes[t]
    BY <1>1, <1>16, <1>3 DEF FetchConnection, Raise, Domains
  <2>4. Order(pc[s]) < Order(statement)
    BY <2>1, <2>2 DEF Order
  <2> QED
    BY <1>2, <2>1, <2>2, <2>3, <2>4
<1>17. CASE InsertProjectAccess(s)
  <2>1. PICK statement \in {"InsertAudit", "UpdateAccessMode"} : Goto(s, statement)
    BY <1>17, <1>3 DEF InsertProjectAccess, Raise
  <2>2. pc[s] = "InsertProjectAccess" /\ (held' = held)
    BY <1>17, <1>3 DEF InsertProjectAccess, Raise
  <2>3. \A t \in Sessions \ {s} :
          local'[t] = local[t] /\ writes'[t] = writes[t]
    BY <1>1, <1>17, <1>3 DEF InsertProjectAccess, Raise, Domains
  <2>4. Order(pc[s]) < Order(statement)
    BY <2>1, <2>2 DEF Order
  <2> QED
    BY <1>2, <2>1, <2>2, <2>3, <2>4
<1>18. CASE LockDraft(s)
  <2>1. PICK statement \in {"NextRevisionNumber"} : Goto(s, statement)
    BY <1>18, <1>3 DEF LockDraft, Raise
  <2>2. pc[s] = "LockDraft" /\ (Hold(s, {DraftRow(Target(s))}))
    BY <1>18, <1>3 DEF LockDraft, Raise
  <2>3. \A t \in Sessions \ {s} :
          local'[t] = local[t] /\ writes'[t] = writes[t]
    BY <1>1, <1>18, <1>3 DEF LockDraft, Raise, Domains
  <2>4. Order(pc[s]) < Order(statement)
    BY <2>1, <2>2 DEF Order
  <2> QED
    BY <1>2, <2>1, <2>2, <2>3, <2>4
<1>19. CASE InsertRevision(s)
  <2>1. PICK statement \in {"ActivateDraftConnection"} : Goto(s, statement)
    BY <1>19, <1>3 DEF InsertRevision, Raise
  <2>2. pc[s] = "InsertRevision" /\ (held' = held)
    BY <1>19, <1>3 DEF InsertRevision, Raise
  <2>3. \A t \in Sessions \ {s} :
          local'[t] = local[t] /\ writes'[t] = writes[t]
    BY <1>1, <1>19, <1>3 DEF InsertRevision, Raise, Domains
  <2>4. Order(pc[s]) < Order(statement)
    BY <2>1, <2>2 DEF Order
  <2> QED
    BY <1>2, <2>1, <2>2, <2>3, <2>4
<1>20. CASE InsertAudit(s)
  <2>1. PICK statement \in {"Commit"} : Goto(s, statement)
    BY <1>20, <1>3 DEF InsertAudit, Raise
  <2>2. pc[s] = "InsertAudit" /\ (held' = held)
    BY <1>20, <1>3 DEF InsertAudit, Raise
  <2>3. \A t \in Sessions \ {s} :
          local'[t] = local[t] /\ writes'[t] = writes[t]
    BY <1>1, <1>20, <1>3 DEF InsertAudit, Raise, Domains
  <2>4. Order(pc[s]) < Order(statement)
    BY <2>1, <2>2 DEF Order
  <2> QED
    BY <1>2, <2>1, <2>2, <2>3, <2>4
<1>21. CASE Admit(s)
  <2>1. /\ pc[s] = "Authorize" /\ held' = held /\ local' = local
        /\ writes' = writes /\ Goto(s, FirstStatement(operation[s].kind))
    BY <1>21 DEF Admit
  <2>2. operation[s].kind \in Kinds
    BY <2>1, RunningRequest
  <2>3. FirstStatement(operation[s].kind)
          \in {"InsertProject", "LockSelectedProjects", "FetchConnection",
               "UpsertDraft", "LockDraft", "UpdateLifecycle"}
    BY <2>2, FirstStatementFits
  <2> DEFINE statement == FirstStatement(operation[s].kind)
  <2> HIDE DEF statement
  <2>4. Order(pc[s]) < Order(statement)
    BY <2>1, <2>3 DEF Order, statement
  <2> QED
    BY <1>2, <2>1, <2>4 DEF statement
<1>22. CASE LockOneProject(s)
  <2>1. /\ pc[s] = "LockSelectedProjects" /\ pc' = pc /\ local' = local
        /\ writes' = writes
    BY <1>22 DEF LockOneProject
  <2>2. PICK p \in FoundProjects(s) :
          ProjectRow(p) \notin held[s] /\ Hold(s, {ProjectRow(p)})
    BY <1>22 DEF LockOneProject
  <2>3. held'[s] = held[s] \cup {ProjectRow(p)}
    BY <1>1, <2>2 DEF Domains, Hold
  <2>4. p \in operation[s].access.projects
    BY DEF FoundProjects
  <2>5. Advances(s)
    BY <2>1, <2>2, <2>3, <2>4 DEF Advances
  <2>6. Others(s)
    BY <1>1, <2>1, <2>2, OthersStand
  <2> QED
    BY <2>5, <2>6
<1>23. CASE \/ WorkspaceNotFound(s) \/ ConnectionNotFound(s) \/ Refuse(s)
           \/ ProjectNotFound(s) \/ RejectDraft(s) \/ DraftMissing(s)
           \/ Commit(s)
  BY <1>3, <1>23
  DEF WorkspaceNotFound, ConnectionNotFound, Refuse, ProjectNotFound,
      RejectDraft, DraftMissing, Commit, Raise
<1> QED
  BY <1>4, <1>5, <1>6, <1>7, <1>8, <1>9, <1>10, <1>11, <1>12, <1>13, <1>14, <1>15, <1>16, <1>17, <1>18, <1>19, <1>20, <1>21, <1>22, <1>23 DEF Step

LEMMA EndedByItself ==
  ASSUME TypeOK, NEW s \in Sessions, NEW k \in Sessions, NEW result,
         End(k, result), Running(s), Running(s)'
  PROVE  /\ pc'[s] = pc[s] /\ held'[s] = held[s]
         /\ local'[s] = local[s] /\ writes'[s] = writes[s]
BY DEF End, TypeOK, Running

(* A mutation runs at most ten statements, and one more for every project  *)
(* it selects, and it locks in two phases: with NoChainOfWaiters, a        *)
(* request can only be kept from its end by a transaction that itself      *)
(* stands still.                                                           *)
THEOREM MutationsOnlyAdvance == Spec => RequestsOnlyAdvance
<1>1. ASSUME Inv, [Next]_vars, NEW s \in Sessions,
             Running(s), Running(s)',
             \/ pc'[s] # pc[s] \/ held'[s] # held[s]
             \/ local'[s] # local[s] \/ writes'[s] # writes[s]
      PROVE  operation'[s] = operation[s] /\ Advances(s)
  <2>1. TypeOK
    BY <1>1 DEF Inv
  <2>2. ASSUME NEW k \in Sessions, NEW op, Begin(k, op) PROVE FALSE
    BY <1>1, <2>1, <2>2 DEF Begin, Goto, TypeOK, Running
  <2>3. ASSUME NEW k \in Sessions, Step(k) \/ Abort(k)
        PROVE  operation'[s] = operation[s] /\ Advances(s)
    <3>1. ~ \E result : End(k, result)
      BY <1>1, <2>1, EndedByItself
    <3>2. ~ Abort(k)
      BY <3>1 DEF Abort, Raise
    <3>3. UNCHANGED operation
      BY <1>1, <2>3, <3>1, StepKinds DEF Commit, Raise
    <3>4. Advances(k) /\ Others(k)
      BY <2>1, <2>3, <3>1, <3>2, StatementAdvances
    <3>5. k = s
      BY <1>1, <3>4 DEF Others
    <3> QED
      BY <3>3, <3>4, <3>5
  <2>4. ~ UNCHANGED <<pc, held, local, writes>>
    BY <1>1
  <2> QED
    BY <1>1, <2>2, <2>3, <2>4
    DEF Next, vars, ChangeMembership, ChangeWorkspaceStatus
<1>2. Inv /\ [Next]_vars => [RequestsAdvance]_vars
  BY <1>1 DEF RequestsAdvance
<1> QED
  BY <1>2, Invariance, PTL DEF Spec, RequestsOnlyAdvance
=============================================================================
