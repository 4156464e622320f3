-------------------- MODULE ConnectionTransactions_proofs --------------------
(***************************************************************************)
(* Theorems about ConnectionTransactions, for every number of users,       *)
(* workspaces, connections, sessions and requests: its variables keep      *)
(* their types, the revision history of a connection has no gap, authority *)
(* cannot end between authorization and commit, and an archived connection *)
(* never changes.                                                          *)
(***************************************************************************)
EXTENDS ConnectionSafety, FiniteSetTheorems, TLAPS

-----------------------------------------------------------------------------
(* The inductive invariant.                                                *)

(* No row is locked by two sessions. *)
LocksExclusive ==
  \A s, t \in Sessions : s # t => held[s] \cap held[t] = {}

(* Two creations in flight never have the same identifier. *)
FreshTargets ==
  \A s, t \in Sessions :
    /\ s # t
    /\ Serves(s, "CREATE_CONNECTION")
    /\ Serves(t, "CREATE_CONNECTION")
    => Target(s) # Target(t)

(* A session only runs statements of the request it serves. *)
StatementFits(s) ==
  LET kind == operation[s].kind IN
  /\ pc[s] = "InsertProject" => kind = "CREATE_PROJECT"
  /\ pc[s] = "InsertConnection" => kind = "CREATE_CONNECTION"
  /\ pc[s] \in {"LockSelectedProjects", "InsertProjectAccess"} =>
       kind \in {"CREATE_CONNECTION", "REPLACE_ACCESS"}
  /\ pc[s] = "LockConnection" => kind \notin CreationKinds
  /\ pc[s] = "FetchConnection" => kind \in {"RENAME", "REPLACE_ACCESS"}
  /\ pc[s] = "RenameConnection" => kind = "RENAME"
  /\ pc[s] \in {"DeleteProjectAccess", "UpdateAccessMode"} =>
       kind = "REPLACE_ACCESS"
  /\ pc[s] = "UpsertDraft" => kind = "PUT_DRAFT"
  /\ pc[s] \in {"LockDraft", "NextRevisionNumber", "InsertRevision",
                "ActivateDraftConnection"} => kind = "PUBLISH"
  /\ pc[s] = "UpdateLifecycle" => kind \in LifecycleActions
  /\ pc[s] = "InsertAudit" => kind \notin {"CREATE_PROJECT", "PUT_DRAFT"}

InContext(s) == pc[s] \notin {"idle", "LockWorkspaceContext"}
InConnection(s) ==
  /\ pc[s] \notin {"idle", "LockWorkspaceContext", "LockConnection"}
  /\ operation[s].kind \notin CreationKinds
Authorized(s) ==
  pc[s] \notin {"idle", "LockWorkspaceContext", "LockConnection", "Authorize"}

(* What a session has read under a lock is what the database says. *)
ContextIsCurrent(s) ==
  LET w == operation[s].workspace
      u == operation[s].user IN
  InContext(s) =>
    /\ WorkspaceRow(w) \in held[s]
    /\ MembershipRow(w, u) \in held[s]
    /\ membership[w][u] # None
    /\ local[s].role = membership[w][u]
    /\ local[s].workspaceStatus = workspaceStatus[w]

ConnectionIsCurrent(s) ==
  InConnection(s) =>
    /\ ConnectionRow(Target(s)) \in held[s]
    /\ connection[Target(s)] # None
    /\ connection[Target(s)].workspace = operation[s].workspace
    /\ local[s].mode = connection[Target(s)].mode
    /\ local[s].status = connection[Target(s)].status

CreationIsFresh(s) ==
  /\ Serves(s, "CREATE_CONNECTION") => connection[Target(s)] = None
  /\ Running(s) /\ operation[s].kind \in CreationKinds =>
       local[s].mode = None /\ local[s].status = None

(* The revision a publication is about to insert, or has inserted, is the  *)
(* next one of its connection.                                             *)
RevisionIsNext(s) ==
  /\ pc[s] \in {"NextRevisionNumber", "InsertRevision"} =>
       local[s].compiled \in Configurations
  /\ pc[s] = "InsertRevision" =>
       local[s].number = Cardinality(revisions[Target(s)]) + 1
  /\ writes[s].revision # None =>
       /\ Authorized(s)
       /\ operation[s].kind = "PUBLISH"
       /\ writes[s].revision.number = Cardinality(revisions[Target(s)]) + 1

(* An idle session and a project creation have nothing pending on a        *)
(* connection.                                                             *)
NothingPending(s) ==
  pc[s] = "idle" \/ operation[s].kind = "CREATE_PROJECT" =>
    /\ writes[s].row = None
    /\ writes[s].revoked = {}
    /\ writes[s].granted = {}
    /\ writes[s].draft = None
    /\ writes[s].revision = None
    /\ writes[s].event = NoEvent

IdleHasNothing(s) ==
  pc[s] = "idle" => held[s] = {} /\ local[s] = NoLocal

SessionOK(s) ==
  /\ StatementFits(s)
  /\ ContextIsCurrent(s)
  /\ ConnectionIsCurrent(s)
  /\ Authorized(s) => Authorize(operation[s], local[s]) = "AUTHORIZED"
  /\ CreationIsFresh(s)
  /\ RevisionIsNext(s)
  /\ NothingPending(s)
  /\ IdleHasNothing(s)

Inv ==
  /\ TypeOK
  /\ RevisionHistoryGapless
  /\ LocksExclusive
  /\ FreshTargets
  /\ \A s \in Sessions : SessionOK(s)

-----------------------------------------------------------------------------
(* Lemmas about revision numbers. *)

(* MAX + 1 over a history without gaps is its length plus one. *)
LEMMA NextNumberOfGapless ==
  ASSUME NEW rows, Gapless(rows)
  PROVE  NextNumber(rows) = Cardinality(rows) + 1
<1> DEFINE n == Cardinality(rows)
           numbers == {0} \cup {revision.number : revision \in rows}
<1>1. n \in Nat
  BY FS_CardinalityType DEF Gapless
<1>2. numbers = 0..n
  BY <1>1 DEF Gapless
<1>3. Max(0..n) = n
  BY <1>1 DEF Max
<1> QED
  BY <1>2, <1>3 DEF NextNumber

(* A history without gaps stays one when its next revision is added. *)
LEMMA GaplessGrows ==
  ASSUME NEW rows, Gapless(rows),
         NEW new, new.number = Cardinality(rows) + 1
  PROVE  Gapless(rows \cup {new})
<1> DEFINE n == Cardinality(rows)
<1>1. n \in Nat
  BY FS_CardinalityType DEF Gapless
<1>2. new \notin rows
  BY <1>1 DEF Gapless
<1>3. IsFiniteSet(rows \cup {new}) /\ Cardinality(rows \cup {new}) = n + 1
  BY <1>2, FS_AddElement DEF Gapless
<1>4. {revision.number : revision \in rows \cup {new}} = (1..n) \cup {n + 1}
  BY DEF Gapless
<1>5. (1..n) \cup {n + 1} = 1..(n + 1)
  BY <1>1
<1> QED
  BY <1>3, <1>4, <1>5 DEF Gapless

LEMMA EmptyGapless == Gapless({})
BY FS_EmptySet DEF Gapless

(* Authorization depends on four fields of what a session has read. *)
LEMMA AuthorizeReadsFourFields ==
  ASSUME NEW op, NEW one, NEW other,
         one.role = other.role,
         one.workspaceStatus = other.workspaceStatus,
         one.mode = other.mode,
         one.status = other.status
  PROVE  Authorize(op, one) = Authorize(op, other)
BY DEF Authorize, AuthorizeProjectCreation, AuthorizeCreation,
       AuthorizeAccess, AuthorizeLifecycle, AuthorizeAuthoring

-----------------------------------------------------------------------------
(* What a step of one session leaves to the others. *)

LEMMA OthersKeep ==
  ASSUME NEW t \in Sessions, SessionOK(t),
         UNCHANGED database,
         operation'[t] = operation[t], pc'[t] = pc[t], held'[t] = held[t],
         local'[t] = local[t], writes'[t] = writes[t]
  PROVE  SessionOK(t)'
BY DEF SessionOK, StatementFits, ContextIsCurrent, ConnectionIsCurrent,
       CreationIsFresh, RevisionIsNext, NothingPending, IdleHasNothing,
       InContext, InConnection, Authorized, Target, Serves, Running, database

(* A step that touches the private state of s alone, and takes locks only  *)
(* on rows nobody else holds, preserves the invariant if it keeps s's own  *)
(* part of it.                                                             *)
LEMMA PrivateStep ==
  ASSUME Inv, NEW s \in Sessions, NEW rows,
         UNCHANGED <<database, operation>>,
         held' = held \/ Hold(s, rows),
         \A t \in Sessions \ {s} :
           pc'[t] = pc[t] /\ local'[t] = local[t] /\ writes'[t] = writes[t],
         TypeOK', SessionOK(s)'
  PROVE  Inv'
<1>1. RevisionHistoryGapless'
  BY DEF Inv, RevisionHistoryGapless, database
<1>2. \A t \in Sessions \ {s} : held'[t] = held[t]
  BY DEF Inv, TypeOK, Hold
<1>3. \A t \in Sessions \ {s} : held'[s] \cap held'[t] = {}
  <2> TAKE t \in Sessions \ {s}
  <2>1. CASE held' = held
    BY <2>1 DEF Inv, LocksExclusive
  <2>2. CASE Hold(s, rows)
    <3>1. held'[s] = held[s] \cup rows
      BY <2>2 DEF Inv, TypeOK, Hold
    <3>2. held[t] \cap rows = {} /\ held[s] \cap held[t] = {}
      BY <2>2 DEF Inv, LocksExclusive, Hold, Unlocked
    <3> QED
      BY <1>2, <3>1, <3>2
  <2> QED
    BY <2>1, <2>2
<1>4. LocksExclusive'
  BY <1>2, <1>3 DEF Inv, LocksExclusive
<1>5. FreshTargets'
  BY DEF Inv, FreshTargets, Serves, Running, Target
<1>6. \A t \in Sessions \ {s} : SessionOK(t)'
  BY <1>2, OthersKeep DEF Inv
<1> QED
  BY <1>1, <1>4, <1>5, <1>6 DEF Inv

(* An exception, whatever raised it, preserves the invariant. *)
LEMMA RaisePreserves ==
  ASSUME Inv, NEW s \in Sessions, 
         NEW problem \in Problems \cup {"ABORTED"},
         Raise(s, problem)
  PROVE  Inv'
<1> USE DEF Raise, End
<1>1. TypeOK'
  BY NoneAssumption
  DEF Inv, TypeOK, WritesOK, database, NoWrites, NoLocal, NoImage, LocalStates
<1>2. SessionOK(s)'
  BY DEF Inv, TypeOK, SessionOK, StatementFits, ContextIsCurrent,
         ConnectionIsCurrent, CreationIsFresh, RevisionIsNext, NothingPending,
         IdleHasNothing, InContext, InConnection, Authorized, Serves,
         Running, NoWrites
<1>3. \A t \in Sessions \ {s} :
        /\ operation'[t] = operation[t] /\ pc'[t] = pc[t]
        /\ held'[t] = held[t] /\ local'[t] = local[t]
        /\ writes'[t] = writes[t]
  BY DEF Inv, TypeOK
<1>4. \A t \in Sessions \ {s} : SessionOK(t)'
  BY <1>3, OthersKeep DEF Inv
<1>5. RevisionHistoryGapless'
  BY DEF Inv, RevisionHistoryGapless, database
<1>6. LocksExclusive'
  BY <1>3 DEF Inv, LocksExclusive, TypeOK
<1>7. FreshTargets'
  BY <1>3 DEF Inv, FreshTargets, Serves, Running, Target, TypeOK
<1> QED
  BY <1>1, <1>2, <1>4, <1>5, <1>6, <1>7 DEF Inv

-----------------------------------------------------------------------------
(* Locks and types. *)

LEMMA RowsAreRows ==
  /\ \A w \in Workspaces : WorkspaceRow(w) \in Rows
  /\ \A w \in Workspaces, u \in Users : MembershipRow(w, u) \in Rows
  /\ \A c \in Connections : ConnectionRow(c) \in Rows /\ DraftRow(c) \in Rows
  /\ \A p \in Projects : ProjectRow(p) \in Rows
BY DEF Rows

LEMMA HoldAddsRows ==
  ASSUME TypeOK, NEW s \in Sessions, NEW rows \in SUBSET Rows,
         held' = held \/ Hold(s, rows)
  PROVE  /\ held' \in [Sessions -> SUBSET Rows]
         /\ held[s] \subseteq held'[s]
         /\ Hold(s, rows) => rows \subseteq held'[s]
BY DEF TypeOK, Hold

(* The request of a running session is one of the requests. *)
LEMMA RunningRequest ==
  ASSUME TypeOK, NEW s \in Sessions, pc[s] # "idle"
  PROVE  /\ Running(s)
         /\ operation[s] \in OperationRecords
         /\ operation[s].kind \in Kinds
         /\ operation[s].user \in Users
         /\ operation[s].workspace \in Workspaces
         /\ operation[s].project \in Projects
         /\ Target(s) \in Connections
         /\ operation[s].name \in Names
         /\ operation[s].access \in AccessPolicies
         /\ operation[s].access.mode \in AccessModes
         /\ operation[s].access.projects \in SUBSET Projects
         /\ operation[s].configuration \in Configurations
<1>1. Running(s) /\ operation[s] \in OperationRecords
  BY OperationsAssumption DEF TypeOK, Running
<1>2. operation[s].access \in AccessPolicies
  BY <1>1 DEF OperationRecords
<1>3. /\ operation[s].access.mode \in AccessModes
      /\ operation[s].access.projects \in SUBSET Projects
  BY <1>2 DEF AccessPolicies
<1> QED
  BY <1>1, <1>2, <1>3 DEF OperationRecords, Target

(* Types after a step that touches the private state of s alone. *)
LEMMA PrivateTypes ==
  ASSUME TypeOK, NEW s \in Sessions, pc[s] # "idle",
         UNCHANGED <<database, operation, outcome>>,
         NEW statement \in Statements,
         pc' = pc \/ Goto(s, statement),
         held' \in [Sessions -> SUBSET Rows],
         local' \in [Sessions -> LocalStates],
         DOMAIN writes' = Sessions,
         \A t \in Sessions \ {s} : writes'[t] = writes[t],
         WritesOK(s)'
  PROVE  TypeOK'
<1>1. /\ pc' \in [Sessions -> Statements \cup {"idle"}]
      /\ \A t \in Sessions : pc'[t] = "idle" <=> operation'[t] = None
  BY DEF TypeOK, Goto, Statements
<1>2. \A t \in Sessions : WritesOK(t)'
  BY DEF TypeOK, WritesOK
<1> QED
  BY <1>1, <1>2 DEF TypeOK, database

(* A step after authorization: what remains to be shown of its session.    *)
LEMMA AuthorizedStep ==
  ASSUME Inv, NEW s \in Sessions, Authorized(s),
         UNCHANGED <<database, operation, outcome>>,
         NEW statement \in Statements
           \ {"LockWorkspaceContext", "LockConnection", "Authorize"},
         pc' = pc \/ Goto(s, statement),
         NEW rows \in SUBSET Rows,
         held' = held \/ Hold(s, rows),
         local' \in [Sessions -> LocalStates],
         \A t \in Sessions \ {s} : local'[t] = local[t],
         local'[s].role = local[s].role,
         local'[s].workspaceStatus = local[s].workspaceStatus,
         local'[s].mode = local[s].mode,
         local'[s].status = local[s].status,
         DOMAIN writes' = Sessions,
         \A t \in Sessions \ {s} : writes'[t] = writes[t],
         WritesOK(s)', StatementFits(s)', RevisionIsNext(s)', NothingPending(s)'
  PROVE  Inv'
<1>1. pc[s] # "idle" /\ TypeOK /\ SessionOK(s)
  BY DEF Authorized, Inv
<1>2. /\ held' \in [Sessions -> SUBSET Rows]
      /\ held[s] \subseteq held'[s]
  BY <1>1, HoldAddsRows
<1>3. TypeOK'
  BY <1>1, <1>2, PrivateTypes
<1>4. Authorized(s)' /\ pc'[s] # "idle"
  BY <1>1 DEF Authorized, Goto, TypeOK, Statements
<1>5. ContextIsCurrent(s)'
  BY <1>1, <1>2 DEF SessionOK, ContextIsCurrent, InContext, Authorized, database
<1>6. ConnectionIsCurrent(s)'
  BY <1>1, <1>2
  DEF SessionOK, ConnectionIsCurrent, InConnection, Authorized, Target, database
<1>7. Authorize(operation'[s], local'[s]) = "AUTHORIZED"
  BY <1>1, AuthorizeReadsFourFields DEF SessionOK
<1>8. CreationIsFresh(s)'
  BY <1>1 DEF SessionOK, CreationIsFresh, Serves, Running, Target, database
<1>9. IdleHasNothing(s)'
  BY <1>4 DEF IdleHasNothing
<1>10. SessionOK(s)'
  BY <1>5, <1>6, <1>7, <1>8, <1>9 DEF SessionOK
<1>11. \A t \in Sessions \ {s} : pc'[t] = pc[t]
  BY <1>1 DEF Goto, TypeOK
<1> QED
  BY <1>3, <1>10, <1>11, PrivateStep

-----------------------------------------------------------------------------
(* The statements before and at authorization. *)

LEMMA LockWorkspaceContextPreserves ==
  ASSUME Inv, NEW s \in Sessions, LockWorkspaceContext(s)
  PROVE  Inv'
<1> DEFINE op == operation[s]
           rows == ContextRows(op.workspace, op.user)
<1>1. pc[s] = "LockWorkspaceContext" /\ TypeOK /\ SessionOK(s)
  BY DEF LockWorkspaceContext, Inv
<1>2. /\ op.workspace \in Workspaces /\ op.user \in Users
      /\ op.kind \in Kinds /\ Running(s)
  BY <1>1, RunningRequest
<1>3. /\ Hold(s, rows) /\ rows \in SUBSET Rows
      /\ UNCHANGED <<database, operation, writes, outcome>>
  BY <1>2, RowsAreRows DEF LockWorkspaceContext, ContextRows
<1>4. held' \in [Sessions -> SUBSET Rows] /\ rows \subseteq held'[s]
  BY <1>1, <1>3, HoldAddsRows
<1>5. /\ local' = [local EXCEPT ![s] = local'[s]]
      /\ local'[s] = [local[s] EXCEPT
           !.role = membership[op.workspace][op.user],
           !.workspaceStatus = workspaceStatus[op.workspace]]
  BY <1>1 DEF LockWorkspaceContext, TypeOK
<1>6. /\ membership[op.workspace][op.user] \in Roles
      /\ workspaceStatus[op.workspace] \in WorkspaceStatuses
      /\ local[s] \in LocalStates
  BY <1>1, <1>2 DEF LockWorkspaceContext, TypeOK
<1>7. local'[s] \in LocalStates
  BY <1>5, <1>6 DEF LocalStates
<1>8. /\ local' \in [Sessions -> LocalStates]
      /\ \A t \in Sessions \ {s} : local'[t] = local[t]
  BY <1>1, <1>5, <1>7 DEF TypeOK
<1>9. PICK statement \in {"Authorize", "LockConnection"} :
        /\ Goto(s, statement)
        /\ statement = "LockConnection" => op.kind \notin CreationKinds
  BY DEF LockWorkspaceContext
<1>10. pc'[s] = statement /\ \A t \in Sessions \ {s} : pc'[t] = pc[t]
  BY <1>1, <1>9 DEF Goto, TypeOK
<1>11. TypeOK'
  <2>1. WritesOK(s)'
    BY <1>1, <1>3 DEF TypeOK, WritesOK
  <2> QED
    BY <1>1, <1>3, <1>4, <1>8, <1>9, <2>1, PrivateTypes DEF Statements, TypeOK
<1>12. SessionOK(s)'
  <2>1. StatementFits(s)'
    BY <1>3, <1>9, <1>10 DEF StatementFits
  <2>2. ContextIsCurrent(s)'
    BY <1>3, <1>4, <1>5, <1>6, NoneAssumption
    DEF ContextIsCurrent, ContextRows, LocalStates, database
  <2>3. ConnectionIsCurrent(s)'
    BY <1>1, <1>3, <1>9, <1>10
    DEF ConnectionIsCurrent, InConnection, SessionOK, LockWorkspaceContext, Goto, TypeOK
  <2>4. ~Authorized(s)'
    BY <1>10 DEF Authorized
  <2>5. CreationIsFresh(s)'
    BY <1>1, <1>3, <1>5, <1>6
    DEF SessionOK, CreationIsFresh, Serves, Running, Target, LocalStates, database
  <2>6. RevisionIsNext(s)' /\ NothingPending(s)' /\ IdleHasNothing(s)'
    BY <1>1, <1>3, <1>10
    DEF SessionOK, RevisionIsNext, NothingPending, IdleHasNothing, Authorized, Target
  <2> QED
    BY <2>1, <2>2, <2>3, <2>4, <2>5, <2>6 DEF SessionOK
<1> QED
  BY <1>3, <1>8, <1>10, <1>11, <1>12, PrivateStep

LEMMA LockConnectionPreserves ==
  ASSUME Inv, NEW s \in Sessions, LockConnection(s)
  PROVE  Inv'
<1> DEFINE op == operation[s]
           c == Target(s)
           rows == {ConnectionRow(c)}
<1>1. pc[s] = "LockConnection" /\ TypeOK /\ SessionOK(s)
  BY DEF LockConnection, Inv
<1>2. c \in Connections /\ op.kind \in Kinds \ CreationKinds
  BY <1>1, RunningRequest DEF SessionOK, StatementFits
<1>3. /\ Hold(s, rows) /\ rows \in SUBSET Rows /\ Addressed(s)
      /\ UNCHANGED <<database, operation, writes, outcome>>
  BY <1>2, RowsAreRows DEF LockConnection
<1>4. /\ held' \in [Sessions -> SUBSET Rows]
      /\ rows \subseteq held'[s] /\ held[s] \subseteq held'[s]
  BY <1>1, <1>3, HoldAddsRows
<1>5. /\ local' = [local EXCEPT ![s] = local'[s]]
      /\ local'[s] = [local[s] EXCEPT !.mode = connection[c].mode,
                                     !.status = connection[c].status]
  BY <1>1 DEF LockConnection, TypeOK
<1>6. connection[c] \in ConnectionRows /\ local[s] \in LocalStates
  BY <1>1, <1>2, <1>3 DEF TypeOK, Addressed
<1>7. local'[s] \in LocalStates
  BY <1>5, <1>6 DEF LocalStates, ConnectionRows
<1>8. /\ local' \in [Sessions -> LocalStates]
      /\ \A t \in Sessions \ {s} : local'[t] = local[t]
  BY <1>1, <1>5, <1>7 DEF TypeOK
<1>9. /\ Goto(s, "Authorize") /\ pc'[s] = "Authorize"
      /\ \A t \in Sessions \ {s} : pc'[t] = pc[t]
  BY <1>1 DEF LockConnection, Goto, TypeOK
<1>10. TypeOK'
  <2>1. WritesOK(s)'
    BY <1>1, <1>3 DEF TypeOK, WritesOK
  <2> QED
    BY <1>1, <1>3, <1>4, <1>8, <1>9, <2>1, PrivateTypes DEF Statements, TypeOK
<1>11. SessionOK(s)'
  <2>1. StatementFits(s)'
    BY <1>9 DEF StatementFits
  <2>2. ContextIsCurrent(s)'
    BY <1>1, <1>3, <1>4, <1>5, <1>6
    DEF SessionOK, ContextIsCurrent, InContext, LocalStates, database
  <2>3. ConnectionIsCurrent(s)'
    BY <1>3, <1>4, <1>5, <1>6
    DEF ConnectionIsCurrent, Addressed, LocalStates, Target, database
  <2>4. ~Authorized(s)'
    BY <1>9 DEF Authorized
  <2>5. CreationIsFresh(s)'
    BY <1>2, <1>3 DEF CreationIsFresh, Serves, CreationKinds
  <2>6. RevisionIsNext(s)' /\ NothingPending(s)' /\ IdleHasNothing(s)'
    BY <1>1, <1>2, <1>3, <1>9
    DEF SessionOK, RevisionIsNext, NothingPending, IdleHasNothing, Authorized,
        CreationKinds
  <2> QED
    BY <2>1, <2>2, <2>3, <2>4, <2>5, <2>6 DEF SessionOK
<1> QED
  BY <1>3, <1>8, <1>9, <1>10, <1>11, PrivateStep

(* FirstStatement goes on with a statement of the request. *)
LEMMA FirstStatementFits ==
  ASSUME NEW kind \in Kinds
  PROVE  \/ kind = "CREATE_PROJECT" /\ FirstStatement(kind) = "InsertProject"
         \/ /\ kind = "CREATE_CONNECTION"
            /\ FirstStatement(kind) = "LockSelectedProjects"
         \/ /\ kind \in {"RENAME", "REPLACE_ACCESS"}
            /\ FirstStatement(kind) = "FetchConnection"
         \/ kind = "PUT_DRAFT" /\ FirstStatement(kind) = "UpsertDraft"
         \/ kind = "PUBLISH" /\ FirstStatement(kind) = "LockDraft"
         \/ /\ kind \in LifecycleActions
            /\ FirstStatement(kind) = "UpdateLifecycle"
BY DEF FirstStatement, Kinds, CreationKinds, LifecycleActions

LEMMA AdmitPreserves ==
  ASSUME Inv, NEW s \in Sessions, Admit(s)
  PROVE  Inv'
<1> DEFINE kind == operation[s].kind
           statement == FirstStatement(kind)
<1>1. pc[s] = "Authorize" /\ TypeOK /\ SessionOK(s) /\ kind \in Kinds
  BY RunningRequest DEF Admit, Inv
<1>2. /\ UNCHANGED <<database, operation, held, local, writes, outcome>>
      /\ Goto(s, statement)
      /\ Authorize(operation[s], local[s]) = "AUTHORIZED"
  BY DEF Admit
<1>3. /\ pc'[s] = statement
      /\ \A t \in Sessions \ {s} : pc'[t] = pc[t]
  BY <1>1, <1>2 DEF Goto, TypeOK
<1>4. /\ StatementFits(s)'
      /\ statement \in Statements
      /\ statement \notin {"LockWorkspaceContext", "LockConnection", "idle",
                         "Authorize", "NextRevisionNumber", "InsertRevision"}
  <2>1. StatementFits(s)'
    BY <1>1, <1>2, <1>3, FirstStatementFits
    DEF StatementFits, CreationKinds, LifecycleActions
  <2> QED
    BY <1>1, <2>1, FirstStatementFits DEF Statements
<1>5. TypeOK'
  <2>1. WritesOK(s)'
    BY <1>1, <1>2 DEF TypeOK, WritesOK
  <2> QED
    BY <1>1, <1>2, <1>4, <2>1, PrivateTypes DEF TypeOK
<1>6. SessionOK(s)'
  <2>1. ContextIsCurrent(s)' /\ ConnectionIsCurrent(s)' /\ CreationIsFresh(s)'
    BY <1>1, <1>2
    DEF SessionOK, ContextIsCurrent, ConnectionIsCurrent, CreationIsFresh,
        InContext, InConnection, Serves, Running, Target, database
  <2>2. RevisionIsNext(s)' /\ NothingPending(s)' /\ IdleHasNothing(s)'
    BY <1>1, <1>2, <1>3, <1>4
    DEF SessionOK, RevisionIsNext, NothingPending, IdleHasNothing, Authorized,
        Target, database
  <2> QED
    BY <1>2, <1>4, <2>1, <2>2 DEF SessionOK
<1> QED
  BY <1>2, <1>3, <1>5, <1>6, PrivateStep

-----------------------------------------------------------------------------
(* The statements after authorization. *)

(* Local data is not touched: the hypotheses of AuthorizedStep on it hold.  *)
LEMMA WritingStep ==
  ASSUME Inv, NEW s \in Sessions, Authorized(s),
         UNCHANGED <<database, operation, local, outcome>>,
         NEW statement \in Statements
           \ {"LockWorkspaceContext", "LockConnection", "Authorize"},
         pc' = pc \/ Goto(s, statement),
         NEW rows \in SUBSET Rows,
         held' = held \/ Hold(s, rows),
         NEW pending,
         writes' = writes \/ writes' = [writes EXCEPT ![s] = pending],
         WritesOK(s)', StatementFits(s)', RevisionIsNext(s)', NothingPending(s)'
  PROVE  Inv'
<1>1. /\ DOMAIN writes' = Sessions
      /\ \A t \in Sessions \ {s} : writes'[t] = writes[t]
  BY DEF Inv, TypeOK
<1>2. local' \in [Sessions -> LocalStates]
  BY DEF Inv, TypeOK
<1> QED
  BY <1>1, <1>2, AuthorizedStep

LEMMA InsertProjectPreserves ==
  ASSUME Inv, NEW s \in Sessions, InsertProject(s)
  PROVE  Inv'
<1> DEFINE pending == [writes[s] EXCEPT !.project = operation[s].project]
<1>1. /\ pc[s] = "InsertProject" /\ TypeOK /\ SessionOK(s)
      /\ operation[s].project \in Projects /\ operation[s].kind \in Kinds
  BY RunningRequest DEF InsertProject, Inv
<1>2. writes' = [writes EXCEPT ![s] = pending] /\ writes'[s] = pending
  BY <1>1 DEF InsertProject, TypeOK
<1>3. /\ Goto(s, "Commit") /\ pc'[s] = "Commit" 
      /\ UNCHANGED <<database, operation, held, local, outcome>>
  BY <1>1 DEF InsertProject, Goto, TypeOK
<1>4. WritesOK(s)'
  BY <1>1, <1>2 DEF TypeOK, WritesOK, NoWrites
<1>5. StatementFits(s)' /\ RevisionIsNext(s)' /\ NothingPending(s)'
  BY <1>1, <1>2, <1>3
  DEF TypeOK, WritesOK, NoWrites, SessionOK, StatementFits, RevisionIsNext,
      NothingPending, Authorized, Target, database
<1>6. Authorized(s) /\ "Commit" \in Statements
  BY <1>1 DEF Authorized, Statements
<1> QED
  BY <1>2, <1>3, <1>4, <1>5, <1>6, WritingStep

LEMMA LockOneProjectPreserves ==
  ASSUME Inv, NEW s \in Sessions, LockOneProject(s)
  PROVE  Inv'
<1>1. pc[s] = "LockSelectedProjects" /\ TypeOK /\ SessionOK(s)
  BY DEF LockOneProject, Inv
<1>2. PICK rows \in SUBSET Rows : Hold(s, rows)
  BY <1>1, RunningRequest, RowsAreRows DEF LockOneProject, FoundProjects
<1>3. UNCHANGED <<database, operation, pc, local, writes, outcome>>
  BY DEF LockOneProject
<1>4. WritesOK(s)'
  BY <1>1, <1>3 DEF TypeOK, WritesOK
<1>5. StatementFits(s)' /\ RevisionIsNext(s)' /\ NothingPending(s)'
  BY <1>1, <1>3
  DEF SessionOK, StatementFits, RevisionIsNext, NothingPending, Authorized,
      Target, database
<1>6. Authorized(s) /\ "Commit" \in Statements
  BY <1>1 DEF Authorized, Statements
<1> QED
  BY <1>2, <1>3, <1>4, <1>5, <1>6, WritingStep

LEMMA ValidateProjectsPreserves ==
  ASSUME Inv, NEW s \in Sessions, ValidateProjects(s)
  PROVE  Inv'
<1>1. pc[s] = "LockSelectedProjects" /\ TypeOK /\ SessionOK(s)
  BY DEF ValidateProjects, ProjectsLocked, Inv
<1>2. PICK statement \in {"InsertConnection", "DeleteProjectAccess"} :
        /\ Goto(s, statement)
        /\ statement = "InsertConnection"
             <=> operation[s].kind = "CREATE_CONNECTION"
  BY DEF ValidateProjects
<1>3. /\ UNCHANGED <<database, operation, held, local, writes, outcome>>
      /\ pc'[s] = statement
  BY <1>1, <1>2 DEF ValidateProjects, Goto, TypeOK
<1>4. WritesOK(s)'
  BY <1>1, <1>3 DEF TypeOK, WritesOK
<1>5. StatementFits(s)' /\ RevisionIsNext(s)' /\ NothingPending(s)'
  BY <1>1, <1>2, <1>3
  DEF SessionOK, StatementFits, RevisionIsNext, NothingPending, Authorized,
      Target, database
<1>6. Authorized(s) /\ statement \in Statements
  BY <1>1 DEF Authorized, Statements
<1> QED
  BY <1>2, <1>3, <1>4, <1>5, <1>6, WritingStep

LEMMA InsertConnectionPreserves ==
  ASSUME Inv, NEW s \in Sessions, InsertConnection(s)
  PROVE  Inv'
<1> DEFINE op == operation[s]
           row == [workspace |-> op.workspace, name |-> op.name,
                   mode |-> op.access.mode, status |-> "DRAFT"]
           pending == [writes[s] EXCEPT !.row = row]
<1>1. /\ pc[s] = "InsertConnection" /\ TypeOK /\ SessionOK(s)
      /\ op.workspace \in Workspaces /\ op.name \in Names
      /\ op.access.mode \in AccessModes
  BY RunningRequest DEF InsertConnection, Inv
<1>2. row \in ConnectionRows
  BY <1>1 DEF ConnectionRows, ConnectionStatuses
<1>3. writes' = [writes EXCEPT ![s] = pending] /\ writes'[s] = pending
  BY <1>1 DEF InsertConnection, TypeOK
<1>4. /\ Goto(s, "InsertProjectAccess") /\ pc'[s] = "InsertProjectAccess"
      /\ UNCHANGED <<database, operation, held, local, outcome>>
  BY <1>1 DEF InsertConnection, Goto, TypeOK
<1>5. WritesOK(s)'
  BY <1>1, <1>2, <1>3 DEF TypeOK, WritesOK, NoWrites
<1>6. StatementFits(s)' /\ RevisionIsNext(s)' /\ NothingPending(s)'
  BY <1>1, <1>3, <1>4
  DEF TypeOK, WritesOK, NoWrites, SessionOK, StatementFits, RevisionIsNext,
      NothingPending, Authorized, Target, database
<1>7. Authorized(s) /\ "InsertProjectAccess" \in Statements
  BY <1>1 DEF Authorized, Statements
<1> QED
  BY <1>3, <1>4, <1>5, <1>6, <1>7, WritingStep

(* A session that has locked its connection sees a row. *)
LEMMA ViewIsRow ==
  ASSUME Inv, NEW s \in Sessions, InConnection(s)
  PROVE  ViewRow(s) \in ConnectionRows /\ ViewAccess(s) \in SUBSET Projects
<1>1. Target(s) \in Connections /\ TypeOK /\ SessionOK(s) /\ WritesOK(s)
  BY RunningRequest DEF InConnection, Inv, TypeOK
<1>2. connection[Target(s)] \in ConnectionRows
  BY <1>1 DEF SessionOK, ConnectionIsCurrent, TypeOK
<1>3. projectAccess[Target(s)] \in SUBSET Projects
  BY <1>1 DEF TypeOK
<1> QED
  BY <1>1, <1>2, <1>3 DEF ViewRow, ViewAccess, WritesOK

(* The four updates of the connection row. *)
LEMMA UpdateRowStep ==
  ASSUME Inv, NEW s \in Sessions, Authorized(s),
         operation[s].kind \notin CreationKinds \cup {"PUT_DRAFT"},
         NEW row \in ConnectionRows, UpdateRow(s, row), Goto(s, "InsertAudit")
  PROVE  Inv'
<1> DEFINE pending == [writes[s] EXCEPT !.row = row]
           rows == {ConnectionRow(Target(s))}
<1>1. pc[s] # "idle" /\ TypeOK /\ SessionOK(s) /\ Target(s) \in Connections
  BY RunningRequest DEF Authorized, Inv
<1>2. writes' = [writes EXCEPT ![s] = pending] /\ writes'[s] = pending
  BY <1>1 DEF UpdateRow, TypeOK
<1>3. /\ Hold(s, rows) /\ rows \in SUBSET Rows /\ pc'[s] = "InsertAudit"
      /\ UNCHANGED <<database, operation, local, outcome>>
  BY <1>1, RowsAreRows DEF UpdateRow, Goto, TypeOK
<1>4. WritesOK(s)'
  BY <1>1, <1>2 DEF TypeOK, WritesOK, NoWrites
<1>5. StatementFits(s)' /\ RevisionIsNext(s)' /\ NothingPending(s)'
  BY <1>1, <1>2, <1>3
  DEF TypeOK, WritesOK, NoWrites, SessionOK, StatementFits, RevisionIsNext,
      NothingPending, Authorized, Target, database, CreationKinds
<1>6. "InsertAudit" \in Statements
  BY DEF Statements
<1> QED
  BY <1>1, <1>2, <1>3, <1>4, <1>5, <1>6, WritingStep

LEMMA RenameConnectionPreserves ==
  ASSUME Inv, NEW s \in Sessions, RenameConnection(s)
  PROVE  Inv'
<1>1. /\ pc[s] = "RenameConnection" /\ operation[s].kind = "RENAME"
      /\ operation[s].name \in Names
  BY RunningRequest DEF RenameConnection, Inv, SessionOK, StatementFits
<1>2. InConnection(s) /\ Authorized(s)
  BY <1>1 DEF InConnection, Authorized, CreationKinds
<1>3. [ViewRow(s) EXCEPT !.name = operation[s].name] \in ConnectionRows
  BY <1>1, <1>2, ViewIsRow DEF ConnectionRows
<1> QED
  BY <1>1, <1>2, <1>3, UpdateRowStep DEF RenameConnection, CreationKinds

LEMMA UpdateAccessModePreserves ==
  ASSUME Inv, NEW s \in Sessions, UpdateAccessMode(s)
  PROVE  Inv'
<1>1. /\ pc[s] = "UpdateAccessMode" /\ operation[s].kind = "REPLACE_ACCESS"
      /\ operation[s].access.mode \in AccessModes
  BY RunningRequest DEF UpdateAccessMode, Inv, SessionOK, StatementFits
<1>2. InConnection(s) /\ Authorized(s)
  BY <1>1 DEF InConnection, Authorized, CreationKinds
<1>3. [ViewRow(s) EXCEPT !.mode = operation[s].access.mode] \in ConnectionRows
  BY <1>1, <1>2, ViewIsRow DEF ConnectionRows
<1> QED
  BY <1>1, <1>2, <1>3, UpdateRowStep DEF UpdateAccessMode, CreationKinds

LEMMA LifecycleTargetIsStatus ==
  ASSUME NEW action \in LifecycleActions
  PROVE  LifecycleTarget(action) \in ConnectionStatuses
BY DEF LifecycleTarget, LifecycleActions, ConnectionStatuses

LEMMA UpdateLifecyclePreserves ==
  ASSUME Inv, NEW s \in Sessions, UpdateLifecycle(s)
  PROVE  Inv'
<1>1. /\ pc[s] = "UpdateLifecycle" 
      /\ operation[s].kind \in LifecycleActions
  BY DEF UpdateLifecycle, Inv, SessionOK, StatementFits
<1>2. InConnection(s) /\ Authorized(s)
  BY <1>1 DEF InConnection, Authorized, CreationKinds, LifecycleActions
<1>3. [ViewRow(s) EXCEPT !.status = LifecycleTarget(operation[s].kind)]
        \in ConnectionRows
  BY <1>1, <1>2, ViewIsRow, LifecycleTargetIsStatus DEF ConnectionRows
<1> QED
  BY <1>1, <1>2, <1>3, UpdateRowStep
  DEF UpdateLifecycle, CreationKinds, LifecycleActions

(* UPDATE ... WHERE status = 'DRAFT': an update of the row or of nothing.  *)
LEMMA ActivateDraftConnectionPreserves ==
  ASSUME Inv, NEW s \in Sessions, ActivateDraftConnection(s)
  PROVE  Inv'
<1>1. /\ pc[s] = "ActivateDraftConnection" /\ TypeOK /\ SessionOK(s)
      /\ operation[s].kind = "PUBLISH" /\ Goto(s, "InsertAudit")
  BY DEF ActivateDraftConnection, Inv, SessionOK, StatementFits
<1>2. InConnection(s) /\ Authorized(s)
  BY <1>1 DEF InConnection, Authorized, CreationKinds
<1>3. CASE ViewRow(s).status = "DRAFT"
  <2>1. [ViewRow(s) EXCEPT !.status = "ACTIVE"] \in ConnectionRows
    BY <1>2, ViewIsRow DEF ConnectionRows, ConnectionStatuses
  <2> QED
    BY <1>1, <1>2, <1>3, <2>1, UpdateRowStep
    DEF ActivateDraftConnection, CreationKinds
<1>4. CASE ViewRow(s).status # "DRAFT"
  <2>1. /\ UNCHANGED <<database, operation, held, local, writes, outcome>>
        /\ pc'[s] = "InsertAudit"
    BY <1>1, <1>4 DEF ActivateDraftConnection, Goto, TypeOK
  <2>2. WritesOK(s)'
    BY <1>1, <2>1 DEF TypeOK, WritesOK
  <2>3. StatementFits(s)' /\ RevisionIsNext(s)' /\ NothingPending(s)'
    BY <1>1, <2>1
    DEF SessionOK, StatementFits, RevisionIsNext, NothingPending, Authorized,
        Target, database
  <2>4. "InsertAudit" \in Statements
    BY DEF Statements
  <2> QED
    BY <1>1, <1>2, <2>1, <2>2, <2>3, <2>4, WritingStep
<1> QED
  BY <1>3, <1>4

LEMMA DeleteProjectAccessPreserves ==
  ASSUME Inv, NEW s \in Sessions, DeleteProjectAccess(s)
  PROVE  Inv'
<1> DEFINE pending == [writes[s] EXCEPT !.revoked = projectAccess[Target(s)]]
<1>1. /\ pc[s] = "DeleteProjectAccess" /\ TypeOK /\ SessionOK(s)
      /\ Target(s) \in Connections /\ operation[s].kind = "REPLACE_ACCESS"
  BY RunningRequest DEF DeleteProjectAccess, Inv, SessionOK, StatementFits
<1>2. writes' = [writes EXCEPT ![s] = pending] /\ writes'[s] = pending
  BY <1>1 DEF DeleteProjectAccess, TypeOK
<1>3. /\ Goto(s, "InsertProjectAccess") /\ pc'[s] = "InsertProjectAccess"
      /\ UNCHANGED <<database, operation, held, local, outcome>>
  BY <1>1 DEF DeleteProjectAccess, Goto, TypeOK
<1>4. WritesOK(s)'
  BY <1>1, <1>2 DEF TypeOK, WritesOK, NoWrites
<1>5. StatementFits(s)' /\ RevisionIsNext(s)' /\ NothingPending(s)'
  BY <1>1, <1>2, <1>3
  DEF TypeOK, WritesOK, NoWrites, SessionOK, StatementFits, RevisionIsNext,
      NothingPending, Authorized, Target, database
<1>6. Authorized(s) /\ "InsertProjectAccess" \in Statements
  BY <1>1 DEF Authorized, Statements
<1> QED
  BY <1>2, <1>3, <1>4, <1>5, <1>6, WritingStep

LEMMA InsertProjectAccessPreserves ==
  ASSUME Inv, NEW s \in Sessions, InsertProjectAccess(s)
  PROVE  Inv'
<1> DEFINE projects == operation[s].access.projects
           pending == [writes[s] EXCEPT !.granted = projects]
<1>1. /\ pc[s] = "InsertProjectAccess" /\ TypeOK /\ SessionOK(s)
      /\ projects \in SUBSET Projects
      /\ operation[s].kind \in {"CREATE_CONNECTION", "REPLACE_ACCESS"}
  BY RunningRequest DEF InsertProjectAccess, Inv, SessionOK, StatementFits
<1>2. CASE Raise(s, "INTERNAL_ERROR")
  BY <1>2, RaisePreserves DEF Problems
<1>3. CASE ~Raise(s, "INTERNAL_ERROR")
  <2>1. writes' = [writes EXCEPT ![s] = pending] /\ writes'[s] = pending
    BY <1>1, <1>3 DEF InsertProjectAccess, TypeOK
  <2>2. PICK statement \in {"InsertAudit", "UpdateAccessMode"} :
          /\ Goto(s, statement)
          /\ statement = "UpdateAccessMode"
               <=> operation[s].kind # "CREATE_CONNECTION"
    BY <1>3 DEF InsertProjectAccess
  <2>3. /\ pc'[s] = statement
        /\ UNCHANGED <<database, operation, held, local, outcome>>
    BY <1>1, <1>3, <2>2 DEF InsertProjectAccess, Goto, TypeOK
  <2>4. WritesOK(s)'
    BY <1>1, <2>1 DEF TypeOK, WritesOK, NoWrites
  <2>5. StatementFits(s)' /\ RevisionIsNext(s)' /\ NothingPending(s)'
    BY <1>1, <2>1, <2>2, <2>3
    DEF TypeOK, WritesOK, NoWrites, SessionOK, StatementFits, RevisionIsNext,
        NothingPending, Authorized, Target, database
  <2>6. Authorized(s) /\ statement \in Statements
    BY <1>1 DEF Authorized, Statements
  <2> QED
    BY <2>1, <2>2, <2>3, <2>4, <2>5, <2>6, WritingStep
<1> QED
  BY <1>2, <1>3

LEMMA UpsertDraftPreserves ==
  ASSUME Inv, NEW s \in Sessions, UpsertDraft(s)
  PROVE  Inv'
<1> DEFINE compiled == Canonicalize[operation[s].configuration]
           pending == [writes[s] EXCEPT !.draft = compiled]
           rows == {DraftRow(Target(s))}
<1>1. /\ pc[s] = "UpsertDraft" /\ TypeOK /\ SessionOK(s)
      /\ Target(s) \in Connections /\ operation[s].kind = "PUT_DRAFT"
      /\ compiled \in Configurations
  BY RunningRequest, CanonicalizeAssumption
  DEF UpsertDraft, Inv, SessionOK, StatementFits
<1>2. writes' = [writes EXCEPT ![s] = pending] /\ writes'[s] = pending
  BY <1>1 DEF UpsertDraft, TypeOK
<1>3. /\ Hold(s, rows) /\ rows \in SUBSET Rows
      /\ Goto(s, "Commit") /\ pc'[s] = "Commit"
      /\ UNCHANGED <<database, operation, local, outcome>>
  BY <1>1, RowsAreRows DEF UpsertDraft, Goto, TypeOK
<1>4. WritesOK(s)'
  BY <1>1, <1>2 DEF TypeOK, WritesOK, NoWrites
<1>5. StatementFits(s)' /\ RevisionIsNext(s)' /\ NothingPending(s)'
  BY <1>1, <1>2, <1>3
  DEF TypeOK, WritesOK, NoWrites, SessionOK, StatementFits, RevisionIsNext,
      NothingPending, Authorized, Target, database
<1>6. Authorized(s) /\ "Commit" \in Statements
  BY <1>1 DEF Authorized, Statements
<1> QED
  BY <1>2, <1>3, <1>4, <1>5, <1>6, WritingStep

LEMMA InsertRevisionPreserves ==
  ASSUME Inv, NEW s \in Sessions, InsertRevision(s)
  PROVE  Inv'
<1> DEFINE revision == [number |-> local[s].number,
                        configuration |-> local[s].compiled]
           pending == [writes[s] EXCEPT !.revision = revision]
<1>1. /\ pc[s] = "InsertRevision" /\ TypeOK /\ SessionOK(s)
      /\ operation[s].kind = "PUBLISH"
  BY DEF InsertRevision, Inv, SessionOK, StatementFits
<1>2. /\ local[s].number = Cardinality(revisions[Target(s)]) + 1
      /\ local[s].number \in Nat /\ local[s].compiled \in Configurations
  BY <1>1 DEF SessionOK, RevisionIsNext, TypeOK, LocalStates
<1>3. CASE Raise(s, "INTERNAL_ERROR")
  BY <1>3, RaisePreserves DEF Problems
<1>4. CASE ~Raise(s, "INTERNAL_ERROR")
  <2>1. writes' = [writes EXCEPT ![s] = pending] /\ writes'[s] = pending
    BY <1>1, <1>4 DEF InsertRevision, TypeOK
  <2>2. /\ Goto(s, "ActivateDraftConnection")
        /\ pc'[s] = "ActivateDraftConnection"
        /\ UNCHANGED <<database, operation, held, local, outcome>>
    BY <1>1, <1>4 DEF InsertRevision, Goto, TypeOK
  <2>3. WritesOK(s)'
    BY <1>1, <1>2, <2>1 DEF TypeOK, WritesOK, NoWrites, Revisions
  <2>4. StatementFits(s)' /\ RevisionIsNext(s)' /\ NothingPending(s)'
    BY <1>1, <1>2, <2>1, <2>2
    DEF TypeOK, WritesOK, NoWrites, SessionOK, StatementFits, RevisionIsNext,
        NothingPending, Authorized, Target, database
  <2>5. Authorized(s) /\ "ActivateDraftConnection" \in Statements
    BY <1>1 DEF Authorized, Statements
  <2> QED
    BY <2>1, <2>2, <2>3, <2>4, <2>5, WritingStep
<1> QED
  BY <1>3, <1>4

LEMMA InsertAuditPreserves ==
  ASSUME Inv, NEW s \in Sessions, InsertAudit(s)
  PROVE  Inv'
<1> DEFINE event == [action |-> operation[s].kind, role |-> local[s].role,
                     before |-> EventImages(s).before,
                     after |-> EventImages(s).after]
           pending == [writes[s] EXCEPT !.event = event]
<1>1. /\ pc[s] = "InsertAudit" /\ TypeOK /\ SessionOK(s)
      /\ operation[s].kind # "CREATE_PROJECT"
  BY DEF InsertAudit, Inv, SessionOK, StatementFits
<1>2. CASE Raise(s, "INTERNAL_ERROR")
  BY <1>2, RaisePreserves DEF Problems
<1>3. CASE ~Raise(s, "INTERNAL_ERROR")
  <2>1. writes' = [writes EXCEPT ![s] = pending] /\ writes'[s] = pending
    BY <1>1, <1>3 DEF InsertAudit, TypeOK
  <2>2. /\ Goto(s, "Commit") /\ pc'[s] = "Commit"
        /\ UNCHANGED <<database, operation, held, local, outcome>>
    BY <1>1, <1>3 DEF InsertAudit, Goto, TypeOK
  <2>3. WritesOK(s)'
    BY <1>1, <2>1 DEF TypeOK, WritesOK, NoWrites
  <2>4. StatementFits(s)' /\ RevisionIsNext(s)' /\ NothingPending(s)'
    BY <1>1, <2>1, <2>2
    DEF TypeOK, WritesOK, NoWrites, SessionOK, StatementFits, RevisionIsNext,
        NothingPending, Authorized, Target, database
  <2>5. Authorized(s) /\ "Commit" \in Statements
    BY <1>1 DEF Authorized, Statements
  <2> QED
    BY <2>1, <2>2, <2>3, <2>4, <2>5, WritingStep
<1> QED
  BY <1>2, <1>3

(* A step that reads into local data, without the four fields that         *)
(* authorization depends on.                                               *)
LEMMA ReadingStep ==
  ASSUME Inv, NEW s \in Sessions, Authorized(s),
         UNCHANGED <<database, operation, writes, outcome>>,
         NEW statement \in Statements
           \ {"LockWorkspaceContext", "LockConnection", "Authorize"},
         Goto(s, statement),
         NEW rows \in SUBSET Rows,
         held' = held \/ Hold(s, rows),
         NEW read \in LocalStates, local' = [local EXCEPT ![s] = read],
         read.role = local[s].role,
         read.workspaceStatus = local[s].workspaceStatus,
         read.mode = local[s].mode,
         read.status = local[s].status,
         StatementFits(s)', RevisionIsNext(s)'
  PROVE  Inv'
<1>1. pc[s] # "idle" /\ TypeOK /\ SessionOK(s) /\ pc'[s] = statement
  BY DEF Authorized, Inv, Goto, TypeOK
<1>2. /\ local' \in [Sessions -> LocalStates] /\ local'[s] = read
      /\ \A t \in Sessions \ {s} : local'[t] = local[t]
  BY <1>1 DEF TypeOK
<1>3. DOMAIN writes' = Sessions /\ WritesOK(s)'
  BY <1>1 DEF TypeOK, WritesOK
<1>4. NothingPending(s)'
  BY <1>1 DEF SessionOK, NothingPending, Statements
<1> QED
  BY <1>2, <1>3, <1>4, AuthorizedStep

LEMMA FetchConnectionPreserves ==
  ASSUME Inv, NEW s \in Sessions, FetchConnection(s)
  PROVE  Inv'
<1> DEFINE before == [name |-> ViewRow(s).name, mode |-> ViewRow(s).mode,
                      projects |-> ViewAccess(s)]
           read == [local[s] EXCEPT !.before = before]
<1>1. /\ pc[s] = "FetchConnection" /\ TypeOK /\ SessionOK(s)
      /\ operation[s].kind \in {"RENAME", "REPLACE_ACCESS"}
      /\ local[s] \in LocalStates
  BY DEF FetchConnection, Inv, SessionOK, StatementFits, TypeOK
<1>2. InConnection(s) /\ Authorized(s)
  BY <1>1 DEF InConnection, Authorized, CreationKinds
<1>3. CASE Raise(s, "INTERNAL_ERROR")
  BY <1>3, RaisePreserves DEF Problems
<1>4. CASE ~Raise(s, "INTERNAL_ERROR")
  <2>1. ViewRow(s) \in ConnectionRows /\ ViewAccess(s) \in SUBSET Projects
    BY <1>2, ViewIsRow
  <2>2. /\ read \in LocalStates /\ read.role = local[s].role
        /\ read.workspaceStatus = local[s].workspaceStatus
        /\ read.mode = local[s].mode /\ read.status = local[s].status
    BY <1>1, <2>1 DEF LocalStates, ConnectionRows
  <2>3. local' = [local EXCEPT ![s] = read]
    BY <1>1, <1>4 DEF FetchConnection
  <2>4. PICK statement \in {"RenameConnection", "LockSelectedProjects"} :
          /\ Goto(s, statement)
          /\ statement = "RenameConnection" <=> operation[s].kind = "RENAME"
    BY <1>4 DEF FetchConnection
  <2>5. /\ pc'[s] = statement
        /\ UNCHANGED <<database, operation, held, writes, outcome>>
    BY <1>1, <1>4, <2>4 DEF FetchConnection, Goto, TypeOK
  <2>6. StatementFits(s)' /\ RevisionIsNext(s)'
    BY <1>1, <2>4, <2>5
    DEF SessionOK, StatementFits, RevisionIsNext, Authorized, Target, database
  <2>7. statement \in Statements
    BY DEF Statements
  <2> QED
    BY <1>2, <2>2, <2>3, <2>4, <2>5, <2>6, <2>7, ReadingStep
<1> QED
  BY <1>3, <1>4

LEMMA LockDraftPreserves ==
  ASSUME Inv, NEW s \in Sessions, LockDraft(s)
  PROVE  Inv'
<1> DEFINE compiled == Canonicalize[drafts[Target(s)]]
           read == [local[s] EXCEPT !.compiled = compiled]
           rows == {DraftRow(Target(s))}
<1>1. /\ pc[s] = "LockDraft" /\ TypeOK /\ SessionOK(s) /\ Authorized(s)
      /\ Target(s) \in Connections /\ operation[s].kind = "PUBLISH"
      /\ local[s] \in LocalStates
  BY RunningRequest
  DEF LockDraft, Inv, SessionOK, StatementFits, TypeOK, Authorized
<1>2. CASE Raise(s, "REQUEST_VALIDATION_FAILED")
  BY <1>2, RaisePreserves DEF Problems
<1>3. CASE ~Raise(s, "REQUEST_VALIDATION_FAILED")
  <2>1. drafts[Target(s)] \in Configurations
    BY <1>1 DEF LockDraft, TypeOK
  <2>2. compiled \in Configurations
    BY <1>3, <2>1, CanonicalizeAssumption DEF LockDraft
  <2>3. /\ read \in LocalStates /\ read.role = local[s].role
        /\ read.workspaceStatus = local[s].workspaceStatus
        /\ read.mode = local[s].mode /\ read.status = local[s].status
        /\ read.compiled = compiled
    BY <1>1, <2>2 DEF LocalStates
  <2>4. local' = [local EXCEPT ![s] = read] /\ local'[s] = read
    BY <1>1, <1>3 DEF LockDraft, TypeOK
  <2>5. /\ Hold(s, rows) /\ rows \in SUBSET Rows
        /\ Goto(s, "NextRevisionNumber") /\ pc'[s] = "NextRevisionNumber"
        /\ UNCHANGED <<database, operation, writes, outcome>>
    BY <1>1, <1>3, RowsAreRows DEF LockDraft, Goto, TypeOK
  <2>6. StatementFits(s)' /\ RevisionIsNext(s)'
    BY <1>1, <2>2, <2>3, <2>4, <2>5
    DEF SessionOK, StatementFits, RevisionIsNext, Authorized, Target, database
  <2>7. "NextRevisionNumber" \in Statements
    BY DEF Statements
  <2> QED
    BY <1>1, <2>3, <2>4, <2>5, <2>6, <2>7, ReadingStep
<1> QED
  BY <1>2, <1>3

(* The unlocked MAX + 1 is the next number: the history has no gap, and    *)
(* the lock on the connection keeps it as it is.                           *)
LEMMA NextRevisionNumberPreserves ==
  ASSUME Inv, NEW s \in Sessions, NextRevisionNumber(s)
  PROVE  Inv'
<1> DEFINE history == revisions[Target(s)]
           read == [local[s] EXCEPT !.number = NextNumber(history)]
<1>1. /\ pc[s] = "NextRevisionNumber" /\ TypeOK /\ SessionOK(s)
      /\ Target(s) \in Connections /\ operation[s].kind = "PUBLISH"
      /\ local[s] \in LocalStates /\ Authorized(s)
  BY RunningRequest
  DEF NextRevisionNumber, Inv, SessionOK, StatementFits, TypeOK, Authorized
<1>2. NextNumber(history) = Cardinality(history) + 1
  BY <1>1, NextNumberOfGapless DEF Inv, RevisionHistoryGapless
<1>3. NextNumber(history) \in Nat
  BY <1>1, <1>2, FS_CardinalityType DEF Inv, RevisionHistoryGapless, Gapless
<1>4. /\ read \in LocalStates /\ read.role = local[s].role
      /\ read.workspaceStatus = local[s].workspaceStatus
      /\ read.mode = local[s].mode /\ read.status = local[s].status
      /\ read.compiled = local[s].compiled
      /\ read.number = NextNumber(history)
  BY <1>1, <1>3 DEF LocalStates
<1>5. local' = [local EXCEPT ![s] = read] /\ local'[s] = read
  BY <1>1 DEF NextRevisionNumber, TypeOK
<1>6. /\ Goto(s, "InsertRevision") /\ pc'[s] = "InsertRevision"
      /\ UNCHANGED <<database, operation, held, writes, outcome>>
  BY <1>1 DEF NextRevisionNumber, Goto, TypeOK
<1>7. StatementFits(s)' /\ RevisionIsNext(s)'
  BY <1>1, <1>2, <1>4, <1>5, <1>6
  DEF SessionOK, StatementFits, RevisionIsNext, Authorized, Target, database
<1>8. "InsertRevision" \in Statements
  BY DEF Statements
<1> QED
  BY <1>1, <1>4, <1>5, <1>6, <1>7, <1>8, ReadingStep

-----------------------------------------------------------------------------
(* The steps that end a request by an exception. *)

(* An authorizer raises one of its three refusals or lets the request on.  *)
LEMMA AuthorizeAnswers ==
  ASSUME NEW op, op.kind \in Kinds, NEW context
  PROVE  Authorize(op, context) \in Refusals \cup {"AUTHORIZED"}
BY DEF Authorize, Kinds, CreationKinds, LifecycleActions, FirstRefusal,
       Refusals, AuthorizeProjectCreation, AuthorizeCreation,
       AuthorizeAccess, AuthorizeLifecycle, AuthorizeAuthoring

LEMMA FailurePreserves ==
  ASSUME Inv, NEW s \in Sessions,
         \/ WorkspaceNotFound(s) \/ ConnectionNotFound(s) \/ Refuse(s)
         \/ ProjectNotFound(s) \/ RejectDraft(s) \/ DraftMissing(s) \/ Abort(s)
  PROVE  Inv'
<1>1. CASE Refuse(s)
  <2>1. operation[s].kind \in Kinds
    BY <1>1, RunningRequest DEF Refuse, Inv
  <2>2. Authorize(operation[s], local[s]) \in Problems
    BY <1>1, <2>1, AuthorizeAnswers DEF Refuse, Problems
  <2> QED
    BY <1>1, <2>2, RaisePreserves DEF Refuse
<1>2. CASE WorkspaceNotFound(s)
  BY <1>2, RaisePreserves DEF WorkspaceNotFound, Problems
<1>3. CASE ConnectionNotFound(s)
  BY <1>3, RaisePreserves DEF ConnectionNotFound, Problems
<1>4. CASE ProjectNotFound(s)
  BY <1>4, RaisePreserves DEF ProjectNotFound, Problems
<1>5. CASE RejectDraft(s)
  BY <1>5, RaisePreserves DEF RejectDraft, Problems
<1>6. CASE DraftMissing(s)
  BY <1>6, RaisePreserves DEF DraftMissing, Problems, Refusals
<1>7. CASE Abort(s)
  BY <1>7, RaisePreserves DEF Abort
<1> QED
  BY <1>1, <1>2, <1>3, <1>4, <1>5, <1>6, <1>7

-----------------------------------------------------------------------------
(* A request arrives. *)

LEMMA BeginPreserves ==
  ASSUME Inv, NEW s \in Sessions, NEW op \in Operations, Begin(s, op)
  PROVE  Inv'
<1>1. /\ operation[s] = None /\ pc[s] = "idle" /\ TypeOK /\ SessionOK(s)
      /\ local[s] = NoLocal /\ op # None /\ op \in OperationRecords
  BY NoneAssumption, OperationsAssumption
  DEF Begin, Running, Inv, TypeOK, SessionOK, IdleHasNothing
<1>2. /\ operation' = [operation EXCEPT ![s] = op] /\ operation'[s] = op
      /\ Goto(s, "LockWorkspaceContext") /\ pc'[s] = "LockWorkspaceContext"
      /\ UNCHANGED <<database, held, local, writes>>
      /\ Fresh(op)
  BY <1>1 DEF Begin, Goto, TypeOK
<1>3. \A t \in Sessions \ {s} : operation'[t] = operation[t] /\ pc'[t] = pc[t]
  BY <1>1, <1>2 DEF Goto, TypeOK
<1>4. TypeOK'
  <2>1. /\ operation' \in [Sessions -> Operations \cup {None}]
        /\ pc' \in [Sessions -> Statements \cup {"idle"}]
        /\ outcome' \in [Sessions -> Problems \cup {None, "SUCCEEDED", "ABORTED"}]
    BY <1>1, <1>2 DEF Begin, TypeOK, Goto, Statements
  <2>2. \A t \in Sessions : pc'[t] = "idle" <=> operation'[t] = None
    BY <1>1, <1>2, <1>3 DEF TypeOK
  <2>3. \A t \in Sessions : WritesOK(t)'
    BY <1>1, <1>2 DEF TypeOK, WritesOK
  <2> QED
    BY <1>1, <1>2, <2>1, <2>2, <2>3 DEF TypeOK, database
<1>5. SessionOK(s)'
  <2>1. CreationIsFresh(s)'
    BY <1>1, <1>2
    DEF CreationIsFresh, Serves, Running, Target, Fresh, NoLocal, database
  <2>2. RevisionIsNext(s)' /\ NothingPending(s)'
    BY <1>1, <1>2 DEF SessionOK, RevisionIsNext, NothingPending
  <2> QED
    BY <1>2, <2>1, <2>2
    DEF SessionOK, StatementFits, ContextIsCurrent, ConnectionIsCurrent,
        InContext, InConnection, Authorized, IdleHasNothing
<1>6. \A t \in Sessions \ {s} : SessionOK(t)'
  BY <1>2, <1>3, OthersKeep DEF Inv
<1>7. LocksExclusive' /\ RevisionHistoryGapless'
  BY <1>2 DEF Inv, LocksExclusive, RevisionHistoryGapless, database
<1>8. FreshTargets'
  <2>1. \A t \in Sessions \ {s} :
          Serves(s, "CREATE_CONNECTION")' /\ Serves(t, "CREATE_CONNECTION")
            => Target(t) # Target(s)'
    BY <1>2 DEF Fresh, Serves, Running, Target
  <2> QED
    BY <1>3, <2>1 DEF Inv, FreshTargets, Serves, Running, Target
<1> QED
  BY <1>4, <1>5, <1>6, <1>7, <1>8 DEF Inv

-----------------------------------------------------------------------------
(* A transaction commits. *)

(* The rows a transaction installs belong to no other session: whoever has *)
(* locked the same connection, or is creating it, excludes the commit.     *)
LEMMA CommitTouchesNoOther ==
  ASSUME Inv, NEW s \in Sessions, Commit(s), NEW t \in Sessions \ {s},
         \/ InConnection(t)
         \/ Serves(t, "CREATE_CONNECTION")
  PROVE  /\ connection'[Target(t)] = connection[Target(t)]
         /\ InConnection(t) =>
              /\ projectAccess'[Target(t)] = projectAccess[Target(t)]
              /\ revisions'[Target(t)] = revisions[Target(t)]
<1> DEFINE c == Target(s)
<1>1. /\ pc[s] = "Commit" /\ TypeOK /\ SessionOK(s) /\ SessionOK(t)
      /\ operation[s].kind \in Kinds /\ Running(s) /\ Authorized(s)
  BY RunningRequest DEF Commit, Inv, Authorized
<1>2. /\ connection' = Installed(connection, c, writes[s].row)
      /\ projectAccess' = [projectAccess EXCEPT ![c] =
           (@ \ writes[s].revoked) \cup writes[s].granted]
      /\ revisions' = IF writes[s].revision = None THEN revisions
           ELSE [revisions EXCEPT ![c] = @ \cup {writes[s].revision}]
  BY DEF Commit
<1>3. CASE Target(t) # c
  <2>1. connection'[Target(t)] = connection[Target(t)]
    BY <1>1, <1>2, <1>3 DEF Installed, TypeOK
  <2>2. revisions'[Target(t)] = revisions[Target(t)]
    BY <1>1, <1>2, <1>3 DEF TypeOK
  <2>3. projectAccess'[Target(t)] = projectAccess[Target(t)]
    BY <1>1, <1>2, <1>3 DEF TypeOK
  <2> QED
    BY <2>1, <2>2, <2>3
<1>4. CASE operation[s].kind = "CREATE_PROJECT"
  <2>1. /\ writes[s].row = None /\ writes[s].revision = None
        /\ writes[s].revoked = {} /\ writes[s].granted = {}
    BY <1>1, <1>4 DEF SessionOK, NothingPending
  <2>2. connection' = connection /\ revisions' = revisions
    BY <1>2, <2>1 DEF Installed
  <2>3. projectAccess' = projectAccess
    BY <1>1, <1>2, <2>1 DEF TypeOK
  <2> QED
    BY <2>2, <2>3
<1>5. CASE Target(t) = c /\ operation[s].kind = "CREATE_CONNECTION"
  <2>1. connection[c] = None
    BY <1>1, <1>5 DEF SessionOK, CreationIsFresh, Serves
  <2> QED
    BY <1>1, <1>5, <2>1
    DEF SessionOK, ConnectionIsCurrent, Inv, FreshTargets, Serves
<1>6. CASE Target(t) = c /\ operation[s].kind \notin CreationKinds
  <2>1. ConnectionRow(c) \in held[s] /\ connection[c] # None
    BY <1>1, <1>6
    DEF SessionOK, ConnectionIsCurrent, InConnection
  <2>2. ConnectionRow(c) \notin held[t]
    BY <2>1 DEF Inv, LocksExclusive
  <2> QED
    BY <1>1, <1>6, <2>1, <2>2
    DEF SessionOK, ConnectionIsCurrent, CreationIsFresh
<1> QED
  BY <1>3, <1>4, <1>5, <1>6 DEF CreationKinds

LEMMA CommitPreserves ==
  ASSUME Inv, NEW s \in Sessions, Commit(s)
  PROVE  Inv'
<1> DEFINE c == Target(s)
           w == writes[s]
<1>1. /\ pc[s] = "Commit" /\ TypeOK /\ SessionOK(s) /\ WritesOK(s)
      /\ c \in Connections /\ operation[s].workspace \in Workspaces
  BY RunningRequest DEF Commit, Inv, TypeOK
<1>2. End(s, "SUCCEEDED") /\ UNCHANGED <<workspaceStatus, membership>>
  BY DEF Commit
<1>3. /\ \A t \in Sessions \ {s} :
           /\ operation'[t] = operation[t] /\ pc'[t] = pc[t]
           /\ held'[t] = held[t] /\ local'[t] = local[t]
           /\ writes'[t] = writes[t]
      /\ operation'[s] = None /\ pc'[s] = "idle" /\ held'[s] = {}
      /\ local'[s] = NoLocal /\ writes'[s] = NoWrites
  BY <1>1, <1>2 DEF End, TypeOK
<1>4. TypeOK'
  <2>1. connection' \in [Connections -> ConnectionRows \cup {None}]
    BY <1>1 DEF Commit, Installed, TypeOK, WritesOK
  <2>2. projectAccess' \in [Connections -> SUBSET Projects]
    BY <1>1 DEF Commit, TypeOK, WritesOK
  <2>3. drafts' \in [Connections -> Configurations \cup {None}]
    BY <1>1 DEF Commit, Installed, TypeOK, WritesOK
  <2>4. revisions' \in [Connections -> SUBSET Revisions]
    BY <1>1 DEF Commit, TypeOK, WritesOK
  <2>5. projectWorkspace' \in [Projects -> Workspaces \cup {None}]
    BY <1>1 DEF Commit, TypeOK, WritesOK
  <2>6. DOMAIN audited' = Connections
    BY <1>1 DEF Commit, TypeOK
  <2>7. /\ operation' \in [Sessions -> Operations \cup {None}]
        /\ pc' \in [Sessions -> Statements \cup {"idle"}]
        /\ held' \in [Sessions -> SUBSET Rows]
        /\ DOMAIN writes' = Sessions
        /\ outcome' \in [Sessions -> Problems \cup {None, "SUCCEEDED", "ABORTED"}]
    BY <1>1, <1>2 DEF End, TypeOK
  <2>8. local' \in [Sessions -> LocalStates]
    BY <1>1, <1>2 DEF End, TypeOK, NoLocal, NoImage, LocalStates
  <2>9. \A t \in Sessions : WritesOK(t)'
    BY <1>1, <1>3 DEF TypeOK, WritesOK, NoWrites
  <2>10. \A t \in Sessions : pc'[t] = "idle" <=> operation'[t] = None
    BY <1>1, <1>3 DEF TypeOK
  <2> QED
    BY <1>1, <1>2, <2>1, <2>2, <2>3, <2>4, <2>5, <2>6, <2>7, <2>8, <2>9, <2>10
    DEF TypeOK
<1>5. RevisionHistoryGapless'
  <2>1. CASE w.revision = None
    BY <2>1 DEF Commit, Inv, RevisionHistoryGapless
  <2>2. CASE w.revision # None
    <3>1. w.revision.number = Cardinality(revisions[c]) + 1
      BY <1>1, <2>2 DEF SessionOK, RevisionIsNext
    <3>2. Gapless(revisions[c] \cup {w.revision})
      BY <1>1, <3>1, GaplessGrows DEF Inv, RevisionHistoryGapless
    <3>3. revisions' = [revisions EXCEPT ![c] = @ \cup {w.revision}]
      BY <2>2 DEF Commit
    <3>4. \A d \in Connections : Gapless(revisions'[d])
      BY <1>1, <3>2, <3>3 DEF Inv, RevisionHistoryGapless, TypeOK
    <3> QED
      BY <3>4 DEF RevisionHistoryGapless
  <2> QED
    BY <2>1, <2>2
<1>6. LocksExclusive'
  BY <1>3 DEF Inv, LocksExclusive
<1>7. FreshTargets'
  BY <1>3 DEF Inv, FreshTargets, Serves, Running, Target
<1>8. SessionOK(s)'
  BY <1>3
  DEF SessionOK, StatementFits, ContextIsCurrent, ConnectionIsCurrent,
      CreationIsFresh, RevisionIsNext, NothingPending, IdleHasNothing,
      InContext, InConnection, Authorized, Serves, Running, NoWrites
<1>9. ASSUME NEW t \in Sessions \ {s}
      PROVE  SessionOK(t)'
  <2>1. SessionOK(t)
    BY DEF Inv
  <2>2. /\ InConnection(t) => /\ connection'[Target(t)] = connection[Target(t)]
                             /\ revisions'[Target(t)] = revisions[Target(t)]
        /\ Serves(t, "CREATE_CONNECTION") =>
             connection'[Target(t)] = connection[Target(t)]
    BY CommitTouchesNoOther
  <2>3. ContextIsCurrent(t)'
    BY <1>2, <1>3, <2>1 DEF SessionOK, ContextIsCurrent, InContext
  <2>4. ConnectionIsCurrent(t)' /\ CreationIsFresh(t)'
    BY <1>3, <2>1, <2>2
    DEF SessionOK, ConnectionIsCurrent, CreationIsFresh, InConnection, Serves,
        Running, Target
  <2>5. RevisionIsNext(t)'
    BY <1>3, <2>1, <2>2
    DEF SessionOK, RevisionIsNext, StatementFits, InConnection, Authorized,
        Target, CreationKinds
  <2> QED
    BY <1>3, <2>1, <2>3, <2>4, <2>5
    DEF SessionOK, StatementFits, NothingPending, IdleHasNothing, Authorized
<1> QED
  BY <1>4, <1>5, <1>6, <1>7, <1>8, <1>9 DEF Inv

-----------------------------------------------------------------------------
(* Authority is administered: never under the lock of a session. *)

LEMMA ChangeMembershipPreserves ==
  ASSUME Inv, NEW w \in Workspaces, NEW u \in Users, ChangeMembership(w, u)
  PROVE  Inv'
<1>1. /\ UNCHANGED <<workspaceStatus, projectWorkspace, connection,
                     projectAccess, drafts, revisions, audited, operation, pc,
                     held, local, writes, outcome>>
      /\ \A s \in Sessions : MembershipRow(w, u) \notin held[s]
  BY DEF ChangeMembership
<1>2. PICK role \in Roles \cup {None} :
        membership' = [membership EXCEPT ![w][u] = role]
  BY RolesOfAssumption DEF ChangeMembership
<1>3. /\ membership' \in [Workspaces -> [Users -> Roles \cup {None}]]
      /\ \A v \in Workspaces, x \in Users :
           <<v, x>> # <<w, u>> => membership'[v][x] = membership[v][x]
  BY <1>2 DEF Inv, TypeOK
<1>4. TypeOK'
  <2>1. \A s \in Sessions : WritesOK(s)'
    BY <1>1 DEF Inv, TypeOK, WritesOK
  <2> QED
    BY <1>1, <1>3, <2>1 DEF Inv, TypeOK
<1>5. ASSUME NEW s \in Sessions
      PROVE  SessionOK(s)'
  <2>1. SessionOK(s)
    BY DEF Inv
  <2>2. ContextIsCurrent(s)'
    <3>1. InContext(s) => /\ operation[s].workspace \in Workspaces
                          /\ operation[s].user \in Users
      BY RunningRequest DEF InContext, Inv
    <3> QED
      BY <1>1, <1>3, <2>1, <3>1
      DEF SessionOK, ContextIsCurrent, InContext, MembershipRow
  <2> QED
    BY <1>1, <2>1, <2>2
    DEF SessionOK, StatementFits, ConnectionIsCurrent, CreationIsFresh,
        RevisionIsNext, NothingPending, IdleHasNothing, InConnection,
        Authorized, Serves, Running, Target
<1>6. LocksExclusive' /\ FreshTargets' /\ RevisionHistoryGapless'
  BY <1>1
  DEF Inv, LocksExclusive, FreshTargets, RevisionHistoryGapless, Serves,
      Running, Target
<1> QED
  BY <1>4, <1>5, <1>6 DEF Inv

LEMMA ChangeWorkspaceStatusPreserves ==
  ASSUME Inv, NEW w \in Workspaces, ChangeWorkspaceStatus(w)
  PROVE  Inv'
<1>1. /\ UNCHANGED <<membership, projectWorkspace, connection,
                     projectAccess, drafts, revisions, audited, operation, pc,
                     held, local, writes, outcome>>
      /\ \A s \in Sessions : WorkspaceRow(w) \notin held[s]
  BY DEF ChangeWorkspaceStatus
<1>2. PICK status \in WorkspaceStatuses :
        workspaceStatus' = [workspaceStatus EXCEPT ![w] = status]
  BY StatusesSeenAssumption DEF ChangeWorkspaceStatus
<1>3. /\ workspaceStatus' \in [Workspaces -> WorkspaceStatuses]
      /\ \A v \in Workspaces \ {w} : workspaceStatus'[v] = workspaceStatus[v]
  BY <1>2 DEF Inv, TypeOK
<1>4. TypeOK'
  <2>1. \A s \in Sessions : WritesOK(s)'
    BY <1>1 DEF Inv, TypeOK, WritesOK
  <2> QED
    BY <1>1, <1>3, <2>1 DEF Inv, TypeOK
<1>5. ASSUME NEW s \in Sessions
      PROVE  SessionOK(s)'
  <2>1. SessionOK(s)
    BY DEF Inv
  <2>2. ContextIsCurrent(s)'
    <3>1. InContext(s) => operation[s].workspace \in Workspaces
      BY RunningRequest DEF InContext, Inv
    <3> QED
      BY <1>1, <1>3, <2>1, <3>1
      DEF SessionOK, ContextIsCurrent, InContext, WorkspaceRow
  <2> QED
    BY <1>1, <2>1, <2>2
    DEF SessionOK, StatementFits, ConnectionIsCurrent, CreationIsFresh,
        RevisionIsNext, NothingPending, IdleHasNothing, InConnection,
        Authorized, Serves, Running, Target
<1>6. LocksExclusive' /\ FreshTargets' /\ RevisionHistoryGapless'
  BY <1>1
  DEF Inv, LocksExclusive, FreshTargets, RevisionHistoryGapless, Serves,
      Running, Target
<1> QED
  BY <1>4, <1>5, <1>6 DEF Inv

-----------------------------------------------------------------------------
(* The invariant holds. *)

LEMMA InitEstablishes == Init => Inv
<1> SUFFICES ASSUME Init PROVE Inv
  OBVIOUS
<1> USE DEF Init
<1>1. TypeOK
  <2>1. local \in [Sessions -> LocalStates]
    BY DEF NoLocal, NoImage, LocalStates
  <2>2. \A s \in Sessions : WritesOK(s)
    BY DEF WritesOK, NoWrites
  <2> QED
    BY <2>1, <2>2, StatusesSeenAssumption, NoneAssumption DEF TypeOK
<1>2. RevisionHistoryGapless
  BY EmptyGapless DEF RevisionHistoryGapless
<1>3. LocksExclusive /\ FreshTargets
  BY DEF LocksExclusive, FreshTargets, Serves, Running
<1>4. \A s \in Sessions : SessionOK(s)
  BY DEF SessionOK, StatementFits, ContextIsCurrent, ConnectionIsCurrent,
         CreationIsFresh, RevisionIsNext, NothingPending, IdleHasNothing,
         InContext, InConnection, Authorized, Serves, Running, NoWrites
<1> QED
  BY <1>1, <1>2, <1>3, <1>4 DEF Inv

LEMMA StepPreserves ==
  ASSUME Inv, NEW s \in Sessions, Step(s)
  PROVE  Inv'
BY LockWorkspaceContextPreserves, LockConnectionPreserves, AdmitPreserves,
   InsertProjectPreserves, FetchConnectionPreserves, LockOneProjectPreserves,
   ValidateProjectsPreserves, InsertConnectionPreserves,
   RenameConnectionPreserves, DeleteProjectAccessPreserves,
   InsertProjectAccessPreserves, UpdateAccessModePreserves,
   UpdateLifecyclePreserves, UpsertDraftPreserves, LockDraftPreserves,
   NextRevisionNumberPreserves, InsertRevisionPreserves,
   ActivateDraftConnectionPreserves, InsertAuditPreserves, CommitPreserves,
   FailurePreserves
DEF Step

LEMMA NextPreserves == Inv /\ [Next]_vars => Inv'
<1> SUFFICES ASSUME Inv, [Next]_vars PROVE Inv'
  OBVIOUS
<1>1. CASE UNCHANGED vars
  <2>1. \A s \in Sessions : SessionOK(s)'
    BY <1>1, OthersKeep DEF Inv, vars
  <2>2. \A s \in Sessions : WritesOK(s)'
    BY <1>1 DEF Inv, TypeOK, WritesOK, vars
  <2> QED
    BY <1>1, <2>1, <2>2
    DEF Inv, TypeOK, RevisionHistoryGapless, LocksExclusive, FreshTargets,
        Serves, Running, Target, vars, database
<1>2. ASSUME NEW s \in Sessions, NEW op \in Operations, Begin(s, op)
      PROVE  Inv'
  BY <1>2, BeginPreserves
<1>3. ASSUME NEW s \in Sessions, Step(s) \/ Abort(s)
      PROVE  Inv'
  BY <1>3, StepPreserves, FailurePreserves
<1>4. ASSUME NEW w \in Workspaces, NEW u \in Users, ChangeMembership(w, u)
      PROVE  Inv'
  BY <1>4, ChangeMembershipPreserves
<1>5. ASSUME NEW w \in Workspaces, ChangeWorkspaceStatus(w)
      PROVE  Inv'
  BY <1>5, ChangeWorkspaceStatusPreserves
<1> QED
  BY <1>1, <1>2, <1>3, <1>4, <1>5 DEF Next

(* The inductive invariant: what a session has read under its row locks is *)
(* the state of the database until it ends.                                *)
THEOREM Invariance == Spec => []Inv
BY InitEstablishes, NextPreserves, PTL DEF Spec

(* Every variable keeps its type, for any number of sessions and requests. *)
THEOREM TypeCorrectness == Spec => []TypeOK
<1>1. Inv => TypeOK
  BY DEF Inv
<1> QED
  BY <1>1, Invariance, PTL

(* publish_revision numbers the revisions of every connection 1, 2, ...,   *)
(* whatever publications are in flight, roll back or race.                 *)
THEOREM RevisionHistoryHasNoGap == Spec => []RevisionHistoryGapless
<1>1. Inv => RevisionHistoryGapless
  BY DEF Inv
<1> QED
  BY <1>1, Invariance, PTL

-----------------------------------------------------------------------------
(* What a step may never do. *)

(* A request in flight has no outcome yet. *)
NoOutcomeYet == \A s \in Sessions : Running(s) => outcome[s] = None

(* A session commits, or fails, or goes on with its transaction. *)
LEMMA StepKinds ==
  ASSUME Inv, NEW s \in Sessions, Step(s) \/ Abort(s)
  PROVE  \/ Commit(s)
         \/ \E problem \in Problems \cup {"ABORTED"} : Raise(s, problem)
         \/ UNCHANGED <<database, operation, outcome>>
<1>1. CASE \/ LockWorkspaceContext(s) \/ LockConnection(s) \/ Admit(s)
           \/ InsertProject(s) \/ LockOneProject(s) \/ ValidateProjects(s)
           \/ InsertConnection(s) \/ DeleteProjectAccess(s)
           \/ UpsertDraft(s) \/ NextRevisionNumber(s)
  BY <1>1 DEF LockWorkspaceContext, LockConnection, Admit, InsertProject,
     LockOneProject, ValidateProjects, InsertConnection, DeleteProjectAccess,
     UpsertDraft, NextRevisionNumber
<1>2. CASE \/ RenameConnection(s) \/ UpdateAccessMode(s) \/ UpdateLifecycle(s)
           \/ ActivateDraftConnection(s)
  BY <1>2 DEF RenameConnection, UpdateAccessMode, UpdateLifecycle,
     ActivateDraftConnection, UpdateRow
<1>3. CASE \/ FetchConnection(s) \/ InsertProjectAccess(s) \/ LockDraft(s)
           \/ InsertRevision(s) \/ InsertAudit(s)
  BY <1>3 DEF FetchConnection, InsertProjectAccess, LockDraft, InsertRevision,
     InsertAudit, Problems
<1>4. CASE Refuse(s)
  <2>1. operation[s].kind \in Kinds
    BY <1>4, RunningRequest DEF Refuse, Inv
  <2> QED
    BY <1>4, <2>1, AuthorizeAnswers DEF Refuse, Problems
<1>5. CASE \/ WorkspaceNotFound(s) \/ ConnectionNotFound(s)
           \/ ProjectNotFound(s) \/ RejectDraft(s)
  BY <1>5 DEF WorkspaceNotFound, ConnectionNotFound, ProjectNotFound,
     RejectDraft, Problems
<1>6. CASE DraftMissing(s) \/ Abort(s)
  BY <1>6 DEF DraftMissing, Abort, Problems, Refusals
<1> QED
  BY <1>1, <1>2, <1>3, <1>4, <1>5, <1>6 DEF Step

LEMMA NoOutcomeYetPreserved ==
  ASSUME Inv, NoOutcomeYet, [Next]_vars
  PROVE  NoOutcomeYet'
<1>1. CASE UNCHANGED <<operation, outcome>>
  BY <1>1 DEF NoOutcomeYet, Running
<1>2. ASSUME NEW s \in Sessions, NEW op \in Operations, Begin(s, op)
      PROVE  NoOutcomeYet'
  BY <1>2 DEF Begin, NoOutcomeYet, Running, Inv, TypeOK
<1>3. ASSUME NEW s \in Sessions, NEW result, End(s, result)
      PROVE  NoOutcomeYet'
  BY <1>3 DEF End, NoOutcomeYet, Running, Inv, TypeOK
<1>4. ASSUME NEW s \in Sessions, Step(s) \/ Abort(s)
      PROVE  NoOutcomeYet'
  BY <1>1, <1>3, <1>4, StepKinds DEF Commit, Raise
<1> QED
  BY <1>1, <1>2, <1>4
  DEF Next, vars, ChangeMembership, ChangeWorkspaceStatus

(* Only the commit of s makes its request succeed. *)
LEMMA SuccessIsCommit ==
  ASSUME Inv, NoOutcomeYet, [Next]_vars, NEW s \in Sessions, Commits(s)
  PROVE  Commit(s)
<1>1. Running(s) /\ outcome[s] = None /\ outcome'[s] = "SUCCEEDED"
  BY DEF Commits, NoOutcomeYet
<1>2. outcome'[s] # outcome[s]
  BY <1>1, NoneAssumption
<1>3. ASSUME NEW t \in Sessions, Step(t) \/ Abort(t)
      PROVE  Commit(s)
  <2>1. t = s
    BY <1>2, <1>3, StepKinds DEF Commit, Raise, End, Inv, TypeOK
  <2>2. ASSUME NEW problem \in Problems \cup {"ABORTED"}, Raise(s, problem)
        PROVE  FALSE
    BY <1>1, <2>2 DEF Raise, End, Inv, TypeOK, Problems, Refusals
  <2> QED
    BY <1>2, <1>3, <2>1, <2>2, StepKinds
<1>4. ASSUME NEW t \in Sessions, NEW op \in Operations, Begin(t, op)
      PROVE  FALSE
  BY <1>1, <1>2, <1>4 DEF Begin, Inv, TypeOK
<1> QED
  BY <1>2, <1>3, <1>4
  DEF Next, vars, ChangeMembership, ChangeWorkspaceStatus

LEMMA CommitHasAuthority ==
  ASSUME Inv, NEW s \in Sessions, Commit(s)
  PROVE  CommitIsAuthorized(s)
<1> DEFINE op == operation[s]
           row == connection[Target(s)]
           exists == op.kind \notin CreationKinds
           now == [role |-> membership[op.workspace][op.user],
                   workspaceStatus |-> workspaceStatus[op.workspace],
                   mode |-> IF exists THEN row.mode ELSE None,
                   status |-> IF exists THEN row.status ELSE None]
<1>1. pc[s] = "Commit" /\ SessionOK(s) /\ Running(s)
  BY RunningRequest DEF Commit, Inv
<1>2. /\ membership[op.workspace][op.user] # None
      /\ local[s].role = now.role
      /\ local[s].workspaceStatus = now.workspaceStatus
  BY <1>1 DEF SessionOK, ContextIsCurrent, InContext
<1>3. /\ exists => row # None /\ row.workspace = op.workspace
      /\ local[s].mode = now.mode /\ local[s].status = now.status
  BY <1>1
  DEF SessionOK, ConnectionIsCurrent, InConnection, CreationIsFresh
<1>4. Authorize(op, now) = Authorize(op, local[s])
  BY <1>2, <1>3, AuthorizeReadsFourFields
<1>5. Authorize(op, local[s]) = "AUTHORIZED"
  BY <1>1 DEF SessionOK, Authorized
<1> QED
  BY <1>2, <1>3, <1>4, <1>5 DEF CommitIsAuthorized, Target

(* Nothing changes the authority, the workspace or the connection that a   *)
(* mutation was authorized by until the mutation has committed.            *)
THEOREM AuthorityOutlivesAuthorization == Spec => AuthorityHoldsAtCommit
<1>1. Init => NoOutcomeYet
  BY DEF Init, NoOutcomeYet
<1>2. Inv /\ NoOutcomeYet /\ [Next]_vars => NoOutcomeYet'
  BY NoOutcomeYetPreserved
<1>3. Inv /\ NoOutcomeYet /\ [Next]_vars
        => [\A s \in Sessions : Commits(s) => CommitIsAuthorized(s)]_vars
  BY SuccessIsCommit, CommitHasAuthority
<1> QED
  BY <1>1, <1>2, <1>3, Invariance, PTL DEF Spec, AuthorityHoldsAtCommit

(* Every request for an archived connection is refused. *)
LEMMA ArchivedIsRefused ==
  ASSUME NEW op, op.kind \in Kinds \ CreationKinds,
         NEW context, context.status = "ARCHIVED"
  PROVE  Authorize(op, context) # "AUTHORIZED"
<1> USE DEF FirstRefusal
<1>1. CASE op.kind = "REPLACE_ACCESS"
  <2>1. Authorize(op, context) = AuthorizeAccess(context, op.access)
    BY <1>1 DEF Authorize, LifecycleActions
  <2> QED
    BY <2>1 DEF AuthorizeAccess, ConnectionAllowsAccessReplacement
<1>2. CASE op.kind \in LifecycleActions
  <2>1. Authorize(op, context) = AuthorizeLifecycle(context, op.kind)
    BY <1>2 DEF Authorize, LifecycleActions
  <2> QED
    BY <2>1 DEF AuthorizeLifecycle, LifecycleTransitionAllowed
<1>3. CASE op.kind \in {"RENAME", "PUT_DRAFT", "PUBLISH"}
  <2>1. Authorize(op, context) = AuthorizeAuthoring(context)
    BY <1>3 DEF Authorize, LifecycleActions
  <2> QED
    BY <2>1 DEF AuthorizeAuthoring, ConnectionAllowsAuthoring
<1> QED
  BY <1>1, <1>2, <1>3 DEF Kinds

LEMMA CommitSparesArchived ==
  ASSUME Inv, NEW s \in Sessions, Commit(s), NEW c \in Connections
  PROVE  StaysArchived(c)
<1> SUFFICES ASSUME connection[c] # None, connection[c].status = "ARCHIVED"
             PROVE  UNCHANGED <<connection[c], projectAccess[c], drafts[c],
                                revisions[c], audited[c]>>
  BY DEF StaysArchived
<1>1. /\ pc[s] = "Commit" /\ TypeOK /\ SessionOK(s) /\ Running(s)
      /\ operation[s].kind \in Kinds
  BY RunningRequest DEF Commit, Inv
<1>2. CASE Target(s) # c
  BY <1>1, <1>2 DEF Commit, Installed, TypeOK
<1>3. CASE operation[s].kind = "CREATE_PROJECT"
  BY <1>1, <1>3 DEF Commit, Installed, TypeOK, SessionOK, NothingPending
<1>4. CASE Target(s) = c /\ operation[s].kind # "CREATE_PROJECT"
  <2>1. operation[s].kind \notin CreationKinds
    BY <1>1, <1>4 DEF SessionOK, CreationIsFresh, Serves, CreationKinds
  <2>2. local[s].status = "ARCHIVED"
    BY <1>1, <1>4, <2>1 DEF SessionOK, ConnectionIsCurrent, InConnection
  <2>3. Authorize(operation[s], local[s]) = "AUTHORIZED"
    BY <1>1 DEF SessionOK, Authorized
  <2> QED
    BY <1>1, <2>1, <2>2, <2>3, ArchivedIsRefused
<1> QED
  BY <1>2, <1>3, <1>4

LEMMA NextSparesArchived ==
  ASSUME Inv, [Next]_vars, NEW c \in Connections
  PROVE  StaysArchived(c)
<1>1. CASE UNCHANGED <<connection, projectAccess, drafts, revisions, audited>>
  BY <1>1 DEF StaysArchived
<1>2. ASSUME NEW s \in Sessions, Step(s) \/ Abort(s)
      PROVE  StaysArchived(c)
  BY <1>1, <1>2, StepKinds, CommitSparesArchived DEF Raise, database
<1> QED
  BY <1>1, <1>2
  DEF Next, Begin, vars, database, ChangeMembership, ChangeWorkspaceStatus

(* ARCHIVED is terminal for every interleaving, including requests that    *)
(* were authorized while the archival was in flight.                       *)
THEOREM ArchivedNeverChanges == Spec => ArchivedIsTerminal
<1>1. Inv /\ [Next]_vars => [\A c \in Connections : StaysArchived(c)]_vars
  BY NextSparesArchived
<1> QED
  BY <1>1, Invariance, PTL DEF Spec, ArchivedIsTerminal
=============================================================================
