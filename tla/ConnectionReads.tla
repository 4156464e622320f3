---------------------------- MODULE ConnectionReads ----------------------------
(***************************************************************************)
(* The reads of connections and projects while the registry changes.  A    *)
(* read takes no locks: it is one statement that joins the membership      *)
(* (lists and details), or three statements of one READ COMMITTED          *)
(* transaction, each with a snapshot of its own (drafts and revisions).  A *)
(* client walks a list page by page, each page a request of its own.       *)
(*                                                                         *)
(* Writers are the atomic steps of ConnectionRegistry, which               *)
(* ConnectionTransactions implements.                                      *)
(***************************************************************************)
EXTENDS ConnectionRegistry

CONSTANTS
  Readers,        \* clients that read
  ReadRequests,   \* what they ask for in this instance
  PageLimit,      \* the limit they ask for
  Rank,           \* the order of the uuids of connections and projects
  Instants,       \* values of now() in this instance
  RolesOf,        \* the roles (or None) each user may be given
  StatusesSeen,   \* the statuses a workspace may be given
  MaxRevisions    \* bound: publications of one connection

Listings == {"LIST_CONNECTIONS", "LIST_PROJECTS", "LIST_REVISIONS"}
Details == {"GET_CONNECTION", "GET_PROJECT", "GET_DRAFT", "GET_REVISION"}

ReadRequestRecords ==
  [kind : Listings \cup Details, user : Users, workspace : Workspaces,
   connection : Connections, project : Projects, number : Nat]

ASSUME ReadRequestsAssumption == ReadRequests \subseteq ReadRequestRecords
ASSUME PageLimitAssumption == PageLimit \in 1..100
ASSUME RankAssumption ==
  /\ Rank \in [Connections \cup Projects -> Nat]
  /\ \A x, y \in Connections \cup Projects : Rank[x] = Rank[y] => x = y
  /\ Connections \cap Projects = {}
ASSUME InstantsAssumption == Instants \subseteq Nat
ASSUME AbsenceAssumption ==
  None \notin Nat \cup {"DELIVERED"} \cup ReadRequests
            \cup [at : Instants, id : Connections \cup Projects]

VARIABLES
  createdAt,   \* created_at of connections and projects, or None
  read         \* what each client is reading

readVars == <<vars, createdAt, read>>

-----------------------------------------------------------------------------
(* The rows a listing goes through, newest first. *)
Listed(q) ==
  CASE q.kind = "LIST_CONNECTIONS" ->
         {[at |-> createdAt[c], id |-> c] : c \in
            {c \in Connections : /\ connection[c] # None
                                 /\ connection[c].workspace = q.workspace}}
    [] q.kind = "LIST_PROJECTS" ->
         {[at |-> createdAt[p], id |-> p] : p \in
            {p \in Projects : projectWorkspace[p] = q.workspace}}
    [] q.kind = "LIST_REVISIONS" ->
         {revision.number : revision \in revisions[q.connection]}

(* Fault: the cursor is compared by created_at alone. *)
OlderByTime(q, a, b) ==
  IF q.kind = "LIST_REVISIONS" THEN a < b ELSE a.at < b.at

(* Fault: the comparison with the cursor is not strict. *)
OlderOrEqual(q, a, b) ==
  IF q.kind = "LIST_REVISIONS" THEN a <= b
  ELSE a.at < b.at \/ (a.at = b.at /\ Rank[a.id] <= Rank[b.id])

(* (created_at, id) < (cursor.created_at, cursor.id); revision_number <    *)
(* before_revision.                                                        *)
Older(q, a, b) ==
  IF q.kind = "LIST_REVISIONS" THEN a < b
  ELSE a.at < b.at \/ (a.at = b.at /\ Rank[a.id] < Rank[b.id])

(* ORDER BY created_at DESC, id DESC; revision_number DESC. *)
Newer(q, a, b) ==
  IF q.kind = "LIST_REVISIONS" THEN a > b
  ELSE a.at > b.at \/ (a.at = b.at /\ Rank[a.id] > Rank[b.id])

Beyond(q, cursor) ==
  {x \in Listed(q) : cursor = None \/ Older(q, x, cursor)}

HasMore(rows) == Cardinality(rows) > PageLimit

(* The newest rows, at most PageLimit of them. *)
Visible(q, rows, items) ==
  /\ IF HasMore(rows) THEN Cardinality(items) = PageLimit ELSE items = rows
  /\ \A a \in items, b \in rows \ items : Newer(q, a, b)

(* Fault: the cursor is the extra row that was only fetched to see whether *)
(* there is more.                                                          *)
ResumesAfterExtraRow(q, rows, items, next) ==
  IF HasMore(rows)
  THEN next \in rows \ items /\ \A b \in rows \ items : ~Newer(q, b, next)
  ELSE next = None

(* LIMIT limit + 1: the extra row only tells that there is another page,   *)
(* which resumes after the last row shown.                                 *)
Resumes(q, rows, items, next) ==
  IF HasMore(rows)
  THEN next \in items /\ \A a \in items : ~Newer(q, next, a)
  ELSE next = None

-----------------------------------------------------------------------------
Idle == [request |-> None, step |-> "idle", role |-> None,
         workspaceStatus |-> None, status |-> None, cursor |-> None,
         delivered |-> {}, repeated |-> FALSE, promised |-> {},
         answer |-> None]

(* Lists and details of connections and projects are one statement. *)
FirstStep(q) ==
  IF q.kind \in {"LIST_CONNECTIONS", "LIST_PROJECTS", "GET_CONNECTION",
                 "GET_PROJECT"}
  THEN "Select" ELSE "ReadWorkspaceContext"

Request(r) == read[r].request
IsMember(q) == membership[q.workspace][q.user] # None

(* promised remembers, for the properties, what was committed before, and  *)
(* repeated whether a page has brought a row again.                        *)
BeginRead(r, q) ==
  /\ read[r].step = "idle"
  /\ read' = [read EXCEPT ![r] = [Idle EXCEPT
       !.request = q,
       !.step = FirstStep(q),
       !.promised = IF q.kind \in Listings THEN Listed(q) ELSE {}]]
  /\ UNCHANGED <<vars, createdAt>>

Reply(r, answer) ==
  /\ read' = [read EXCEPT ![r] = [@ EXCEPT !.step = "idle", !.answer = answer]]
  /\ UNCHANGED <<vars, createdAt>>

Deliver(r, item) ==
  /\ read' = [read EXCEPT ![r] = [@ EXCEPT !.step = "idle",
                                           !.answer = "DELIVERED",
                                           !.delivered = {item}]]
  /\ UNCHANGED <<vars, createdAt>>

(* With a cursor in the answer the client asks for the next page. *)
WithPage(reading, items, next) ==
  [reading EXCEPT
     !.delivered = @ \cup items,
     !.repeated = @ \/ reading.delivered \cap items # {},
     !.cursor = next,
     !.step = IF next = None THEN "idle" ELSE FirstStep(reading.request),
     !.answer = IF next = None THEN "DELIVERED" ELSE None]

DeliverPage(r) ==
  LET q == Request(r)
      rows == Beyond(q, read[r].cursor) IN
  /\ \E items \in SUBSET rows, next \in rows \cup {None} :
       /\ Visible(q, rows, items)
       /\ Resumes(q, rows, items, next)
       /\ read' = [read EXCEPT ![r] = WithPage(read[r], items, next)]
  /\ UNCHANGED <<vars, createdAt>>

-----------------------------------------------------------------------------
(* Reads of one statement. *)

ListPage(r) ==
  /\ read[r].step = "Select"
  /\ Request(r).kind \in {"LIST_CONNECTIONS", "LIST_PROJECTS"}
  /\ IF IsMember(Request(r)) THEN DeliverPage(r)
                             ELSE Reply(r, "WORKSPACE_NOT_FOUND")

GetConnection(r) ==
  LET q == Request(r) IN
  /\ read[r].step = "Select"
  /\ q.kind = "GET_CONNECTION"
  /\ IF ~IsMember(q) THEN Reply(r, "WORKSPACE_NOT_FOUND")
     ELSE IF ~Exists(q) THEN Reply(r, "CONNECTION_NOT_FOUND")
     ELSE Deliver(r, connection[q.connection])

GetProject(r) ==
  LET q == Request(r) IN
  /\ read[r].step = "Select"
  /\ q.kind = "GET_PROJECT"
  /\ IF ~IsMember(q) THEN Reply(r, "WORKSPACE_NOT_FOUND")
     ELSE IF projectWorkspace[q.project] # q.workspace
     THEN Reply(r, "PROJECT_NOT_FOUND")
     ELSE Deliver(r, q.project)

-----------------------------------------------------------------------------
(* Reads of three statements: membership, connection, data.  The service   *)
(* authorizes after the last one, by what the first two returned.          *)

ReadWorkspaceContext(r) ==
  LET q == Request(r) IN
  /\ read[r].step = "ReadWorkspaceContext"
  /\ IF ~IsMember(q) THEN Reply(r, "WORKSPACE_NOT_FOUND")
     ELSE /\ read' = [read EXCEPT ![r] = [@ EXCEPT
               !.role = membership[q.workspace][q.user],
               !.workspaceStatus = workspaceStatus[q.workspace],
               !.step = "ReadConnectionContext"]]
          /\ UNCHANGED <<vars, createdAt>>

ReadConnectionContext(r) ==
  LET q == Request(r) IN
  /\ read[r].step = "ReadConnectionContext"
  /\ IF ~Exists(q) THEN Reply(r, "CONNECTION_NOT_FOUND")
     ELSE /\ read' = [read EXCEPT ![r] = [@ EXCEPT
               !.status = connection[q.connection].status,
               !.step = "SelectRows"]]
          /\ UNCHANGED <<vars, createdAt>>

SelectDraft(r) ==
  LET c == Request(r).connection IN
  /\ read[r].step = "SelectRows"
  /\ Request(r).kind = "GET_DRAFT"
  /\ IF AuthorizeAuthoring(read[r]) # "AUTHORIZED"
     THEN Reply(r, AuthorizeAuthoring(read[r]))
     ELSE IF drafts[c] = None THEN Reply(r, "CONNECTION_STATE_CONFLICT")
     ELSE Deliver(r, drafts[c])

ListRevisions(r) ==
  /\ read[r].step = "SelectRows"
  /\ Request(r).kind = "LIST_REVISIONS"
  /\ DeliverPage(r)

(* Published configurations are for authors, in every lifecycle state. *)
GetRevision(r) ==
  LET q == Request(r)
      found == {revision \in revisions[q.connection] :
                  revision.number = q.number} IN
  /\ read[r].step = "SelectRows"
  /\ q.kind = "GET_REVISION"
  /\ IF ~CanAuthorConnections(read[r].role)
     THEN Reply(r, "WORKSPACE_PERMISSION_DENIED")
     ELSE IF found = {} THEN Reply(r, "CONNECTION_NOT_FOUND")
     ELSE \E revision \in found : Deliver(r, revision.configuration)

-----------------------------------------------------------------------------
(* A write.  created_at is the start of the creating transaction, so rows  *)
(* become visible in any order of created_at, and two may share one.       *)
Write(op) ==
  /\ op.kind = "PUBLISH" =>
       Cardinality(revisions[op.connection]) < MaxRevisions
  /\ Perform(op)
  /\ \E now \in Instants :
       createdAt' =
         CASE op.kind = "CREATE_CONNECTION" ->
                [createdAt EXCEPT ![op.connection] = now]
           [] op.kind = "CREATE_PROJECT" ->
                [createdAt EXCEPT ![op.project] = now]
           [] OTHER -> createdAt
  /\ UNCHANGED read

ChangeAuthority ==
  /\ Administer
  /\ \A w \in Workspaces, u \in Users : membership'[w][u] \in RolesOf[u]
  /\ \A w \in Workspaces : workspaceStatus'[w] \in StatusesSeen
  /\ UNCHANGED <<createdAt, read>>

ReadsInit ==
  /\ Init
  /\ \A w \in Workspaces : workspaceStatus[w] \in StatusesSeen
  /\ \A w \in Workspaces, u \in Users : membership[w][u] \in RolesOf[u]
  /\ projectWorkspace = [p \in Projects |-> None]
  /\ createdAt = [x \in Connections \cup Projects |-> None]
  /\ read = [r \in Readers |-> Idle]

ReadStep(r) ==
  \/ ListPage(r) \/ GetConnection(r) \/ GetProject(r)
  \/ ReadWorkspaceContext(r) \/ ReadConnectionContext(r)
  \/ SelectDraft(r) \/ ListRevisions(r) \/ GetRevision(r)

ReadsNext ==
  \/ \E op \in Operations : Write(op)
  \/ ChangeAuthority
  \/ \E r \in Readers, q \in ReadRequests : BeginRead(r, q)
  \/ \E r \in Readers : ReadStep(r)

(* A read waits for nobody, and the client goes on with the next page.     *)
ReadsSpec ==
  /\ ReadsInit /\ [][ReadsNext]_readVars
  /\ \A r \in Readers : WF_readVars(ReadStep(r))

-----------------------------------------------------------------------------
Walking(r) == Request(r) # None /\ Request(r).kind \in Listings
Finished(r) == Walking(r) /\ read[r].answer = "DELIVERED"

(* A walk over the connections or projects of a workspace returns every    *)
(* row committed before it began, and no row twice, although rows appear   *)
(* behind and ahead of the cursor and share timestamps with it.            *)
WalkIsComplete ==
  \A r \in Readers : Finished(r) =>
    /\ read[r].promised \subseteq read[r].delivered
    /\ ~read[r].repeated

(* The revision numbers a walk has returned have no gap, and a finished    *)
(* walk has counted down to 1, while revisions are published.              *)
RevisionWalkIsContiguous ==
  \A r \in Readers : Walking(r) /\ Request(r).kind = "LIST_REVISIONS" =>
    LET numbers == read[r].delivered IN
    numbers # {} =>
      /\ numbers = Min(numbers)..Max(numbers)
      /\ Finished(r) => Min(numbers) = 1

(* Every read ends, however long writers keep adding rows. *)
ReadsEnd ==
  \A r \in Readers : read[r].step # "idle" ~> read[r].step = "idle"

(* Repository reads are constrained by an active membership (ADR 0022):    *)
(* rows are read for a user who is a member at that moment.                *)
MembershipConstrainedReads ==
  [][\A r \in Readers :
       read'[r].delivered \ read[r].delivered # {}
         => IsMember(Request(r))]_readVars
=============================================================================
