---------------------------- MODULE TenantRequests ----------------------------
(***************************************************************************)
(* The life of an HTTP request in the control API, from the request        *)
(* context to the answer, with the requests about workspaces, GET /v1/me   *)
(* and the readiness probe.  A handler authenticates the bearer credential *)
(* with one query, gives its database connection back, and takes another   *)
(* one for the work itself; a creation inserts a workspace, its owner's    *)
(* membership and the audit event in one transaction.                      *)
(*                                                                         *)
(* What can go wrong on the way: a statement fails, the commit succeeds    *)
(* but its confirmation is lost, the pool is exhausted until its timeout,  *)
(* the answer does not reach the client, the process dies, and authority   *)
(* changes between any two steps.  A client that hears nothing may send    *)
(* the request again: there is no idempotency key (ADR 0020).              *)
(***************************************************************************)
EXTENDS Integers, FiniteSets

CONSTANTS
  Users,        \* internal users
  Sessions,     \* admitted auth sessions
  UserOf,       \* the user of each session
  Workspaces,   \* identifiers uuid7 may return
  Handlers,     \* requests served at the same time
  Requests,     \* the requests clients send in this instance
  PoolSize,     \* connections of the SQLAlchemy pool
  MaxRequests,  \* bound: requests sent
  None          \* no value: no credential, no answer

RequestIds == 1..MaxRequests
MemberStates == {"NONE", "OWNER", "VIEWER", "ENDED"}

(* credential is a session, or None for a bearer token that is missing or  *)
(* that the verifier rejects.                                              *)
RequestRecords ==
  [kind : {"CREATE", "LIST", "GET", "ME", "READYZ"},
   credential : Sessions \cup {None},
   form : {"valid", "invalid", "malformed"}, workspace : Workspaces]

ASSUME UserOfAssumption == UserOf \in [Sessions -> Users]
ASSUME RequestsAssumption == Requests \subseteq RequestRecords
ASSUME PoolSizeAssumption == PoolSize \in Nat \ {0}
ASSUME MaxRequestsAssumption == MaxRequests \in Nat
ASSUME NoneAssumption ==
  /\ None \notin Sessions \cup Requests \cup Users \cup Workspaces
  /\ None \notin [row : BOOLEAN, members : [Users -> MemberStates],
                  events : SUBSET [user : Users, request : RequestIds]]

VARIABLES
  live,        \* auth sessions that are neither revoked nor expired
  workspaces,  \* rows of app.workspaces
  membership,  \* newest row of app.workspace_memberships, by workspace, user
  events,      \* WORKSPACE_CREATED rows of app.audit_events
  handler,     \* the state of each handler
  sent,        \* requests sent so far; request_id is their number
  told         \* workspaces the clients of each user know to be created

database == <<live, workspaces, membership, events>>
vars == <<database, handler, sent, told>>

-----------------------------------------------------------------------------
(* The workspaces a user is an active member of. *)
Joined(memberships, user) ==
  {w \in Workspaces : memberships[w][user] \in {"OWNER", "VIEWER"}}

(* What a handler is doing.  Three fields only record: admitted, whether   *)
(* the session was live when the request arrived; resolved, what its user  *)
(* was a member of when he was authenticated; views, what he was a member  *)
(* of at the instants the answer to a read may be taken from, which are    *)
(* those between the connection for the work and the answer.               *)
Idle ==
  [request |-> None, id |-> 0, pc |-> "idle", connected |-> FALSE,
   user |-> None, new |-> None, answer |-> [code |-> "NONE", items |-> {}],
   admitted |-> FALSE, resolved |-> {}, views |-> {}]

Serving(h, pc) == handler[h].pc = pc
Kind(h) == handler[h].request.kind

Seen(x, memberships) ==
  IF x.pc = "Query" /\ x.user # None
  THEN [x EXCEPT !.views = @ \cup {Joined(memberships, x.user)}]
  ELSE x

(* The membership rows change for everybody who is about to read them.     *)
Observed(handlers, memberships) ==
  [h \in Handlers |-> Seen(handlers[h], memberships)]

Goto(h, pc) == handler' = [handler EXCEPT ![h].pc = pc]

Answered(h, code, items) ==
  [handler[h] EXCEPT !.pc = "Deliver", !.connected = FALSE,
                     !.answer = [code |-> code, items |-> items]]

(* The session block and the transaction block are left: what is not       *)
(* committed is gone and the connection goes back to the pool.             *)
Answer(h, code, items) ==
  /\ handler' = [handler EXCEPT ![h] = Answered(h, code, items)]
  /\ UNCHANGED <<database, sent, told>>

-----------------------------------------------------------------------------
(* RequestContextMiddleware gives every request an identifier of its own.  *)
Receive(h, request) ==
  /\ Serving(h, "idle")
  /\ sent < MaxRequests
  /\ sent' = sent + 1
  /\ handler' = [handler EXCEPT ![h] =
       [Idle EXCEPT !.request = request, !.id = sent + 1, !.pc = "Parse",
                    !.admitted = request.credential \in live]]
  /\ UNCHANGED <<database, told>>

(* FastAPI parses the JSON body before it runs any dependency. *)
RejectMalformed(h) ==
  /\ Serving(h, "Parse")
  /\ handler[h].request.form = "malformed"
  /\ Answer(h, "REQUEST_VALIDATION_FAILED", {})

(* require_bearer_token and the verifier need no database.  The probe is   *)
(* not authenticated.                                                      *)
Parse(h) ==
  /\ Serving(h, "Parse")
  /\ handler[h].request.form # "malformed"
  /\ \/ Kind(h) = "READYZ" /\ Goto(h, "Connect")
     \/ /\ Kind(h) # "READYZ" /\ handler[h].request.credential # None
        /\ Goto(h, "ConnectToAuthenticate")
  /\ UNCHANGED <<database, sent, told>>

RejectCredential(h) ==
  /\ Serving(h, "Parse")
  /\ handler[h].request.form # "malformed"
  /\ Kind(h) # "READYZ" /\ handler[h].request.credential = None
  /\ Answer(h, "AUTH_INVALID_CREDENTIALS", {})

Connected == {h \in Handlers : handler[h].connected}

FirstStatement(kind) ==
  CASE kind = "CREATE" -> "InsertWorkspace"
    [] kind \in {"LIST", "GET", "READYZ"} -> "Query"

(* The pool hands out at most PoolSize connections. *)
Connect(h) ==
  /\ handler[h].pc \in {"ConnectToAuthenticate", "Connect"}
  /\ Cardinality(Connected) < PoolSize
  /\ LET pc == IF Serving(h, "Connect") THEN FirstStatement(Kind(h))
               ELSE "ResolvePrincipal" IN
     handler' = [handler EXCEPT ![h] =
       Seen([@ EXCEPT !.connected = TRUE, !.pc = pc], membership)]
  /\ UNCHANGED <<database, sent, told>>

(* Fault: the principal's session stays open until the answer. *)
ResolvePrincipalKeepingConnection(h) ==
  LET session == handler[h].request.credential IN
  /\ Serving(h, "ResolvePrincipal")
  /\ IF session \in live
     THEN /\ handler' = [handler EXCEPT ![h].user = UserOf[session],
                                        ![h].pc = "Validate"]
          /\ UNCHANGED <<database, sent, told>>
     ELSE Answer(h, "AUTH_INVALID_CREDENTIALS", {})

ResolvePrincipal(h) ==
  LET session == handler[h].request.credential IN
  /\ Serving(h, "ResolvePrincipal")
  /\ IF session \in live
     THEN /\ handler' = [handler EXCEPT
               ![h].user = UserOf[session],
               ![h].resolved = Joined(membership, UserOf[session]),
               ![h].connected = FALSE, ![h].pc = "Validate"]
          /\ UNCHANGED <<database, sent, told>>
     ELSE Answer(h, "AUTH_INVALID_CREDENTIALS", {})

(* Path and body are validated after the dependencies have run.  GET       *)
(* /v1/me has all it needs then.                                           *)
Validate(h) ==
  /\ Serving(h, "Validate")
  /\ IF handler[h].request.form = "invalid"
     THEN Answer(h, "REQUEST_VALIDATION_FAILED", {})
     ELSE IF Kind(h) = "ME" THEN Answer(h, "OK", {})
     ELSE Goto(h, "Connect") /\ UNCHANGED <<database, sent, told>>

-----------------------------------------------------------------------------
(* create_owned_workspace. *)

(* uuid7 gives an identifier that nobody else has or is about to use. *)
Fresh ==
  {w \in Workspaces \ workspaces : \A h \in Handlers : handler[h].new # w}

(* Fault: the insert commits by itself. *)
InsertWorkspaceCommitted(h) ==
  /\ Serving(h, "InsertWorkspace")
  /\ \E w \in Fresh :
       /\ handler' = [handler EXCEPT ![h].new = w,
                                     ![h].pc = "InsertOwnerMembership"]
       /\ workspaces' = workspaces \cup {w}
  /\ UNCHANGED <<live, membership, events, sent, told>>

InsertWorkspace(h) ==
  /\ Serving(h, "InsertWorkspace")
  /\ \E w \in Fresh :
       handler' = [handler EXCEPT ![h].new = w,
                                  ![h].pc = "InsertOwnerMembership"]
  /\ UNCHANGED <<database, sent, told>>

InsertOwnerMembership(h) ==
  /\ Serving(h, "InsertOwnerMembership")
  /\ Goto(h, "InsertWorkspaceAudit")
  /\ UNCHANGED <<database, sent, told>>

InsertWorkspaceAudit(h) ==
  /\ Serving(h, "InsertWorkspaceAudit")
  /\ Goto(h, "Commit")
  /\ UNCHANGED <<database, sent, told>>

(* Fault: an error of the commit is swallowed.                             *)
CommitAlwaysConfirmed(confirmed) == TRUE

(* The exit of session.begin() raises unless the commit is confirmed. *)
Confirms(confirmed) == confirmed

(* The three rows appear together.  When the confirmation is lost, the     *)
(* handler cannot know whether they did.                                   *)
Commit(h) ==
  LET w == handler[h].new
      user == handler[h].user
      owned == [membership EXCEPT ![w][user] = "OWNER"] IN
  /\ Serving(h, "Commit")
  /\ \E committed, confirmed \in BOOLEAN :
       /\ confirmed => committed
       /\ IF committed
          THEN /\ workspaces' = workspaces \cup {w}
               /\ membership' = owned
               /\ events' = events \cup {[workspace |-> w, user |-> user,
                                          request |-> handler[h].id]}
          ELSE UNCHANGED <<workspaces, membership, events>>
       /\ LET answered ==
                [handler EXCEPT ![h] =
                   IF Confirms(confirmed) THEN Answered(h, "CREATED", {w})
                   ELSE Answered(h, "INTERNAL_ERROR", {})] IN
          handler' = Observed(answered, membership')
  /\ UNCHANGED <<live, sent, told>>

(* Memberships that have not ended, and a role that may read: all may. *)
Selected(user) ==
  {w \in Workspaces : membership[w][user] \in {"OWNER", "VIEWER"}}

(* Fault: the principal carries the memberships it was resolved with.      *)
QueryTrustingAuthentication(h) ==
  LET found == handler[h].resolved
      w == handler[h].request.workspace IN
  /\ Serving(h, "Query")
  /\ \/ Kind(h) = "LIST" /\ Answer(h, "OK", found)
     \/ Kind(h) = "GET" /\ w \in found /\ Answer(h, "OK", {w})
     \/ Kind(h) = "GET" /\ w \notin found
          /\ Answer(h, "WORKSPACE_NOT_FOUND", {})
     \/ Kind(h) = "READYZ" /\ Answer(h, "READY", {})

(* list_for_user, get_for_user and SELECT 1: one statement each. *)
Query(h) ==
  LET found == Selected(handler[h].user)
      w == handler[h].request.workspace IN
  /\ Serving(h, "Query")
  /\ \/ Kind(h) = "LIST" /\ Answer(h, "OK", found)
     \/ Kind(h) = "GET" /\ w \in found /\ Answer(h, "OK", {w})
     \/ Kind(h) = "GET" /\ w \notin found
          /\ Answer(h, "WORKSPACE_NOT_FOUND", {})
     \/ Kind(h) = "READYZ" /\ Answer(h, "READY", {})

(* is_ready catches what SQLAlchemy raises; another exception of the       *)
(* driver or the network escapes from it, as every exception does from the *)
(* other requests.                                                         *)
Failures(h) ==
  IF Kind(h) = "READYZ" THEN {"NOT_READY", "INTERNAL_ERROR"}
  ELSE {"INTERNAL_ERROR"}

(* A statement fails, the server cannot be reached, or the pool's timeout  *)
(* passes.                                                                 *)
Fail(h) ==
  /\ handler[h].pc \in {"ConnectToAuthenticate", "ResolvePrincipal",
                        "Connect", "InsertWorkspace", "InsertOwnerMembership",
                        "InsertWorkspaceAudit", "Query"}
  /\ \E code \in Failures(h) : Answer(h, code, {})

-----------------------------------------------------------------------------
(* The answer reaches the client, or is lost on the way: a client that     *)
(* goes away does not stop its handler.                                    *)
Deliver(h) ==
  /\ Serving(h, "Deliver")
  /\ told' = IF handler[h].answer.code = "CREATED"
             THEN [told EXCEPT ![handler[h].user] =
                     @ \cup handler[h].answer.items]
             ELSE told
  /\ handler' = [handler EXCEPT ![h] = Idle]
  /\ UNCHANGED <<database, sent>>

Lose(h) ==
  /\ Serving(h, "Deliver")
  /\ handler' = [handler EXCEPT ![h] = Idle]
  /\ UNCHANGED <<database, sent, told>>

(* The process dies: open transactions are rolled back. *)
Crash ==
  /\ \E h \in Handlers : ~Serving(h, "idle")
  /\ handler' = [h \in Handlers |-> Idle]
  /\ UNCHANGED <<database, sent, told>>

(* Outside these requests: authority is administered, sessions end. *)
ChangeMembership(w, user) ==
  /\ w \in workspaces
  /\ \E state \in {"VIEWER", "ENDED"} \ {membership[w][user]} :
       /\ state = "ENDED" => membership[w][user] # "NONE"
       /\ membership' = [membership EXCEPT ![w][user] = state]
  /\ handler' = Observed(handler, membership')
  /\ UNCHANGED <<live, workspaces, events, sent, told>>

EndSession(session) ==
  /\ session \in live
  /\ live' = live \ {session}
  /\ UNCHANGED <<workspaces, membership, events, handler, sent, told>>

-----------------------------------------------------------------------------
Init ==
  /\ live = Sessions
  /\ workspaces = {}
  /\ membership = [w \in Workspaces |-> [user \in Users |-> "NONE"]]
  /\ events = {}
  /\ handler = [h \in Handlers |-> Idle]
  /\ sent = 0
  /\ told = [user \in Users |-> {}]

Step(h) ==
  \/ RejectMalformed(h) \/ Parse(h) \/ RejectCredential(h)
  \/ Connect(h) \/ ResolvePrincipal(h) \/ Validate(h)
  \/ InsertWorkspace(h) \/ InsertOwnerMembership(h)
  \/ InsertWorkspaceAudit(h) \/ Commit(h) \/ Query(h) \/ Fail(h)
  \/ Deliver(h) \/ Lose(h)

Next ==
  \/ \E h \in Handlers, request \in Requests : Receive(h, request)
  \/ \E h \in Handlers : Step(h)
  \/ Crash
  \/ \E w \in Workspaces, user \in Users : ChangeMembership(w, user)
  \/ \E session \in Sessions : EndSession(session)

Spec == Init /\ [][Next]_vars

-----------------------------------------------------------------------------
(* Invariants. *)

Answers(h, code) == Serving(h, "Deliver") /\ handler[h].answer.code = code

Created(w, user, request) ==
  /\ w \in workspaces
  /\ [workspace |-> w, user |-> user, request |-> request] \in events

(* An answer says what is so, and goes on being so after every crash:      *)
(*   - 201 names a workspace that this very request has created, and a     *)
(*     client that was told keeps it;                                      *)
(*   - a request refused by validation, authentication or as not found has *)
(*     created nothing, only after INTERNAL_ERROR the client cannot know;  *)
(*   - a request sent after its session ended is not served.               *)
(* create_owned_workspace commits before it returns, and the authenticator *)
(* is asked anew by every request (api/dependencies/authentication.py:33). *)
AnswersAreTrue ==
  /\ \A h \in Handlers :
       /\ Answers(h, "CREATED") =>
            \A w \in handler[h].answer.items :
              Created(w, UserOf[handler[h].request.credential], handler[h].id)
       /\ \E code \in {"AUTH_INVALID_CREDENTIALS", "WORKSPACE_NOT_FOUND",
                       "REQUEST_VALIDATION_FAILED"} : Answers(h, code)
            => \A event \in events : event.request # handler[h].id
       /\ (\E code \in {"OK", "CREATED", "WORKSPACE_NOT_FOUND"} :
              Answers(h, code)) => handler[h].admitted
  /\ \A user \in Users : \A w \in told[user] :
       \E request \in RequestIds : Created(w, user, request)

(* A read answers from one instant after its connection for the work was   *)
(* taken: a list is exactly what its user was a member of then, a single   *)
(* workspace was his, one that is not found was not.  What authentication  *)
(* saw an instant before, in a transaction of its own, is not good enough  *)
(* if a membership has changed since; every creation he was told of before *)
(* is shown, and a workspace of others and one that does not exist are the *)
(* same 404 (workspace_repository.py:91, one joined statement).            *)
ReadsAreCurrent ==
  \A h \in Handlers :
    LET views == handler[h].views
        w == handler[h].request.workspace IN
    /\ Answers(h, "OK") /\ Kind(h) = "LIST" => handler[h].answer.items \in views
    /\ Answers(h, "OK") /\ Kind(h) = "GET" => \E view \in views : w \in view
    /\ Answers(h, "WORKSPACE_NOT_FOUND") => \E view \in views : w \notin view

(* A handler that waits for a database connection holds none, so waiting   *)
(* handlers never exhaust the pool they wait for: the principal's session  *)
(* is closed before the work begins (principal_repository.py:50).          *)
WaitersHoldNothing ==
  \A h \in Handlers :
    handler[h].pc \in {"Connect", "ConnectToAuthenticate"}
      => ~handler[h].connected

-----------------------------------------------------------------------------
(* The requests implement Tenancy: a tenant is what the three tables say   *)
(* of a workspace, rows without the others included.                       *)
EventsOf(w) ==
  {[user |-> event.user, request |-> event.request] :
     event \in {e \in events : e.workspace = w}}

Absent(w) ==
  /\ w \notin workspaces
  /\ EventsOf(w) = {}
  /\ \A user \in Users : membership[w][user] = "NONE"

tenants ==
  [w \in Workspaces |->
     IF Absent(w) THEN None
     ELSE [row |-> w \in workspaces, members |-> membership[w],
           events |-> EventsOf(w)]]

Tenants == INSTANCE Tenancy WITH tenant <- tenants

ImplementsTenancy == Tenants!Spec
=============================================================================
