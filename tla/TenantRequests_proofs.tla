------------------------- MODULE TenantRequests_proofs -------------------------
(***************************************************************************)
(* Theorems about the life of a request, for every number of users,        *)
(* sessions, workspaces, handlers, requests and pool connections.          *)
(***************************************************************************)
EXTENDS TenantRequests, TLAPS

-----------------------------------------------------------------------------
(* The inductive invariant.  It is stated of a handler's record, so that   *)
(* one lemma serves every step that changes only that record.              *)

Unauthenticated == {"Parse", "ConnectToAuthenticate", "ResolvePrincipal"}
Inserting == {"InsertWorkspace", "InsertOwnerMembership",
              "InsertWorkspaceAudit", "Commit"}
Authenticated == {"Validate", "Connect", "Query"} \cup Inserting
Labels == {"idle", "Deliver"} \cup Unauthenticated \cup Authenticated

Refusals == {"AUTH_INVALID_CREDENTIALS", "WORKSPACE_NOT_FOUND",
             "REQUEST_VALIDATION_FAILED"}
Codes == {"NONE", "OK", "CREATED", "READY", "NOT_READY", "INTERNAL_ERROR"}
           \cup Refusals

Records ==
  [request : Requests \cup {None}, id : Nat, pc : Labels,
   connected : BOOLEAN, user : Users \cup {None},
   new : Workspaces \cup {None},
   answer : [code : Codes, items : SUBSET Workspaces],
   admitted : BOOLEAN, resolved : SUBSET Workspaces,
   views : SUBSET (SUBSET Workspaces)]

Types ==
  /\ live \subseteq Sessions
  /\ workspaces \subseteq Workspaces
  /\ membership \in [Workspaces -> [Users -> MemberStates]]
  /\ events \subseteq
       [workspace : Workspaces, user : Users, request : RequestIds]
  /\ handler \in [Handlers -> Records]
  /\ sent \in 0..MaxRequests
  /\ told \in [Users -> SUBSET Workspaces]

(* Only a handler that is being served by the database has a connection.   *)
Frugal(x) ==
  x.connected => x.pc \in {"ResolvePrincipal", "Query"} \cup Inserting

(* The audit event of a request appears when it commits. *)
Identified(x) ==
  x.pc # "idle" =>
    /\ x.request \in Requests
    /\ x.id \in 1..sent
    /\ x.pc # "Deliver" => \A event \in events : event.request # x.id

(* Sessions only end: one that is live now was so when the request came.   *)
Admissible(x) ==
  x.pc \in Unauthenticated /\ x.request.credential \in live => x.admitted

ActsForSession(x) ==
  x.pc \in Authenticated /\ x.request.kind # "READYZ" =>
    /\ x.admitted
    /\ x.request.credential \in Sessions
    /\ x.user = UserOf[x.request.credential]

(* Which requests get where, and the row a creation is about to insert.    *)
OnItsWay(x) ==
  /\ x.pc \in {"ConnectToAuthenticate", "ResolvePrincipal", "Validate"} =>
       x.request.kind # "READYZ"
  /\ x.pc \in {"ConnectToAuthenticate", "ResolvePrincipal"} =>
       x.request.credential # None
  /\ x.pc = "Connect" => x.request.kind # "ME"
  /\ x.pc \in Inserting => x.request.kind = "CREATE"
  /\ x.pc \in Inserting \ {"InsertWorkspace"} =>
       x.new \in Workspaces \ workspaces

(* A read that is about to be answered has the present on record.          *)
Observant(x) ==
  x.pc = "Query" /\ x.user # None => Joined(membership, x.user) \in x.views

Truthful(x) ==
  x.pc = "Deliver" =>
    /\ x.answer.code = "CREATED" =>
         /\ x.user \in Users /\ x.user = UserOf[x.request.credential]
         /\ \A w \in x.answer.items : Created(w, x.user, x.id)
    /\ x.answer.code \in Refusals => \A event \in events : event.request # x.id
    /\ x.answer.code \in {"OK", "CREATED", "WORKSPACE_NOT_FOUND"} => x.admitted

Current(x) ==
  LET w == x.request.workspace IN
  x.pc = "Deliver" =>
    /\ x.answer.code = "OK" /\ x.request.kind = "LIST" =>
         x.answer.items \in x.views
    /\ x.answer.code = "OK" /\ x.request.kind = "GET" =>
         \E view \in x.views : w \in view
    /\ x.answer.code = "WORKSPACE_NOT_FOUND" =>
         \E view \in x.views : w \notin view

RecordOK(x) ==
  /\ Frugal(x) /\ Identified(x) /\ Admissible(x) /\ ActsForSession(x)
  /\ OnItsWay(x) /\ Observant(x) /\ Truthful(x) /\ Current(x)

Apart(x, y) ==
  /\ x.pc # "idle" /\ y.pc # "idle" => x.id # y.id
  /\ x.new # None => x.new # y.new

(* A workspace without its row has neither members nor an event. *)
AllOrNothing == \A w \in Workspaces \ workspaces : Absent(w)

ToldTheTruth ==
  \A user \in Users : \A w \in told[user] :
    \E request \in RequestIds : Created(w, user, request)

EventsSent == \A event \in events : event.request \in 1..sent

Inv ==
  /\ Types /\ EventsSent
  /\ \A h \in Handlers : RecordOK(handler[h])
  /\ \A h, k \in Handlers : h # k => Apart(handler[h], handler[k])
  /\ AllOrNothing
  /\ ToldTheTruth

USE UserOfAssumption, RequestsAssumption, MaxRequestsAssumption, NoneAssumption

-----------------------------------------------------------------------------
LEMMA Requested ==
  ASSUME NEW request \in Requests
  PROVE  /\ request # None
         /\ request.kind \in {"CREATE", "LIST", "GET", "ME", "READYZ"}
         /\ request.credential \in Sessions \cup {None}
         /\ request.credential # None => UserOf[request.credential] \in Users
         /\ request.workspace \in Workspaces
BY DEF RequestRecords

LEMMA IdleRecord ==
  /\ Idle \in Records
  /\ Idle.pc = "idle" /\ Idle.new = None /\ ~Idle.connected
  /\ RecordOK(Idle)
<1>1. Idle \in Records
  BY DEF Idle, Records, Labels, Codes
<1>2. Idle.pc = "idle" /\ Idle.new = None /\ ~Idle.connected
  BY DEF Idle
<1>3. RecordOK(Idle)
  BY <1>2 DEF RecordOK, Frugal, Identified, Admissible, ActsForSession, OnItsWay,
     Observant, Truthful, Current, Unauthenticated, Authenticated, Inserting
<1> QED
  BY <1>1, <1>2, <1>3

LEMMA Initially == Init => Inv
<1> SUFFICES ASSUME Init PROVE Inv
  OBVIOUS
<1> USE DEF Init
<1>1. Types
  BY IdleRecord DEF Types, MemberStates, RequestIds
<1>2. \A h \in Handlers : handler[h] = Idle
  OBVIOUS
<1>3. \A h \in Handlers : RecordOK(handler[h])
  BY <1>2, IdleRecord
<1>4. \A h, k \in Handlers : Apart(handler[h], handler[k])
  BY <1>2, IdleRecord DEF Apart
<1>5. AllOrNothing /\ ToldTheTruth /\ EventsSent
  BY DEF AllOrNothing, ToldTheTruth, Absent, EventsOf, EventsSent
<1> QED
  BY <1>1, <1>3, <1>4, <1>5 DEF Inv

(* A step that changes the record of one handler, may number a request and *)
(* may tell a client something, but leaves the database alone.             *)
LEMMA OwnRecord ==
  ASSUME Inv, NEW h \in Handlers, NEW r \in Records,
         handler' = [handler EXCEPT ![h] = r],
         UNCHANGED database, sent' \in sent..MaxRequests,
         told' \in [Users -> SUBSET Workspaces], ToldTheTruth',
         RecordOK(r)',
         \A k \in Handlers \ {h} : Apart(r, handler[k]) /\ Apart(handler[k], r)
  PROVE  Inv'
<1> USE DEF Inv, database
<1>1. \A k \in Handlers : handler'[k] = IF k = h THEN r ELSE handler[k]
  BY DEF Types
<1>2. Types' /\ EventsSent'
  BY DEF Types, EventsSent
<1>3. \A k \in Handlers : RecordOK(handler[k])'
  <2> TAKE k \in Handlers
  <2>1. CASE k = h
    BY <2>1, <1>1 DEF RecordOK, Frugal, Identified, Admissible, ActsForSession,
       OnItsWay, Observant, Truthful, Current, Created
  <2>2. CASE k # h
    <3> DEFINE x == handler[k]
    <3>1. handler'[k] = x /\ RecordOK(x) /\ x \in Records
      BY <2>2, <1>1 DEF Types
    <3>2. Identified(handler[k])'
      BY <3>1 DEF RecordOK, Identified, Types, Records
    <3>3. (/\ Frugal(handler[k]) /\ Admissible(handler[k])
           /\ ActsForSession(handler[k]) /\ OnItsWay(handler[k]))'
      BY <3>1 DEF RecordOK, Frugal, Admissible, ActsForSession, OnItsWay
    <3>4. Observant(handler[k])'
      BY <3>1 DEF RecordOK, Observant, Joined
    <3>5. Truthful(handler[k])'
      BY <3>1 DEF RecordOK, Truthful, Created
    <3>6. Current(handler[k])'
      BY <3>1 DEF RecordOK, Current
    <3> QED
      BY <3>2, <3>3, <3>4, <3>5, <3>6 DEF RecordOK
  <2> QED
    BY <2>1, <2>2
<1>4. \A k, l \in Handlers : k # l => Apart(handler[k], handler[l])'
  BY <1>1 DEF Apart
<1>5. AllOrNothing'
  BY DEF AllOrNothing, Absent, EventsOf
<1> QED
  BY <1>2, <1>3, <1>4, <1>5
LEMMA Receives ==
  ASSUME Inv, NEW h \in Handlers, NEW request \in Requests, Receive(h, request)
  PROVE  Inv'
<1> USE DEF Receive
<1> DEFINE session == request.credential
           admitted == session \in live
           received ==
             [Idle EXCEPT !.request = request, !.id = sent + 1,
                   !.pc = "Parse", !.admitted = admitted]
<1>1. admitted \in BOOLEAN /\ sent + 1 \in Nat
  BY DEF Inv, Types
<1>2. received \in Records
  <2> HIDE DEF admitted
  <2> QED
    BY <1>1 DEF Records, Idle, Labels, Codes, Unauthenticated
<1> PICK r \in Records : r = received
  BY <1>2
<1>3. handler' = [handler EXCEPT ![h] = r]
  OBVIOUS
<1>4. /\ r.pc = "Parse" /\ r.id = sent + 1 /\ r.request = request
      /\ r.new = None /\ ~r.connected
      /\ r.admitted = (session \in live)
  BY DEF Idle
<1> HIDE DEF received
<1>5. /\ sent' = sent + 1 /\ sent' \in sent..MaxRequests
      /\ UNCHANGED database /\ UNCHANGED told
  BY DEF Inv, Types
<1>6. RecordOK(r)'
  <2>1. Identified(r)'
    BY <1>4, <1>5 DEF Identified, Inv, EventsSent, database, Types
  <2>2. (Frugal(r) /\ Admissible(r) /\ ActsForSession(r) /\ OnItsWay(r))'
    BY <1>4, <1>5 DEF Frugal, Admissible, ActsForSession, OnItsWay, database,
       Unauthenticated, Authenticated, Inserting
  <2>3. (Observant(r) /\ Truthful(r) /\ Current(r))'
    BY <1>4, <1>5 DEF Observant, Truthful, Current, database, Joined
  <2> QED
    BY <2>1, <2>2, <2>3 DEF RecordOK
<1>7. \A k \in Handlers \ {h} : Apart(r, handler[k]) /\ Apart(handler[k], r)
  BY <1>4 DEF Apart, Inv, RecordOK, Identified, Types, Records
<1>8. ToldTheTruth' /\ told' \in [Users -> SUBSET Workspaces]
  BY <1>5 DEF Inv, Types, ToldTheTruth, Created, database
<1> QED
  BY <1>3, <1>5, <1>6, <1>7, <1>8, OwnRecord

(* What a record that sees the memberships keeps, and what it gains.       *)
LEMMA SeenRecord ==
  ASSUME NEW x \in Records, NEW memberships, NEW y, y = Seen(x, memberships)
  PROVE  /\ y \in Records
         /\ y.pc = x.pc /\ y.id = x.id /\ y.request = x.request
         /\ y.connected = x.connected /\ y.user = x.user /\ y.new = x.new
         /\ y.answer = x.answer /\ y.admitted = x.admitted
         /\ x.views \subseteq y.views
         /\ y.pc = "Query" /\ y.user # None =>
              Joined(memberships, y.user) \in y.views
<1> DEFINE now == Joined(memberships, x.user)
<1>1. now \subseteq Workspaces
  BY DEF Joined
<1>2. CASE ~(x.pc = "Query" /\ x.user # None)
  BY <1>2 DEF Seen
<1>3. CASE x.pc = "Query" /\ x.user # None
  <2>1. y = [x EXCEPT !.views = @ \cup {now}]
    BY <1>3 DEF Seen
  <2> HIDE DEF now
  <2>2. x.views \cup {now} \in SUBSET (SUBSET Workspaces)
    BY <1>1 DEF Records
  <2>3. y \in Records
    BY <2>1, <2>2 DEF Records
  <2>4. /\ y.views = x.views \cup {now}
        /\ y.pc = x.pc /\ y.id = x.id /\ y.request = x.request
        /\ y.connected = x.connected /\ y.user = x.user /\ y.new = x.new
        /\ y.answer = x.answer /\ y.admitted = x.admitted
    BY <2>1 DEF Records
  <2> QED
    BY <2>3, <2>4 DEF now
<1> QED
  BY <1>2, <1>3

(* A request goes on to its next label. *)
LEMMA Proceeds ==
  ASSUME Inv, NEW h \in Handlers, NEW r \in Records,
         handler' = [handler EXCEPT ![h] = r],
         UNCHANGED <<database, sent, told>>,
         handler[h].pc # "idle", r.id = handler[h].id, RecordOK(r),
         r.new = handler[h].new
           \/ \A k \in Handlers : handler[k].new # r.new
  PROVE  Inv'
<1>1. RecordOK(r)'
  BY DEF RecordOK, Frugal, Identified, Admissible, ActsForSession, OnItsWay,
     Observant, Truthful, Current, Created, database, Joined
<1>2. \A k \in Handlers \ {h} : Apart(r, handler[k]) /\ Apart(handler[k], r)
  BY DEF Inv, Apart
<1>3. ToldTheTruth' /\ told' \in [Users -> SUBSET Workspaces]
  BY DEF Inv, Types, ToldTheTruth, Created, database
<1>4. sent' \in sent..MaxRequests
  BY DEF Inv, Types
<1> QED
  BY <1>1, <1>2, <1>3, <1>4, OwnRecord

LEMMA Answering ==
  ASSUME Inv, NEW h \in Handlers, NEW code \in Codes \ {"CREATED"},
         NEW items \in SUBSET Workspaces, Answer(h, code, items),
         handler[h].pc \notin {"idle", "Deliver"},
         code \in {"OK", "WORKSPACE_NOT_FOUND"} => handler[h].admitted,
         code = "OK" /\ Kind(h) = "LIST" => items \in handler[h].views,
         code = "OK" /\ Kind(h) = "GET" =>
           \E view \in handler[h].views : handler[h].request.workspace \in view,
         code = "WORKSPACE_NOT_FOUND" =>
           \E view \in handler[h].views : handler[h].request.workspace \notin view
  PROVE  Inv'
<1> DEFINE x == handler[h]
           r == Answered(h, code, items)
<1>1. x \in Records /\ RecordOK(x)
  BY DEF Inv, Types
<1>2. r \in Records
  BY <1>1 DEF Answered, Records, Labels
<1>3. /\ r.pc = "Deliver" /\ ~r.connected
      /\ r.answer.code = code /\ r.answer.items = items
      /\ r.id = x.id /\ r.request = x.request /\ r.new = x.new
      /\ r.admitted = x.admitted /\ r.views = x.views
  BY <1>1 DEF Answered, Records
<1>4. RecordOK(r)
  <2>1. Identified(r)
    BY <1>1, <1>3 DEF RecordOK, Identified
  <2>2. Frugal(r) /\ Admissible(r) /\ ActsForSession(r) /\ OnItsWay(r)
    BY <1>3 DEF Frugal, Admissible, ActsForSession, OnItsWay, Unauthenticated,
       Authenticated, Inserting
  <2>3. Observant(r) /\ Current(r)
    BY <1>1, <1>3 DEF RecordOK, Observant, Current, Kind
  <2>4. Truthful(r)
    BY <1>1, <1>3 DEF RecordOK, Truthful, Identified
  <2> QED
    BY <2>1, <2>2, <2>3, <2>4 DEF RecordOK
<1>5. handler' = [handler EXCEPT ![h] = r] /\ UNCHANGED <<database, sent, told>>
  BY DEF Answer
<1> HIDE DEF r
<1> QED
  BY <1>2, <1>3, <1>4, <1>5, Proceeds

(* A request goes on to a label, nothing else changes. *)
LEMMA Relabelled ==
  ASSUME Inv, NEW h \in Handlers, NEW pc \in Labels \ {"idle", "Deliver", "Query"},
         Goto(h, pc), UNCHANGED <<database, sent, told>>,
         handler[h].pc \notin {"idle", "Deliver"},
         \A r \in Records : r = [handler[h] EXCEPT !.pc = pc] =>
           Frugal(r) /\ Admissible(r) /\ ActsForSession(r) /\ OnItsWay(r)
  PROVE  Inv'
<1> DEFINE x == handler[h]
<1>1. x \in Records /\ RecordOK(x)
  BY DEF Inv, Types
<1>2. [x EXCEPT !.pc = pc] \in Records
  BY <1>1 DEF Records
<1> PICK r \in Records : r = [x EXCEPT !.pc = pc]
  BY <1>2
<1>3. r.pc = pc /\ r.request = x.request /\ r.id = x.id /\ r.new = x.new
  BY <1>1 DEF Records
<1>4. RecordOK(r)
  <2>1. Frugal(r) /\ Admissible(r) /\ ActsForSession(r) /\ OnItsWay(r)
    OBVIOUS
  <2>2. Identified(r)
    BY <1>1, <1>3 DEF RecordOK, Identified
  <2>3. Observant(r) /\ Truthful(r) /\ Current(r)
    BY <1>1, <1>3 DEF RecordOK, Observant, Truthful, Current
  <2> QED
    BY <2>1, <2>2, <2>3 DEF RecordOK
<1>5. handler' = [handler EXCEPT ![h] = r]
  BY <1>1 DEF Goto, Inv, Types
<1> QED
  BY <1>1, <1>3, <1>4, <1>5, Proceeds

LEMMA Refuses ==
  ASSUME Inv, NEW h \in Handlers,
         RejectMalformed(h) \/ RejectCredential(h) \/ Fail(h)
  PROVE  Inv'
<1>1. /\ {} \in SUBSET Workspaces
      /\ {"REQUEST_VALIDATION_FAILED", "AUTH_INVALID_CREDENTIALS",
          "NOT_READY", "INTERNAL_ERROR"} \subseteq Codes \ {"CREATED"}
  BY DEF Codes, Refusals
<1>2. CASE RejectMalformed(h)
  BY <1>1, <1>2, Answering DEF RejectMalformed, Serving
<1>3. CASE RejectCredential(h)
  BY <1>1, <1>3, Answering DEF RejectCredential, Serving
<1>4. CASE Fail(h)
  <2>1. handler[h].pc \notin {"idle", "Deliver"}
    BY <1>4 DEF Fail
  <2>2. Answer(h, "NOT_READY", {}) \/ Answer(h, "INTERNAL_ERROR", {})
    BY <1>4 DEF Fail, Failures
  <2> QED
    BY <1>1, <2>1, <2>2, Answering
<1> QED
  BY <1>2, <1>3, <1>4

LEMMA Parses ==
  ASSUME Inv, NEW h \in Handlers, Parse(h)
  PROVE  Inv'
<1> DEFINE x == handler[h]
<1>1. x \in Records /\ RecordOK(x) /\ x.pc = "Parse"
  BY DEF Inv, Types, Parse, Serving
<1>2. ~x.connected
  BY <1>1 DEF RecordOK, Frugal, Inserting
<1>3. CASE x.request.kind = "READYZ" /\ Goto(h, "Connect")
  <2>1. \A r \in Records : r = [x EXCEPT !.pc = "Connect"] =>
          Frugal(r) /\ Admissible(r) /\ ActsForSession(r) /\ OnItsWay(r)
    BY <1>1, <1>2, <1>3 DEF Records, Frugal, Admissible, ActsForSession, OnItsWay,
       Unauthenticated, Inserting
  <2> QED
    BY <1>1, <1>3, <2>1, Relabelled DEF Parse, Labels, Authenticated
<1>4. CASE /\ x.request.kind # "READYZ" /\ x.request.credential # None
           /\ Goto(h, "ConnectToAuthenticate")
  <2>1. \A r \in Records : r = [x EXCEPT !.pc = "ConnectToAuthenticate"] =>
          Frugal(r) /\ Admissible(r) /\ ActsForSession(r) /\ OnItsWay(r)
    BY <1>1, <1>2, <1>4 DEF Records, RecordOK, Frugal, Admissible, ActsForSession,
       OnItsWay, Unauthenticated, Inserting, Authenticated
  <2> QED
    BY <1>1, <1>4, <2>1, Relabelled DEF Parse, Labels, Unauthenticated
<1> QED
  BY <1>3, <1>4 DEF Parse, Kind

LEMMA Connects ==
  ASSUME Inv, NEW h \in Handlers, Connect(h)
  PROVE  Inv'
<1> DEFINE x == handler[h]
           pc == IF x.pc = "Connect" THEN FirstStatement(Kind(h))
                 ELSE "ResolvePrincipal"
           served == [x EXCEPT !.connected = TRUE, !.pc = pc]
           seen == Seen(served, membership)
<1>1. /\ x \in Records /\ RecordOK(x)
      /\ x.pc \in {"ConnectToAuthenticate", "Connect"}
  BY DEF Inv, Types, Connect
<1>2. \/ x.pc = "ConnectToAuthenticate" /\ pc = "ResolvePrincipal"
      \/ x.pc = "Connect" /\ x.request.kind = "CREATE" /\ pc = "InsertWorkspace"
      \/ /\ x.pc = "Connect" /\ x.request.kind \in {"LIST", "GET", "READYZ"}
         /\ pc = "Query"
  <2>1. x.pc = "Connect" => x.request \in Requests /\ x.request.kind # "ME"
    BY <1>1 DEF RecordOK, OnItsWay, Identified
  <2> QED
    BY <1>1, <2>1, Requested DEF FirstStatement, Kind
<1> HIDE DEF pc
<1>3. served \in Records
  BY <1>1, <1>2 DEF Records, Labels, Unauthenticated, Authenticated, Inserting
<1> PICK y \in Records : y = served
  BY <1>3
<1> PICK r : r = seen
  OBVIOUS
<1>4. /\ r \in Records
      /\ r.pc = pc /\ r.request = x.request /\ r.id = x.id /\ r.new = x.new
      /\ r.user = x.user /\ r.admitted = x.admitted
      /\ r.pc = "Query" /\ r.user # None => Joined(membership, r.user) \in r.views
  <2>1. /\ y.pc = pc /\ y.request = x.request /\ y.id = x.id /\ y.new = x.new
        /\ y.user = x.user /\ y.admitted = x.admitted
    BY <1>1 DEF Records
  <2> HIDE DEF served
  <2>2. r = Seen(y, membership)
    BY DEF seen
  <2> QED
    BY <2>1, <2>2, SeenRecord
<1>5. RecordOK(r)
  <2>1. Frugal(r)
    BY <1>2, <1>4 DEF Frugal, Inserting
  <2>2. Identified(r)
    BY <1>1, <1>2, <1>4 DEF RecordOK, Identified
  <2>3. Admissible(r) /\ ActsForSession(r)
    BY <1>1, <1>2, <1>4 DEF RecordOK, Admissible, ActsForSession, Unauthenticated,
       Authenticated, Inserting
  <2>4. OnItsWay(r)
    BY <1>1, <1>2, <1>4 DEF RecordOK, OnItsWay, Inserting
  <2>5. Observant(r) /\ Truthful(r) /\ Current(r)
    BY <1>1, <1>2, <1>4 DEF RecordOK, Observant, Truthful, Current
  <2> QED
    BY <2>1, <2>2, <2>3, <2>4, <2>5 DEF RecordOK
<1>6. handler' = [handler EXCEPT ![h] = r] /\ UNCHANGED <<database, sent, told>>
  BY DEF Connect, Serving, pc, Inv, Types
<1> QED
  BY <1>1, <1>4, <1>5, <1>6, Proceeds

LEMMA Authenticates ==
  ASSUME Inv, NEW h \in Handlers, ResolvePrincipal(h)
  PROVE  Inv'
<1> DEFINE x == handler[h]
           session == x.request.credential
           resolved == Joined(membership, UserOf[session])
           principal == [x EXCEPT !.user = UserOf[session], !.resolved = resolved,
                                  !.connected = FALSE, !.pc = "Validate"]
<1>1. /\ x \in Records /\ RecordOK(x) /\ x.pc = "ResolvePrincipal"
      /\ live \subseteq Sessions
  BY DEF Inv, Types, ResolvePrincipal, Serving
<1>2. CASE session \in live
  <2>1. session \in Sessions /\ UserOf[session] \in Users
    BY <1>1, <1>2
  <2>2. principal \in Records
    <3>1. resolved \subseteq Workspaces
      BY DEF Joined
    <3> HIDE DEF resolved
    <3> QED
      BY <1>1, <2>1, <3>1 DEF Records, Labels, Authenticated
  <2> PICK r \in Records : r = principal
    BY <2>2
  <2>3. /\ r.pc = "Validate" /\ r.user = UserOf[session] /\ ~r.connected
        /\ r.request = x.request /\ r.id = x.id /\ r.new = x.new
        /\ r.admitted = x.admitted
    BY <1>1 DEF Records
  <2>4. RecordOK(r)
    <3>1. Frugal(r)
      BY <2>3 DEF Frugal
    <3>2. Identified(r)
      BY <1>1, <2>3 DEF RecordOK, Identified
    <3>3. Admissible(r) /\ ActsForSession(r)
      BY <1>1, <1>2, <2>1, <2>3 DEF RecordOK, Admissible, ActsForSession,
         Unauthenticated
    <3>4. OnItsWay(r)
      BY <1>1, <2>3 DEF RecordOK, OnItsWay, Inserting
    <3>5. Observant(r) /\ Truthful(r) /\ Current(r)
      BY <1>1, <2>3 DEF RecordOK, Observant, Truthful, Current
    <3> QED
      BY <3>1, <3>2, <3>3, <3>4, <3>5 DEF RecordOK
  <2>5. handler' = [handler EXCEPT ![h] = r] /\ UNCHANGED <<database, sent, told>>
    BY <1>2 DEF ResolvePrincipal, Inv, Types
  <2> QED
    BY <1>1, <2>3, <2>4, <2>5, Proceeds
<1>3. CASE session \notin live
  <2>1. Answer(h, "AUTH_INVALID_CREDENTIALS", {})
    BY <1>3 DEF ResolvePrincipal
  <2>2. "AUTH_INVALID_CREDENTIALS" \in Codes \ {"CREATED"}
    BY DEF Codes, Refusals
  <2> HIDE DEF principal, resolved
  <2> QED
    BY <1>1, <2>1, <2>2, Answering
<1> QED
  BY <1>2, <1>3

LEMMA Validates ==
  ASSUME Inv, NEW h \in Handlers, Validate(h)
  PROVE  Inv'
<1> DEFINE x == handler[h]
<1>1. x \in Records /\ RecordOK(x) /\ x.pc = "Validate"
  BY DEF Inv, Types, Validate, Serving
<1>2. /\ x.request.kind # "READYZ" /\ x.admitted /\ ~x.connected
      /\ x.request.credential \in Sessions
      /\ x.user = UserOf[x.request.credential]
  BY <1>1 DEF RecordOK, Frugal, OnItsWay, ActsForSession, Authenticated, Inserting
<1>3. {"REQUEST_VALIDATION_FAILED", "OK"} \subseteq Codes \ {"CREATED"}
  BY DEF Codes, Refusals
<1>4. CASE Answer(h, "REQUEST_VALIDATION_FAILED", {})
  BY <1>1, <1>3, <1>4, Answering
<1>5. CASE Kind(h) = "ME" /\ Answer(h, "OK", {})
  BY <1>1, <1>2, <1>3, <1>5, Answering DEF Kind
<1>6. CASE Kind(h) # "ME" /\ Goto(h, "Connect") /\ UNCHANGED <<database, sent, told>>
  <2>1. \A r \in Records : r = [x EXCEPT !.pc = "Connect"] =>
          Frugal(r) /\ Admissible(r) /\ ActsForSession(r) /\ OnItsWay(r)
    BY <1>1, <1>2, <1>6 DEF Records, Frugal, Admissible, ActsForSession, OnItsWay,
       Unauthenticated, Inserting, Kind
  <2> QED
    BY <1>1, <1>6, <2>1, Relabelled DEF Labels, Authenticated
<1> QED
  BY <1>4, <1>5, <1>6 DEF Validate

LEMMA Inserts ==
  ASSUME Inv, NEW h \in Handlers,
         \/ InsertWorkspace(h) \/ InsertOwnerMembership(h)
         \/ InsertWorkspaceAudit(h)
  PROVE  Inv'
<1> DEFINE x == handler[h]
<1>1. x \in Records /\ RecordOK(x) /\ x.pc \in Inserting \ {"Commit"}
  BY DEF Inv, Types, InsertWorkspace, InsertOwnerMembership, InsertWorkspaceAudit,
     Serving, Inserting
<1>2. CASE InsertWorkspace(h)
  <2> PICK w \in Fresh :
        handler' = [handler EXCEPT ![h].new = w, ![h].pc = "InsertOwnerMembership"]
    BY <1>2 DEF InsertWorkspace
  <2> DEFINE creating == [x EXCEPT !.new = w, !.pc = "InsertOwnerMembership"]
  <2>1. w \in Workspaces \ workspaces /\ \A k \in Handlers : handler[k].new # w
    BY DEF Fresh
  <2>2. creating \in Records
    BY <1>1, <2>1 DEF Records, Labels, Authenticated, Inserting
  <2> PICK r \in Records : r = creating
    BY <2>2
  <2>3. /\ r.pc = "InsertOwnerMembership" /\ r.new = w /\ r.user = x.user
        /\ r.request = x.request /\ r.id = x.id /\ r.admitted = x.admitted
    BY <1>1 DEF Records
  <2>4. RecordOK(r)
    <3>1. Frugal(r) /\ Admissible(r)
      BY <2>3 DEF Frugal, Admissible, Inserting, Unauthenticated
    <3>2. Identified(r) /\ ActsForSession(r)
      BY <1>1, <2>3 DEF RecordOK, Identified, ActsForSession, Authenticated,
         Inserting
    <3>3. OnItsWay(r)
      BY <1>1, <2>1, <2>3 DEF RecordOK, OnItsWay, Inserting
    <3>4. Observant(r) /\ Truthful(r) /\ Current(r)
      BY <1>1, <2>3 DEF RecordOK, Observant, Truthful, Current, Inserting
    <3> QED
      BY <3>1, <3>2, <3>3, <3>4 DEF RecordOK
  <2>5. handler' = [handler EXCEPT ![h] = r] /\ UNCHANGED <<database, sent, told>>
    BY <1>2 DEF InsertWorkspace, Inv, Types
  <2>6. x.pc # "idle" /\ r.id = x.id /\ \A k \in Handlers : handler[k].new # r.new
    BY <1>1, <2>1, <2>3 DEF Inserting
  <2> HIDE DEF creating
  <2> QED
    BY <2>4, <2>5, <2>6, Proceeds
<1>3. CASE InsertOwnerMembership(h) \/ InsertWorkspaceAudit(h)
  <2> PICK pc \in {"InsertWorkspaceAudit", "Commit"} : Goto(h, pc)
    BY <1>3 DEF InsertOwnerMembership, InsertWorkspaceAudit
  <2>1. UNCHANGED <<database, sent, told>>
        /\ x.pc \in {"InsertOwnerMembership", "InsertWorkspaceAudit"}
    BY <1>3 DEF InsertOwnerMembership, InsertWorkspaceAudit, Serving
  <2>2. \A r \in Records : r = [x EXCEPT !.pc = pc] =>
          Frugal(r) /\ Admissible(r) /\ ActsForSession(r) /\ OnItsWay(r)
    BY <1>1, <2>1 DEF Records, RecordOK, Frugal, Admissible, ActsForSession,
       OnItsWay, Unauthenticated, Authenticated, Inserting
  <2> QED
    BY <2>1, <2>2, Relabelled DEF Labels, Authenticated, Inserting
<1> QED
  BY <1>2, <1>3

LEMMA Reads ==
  ASSUME Inv, NEW h \in Handlers, Query(h)
  PROVE  Inv'
<1> DEFINE x == handler[h]
           found == Selected(x.user)
           w == x.request.workspace
<1>1. x \in Records /\ RecordOK(x) /\ x.pc = "Query"
  BY DEF Inv, Types, Query, Serving
<1>2. w \in Workspaces /\ found \in SUBSET Workspaces
  BY <1>1, Requested DEF RecordOK, Identified, Selected
<1>3. x.request.kind # "READYZ" => x.admitted /\ found \in x.views
  <2>1. x.request.kind # "READYZ" => x.admitted /\ x.user \in Users
    BY <1>1 DEF RecordOK, ActsForSession, Authenticated
  <2>2. found = Joined(membership, x.user)
    BY DEF Selected, Joined
  <2> QED
    BY <1>1, <2>1, <2>2 DEF RecordOK, Observant
<1>4. {"OK", "WORKSPACE_NOT_FOUND", "READY"} \subseteq Codes \ {"CREATED"}
  BY DEF Codes, Refusals
<1>5. CASE Kind(h) = "LIST" /\ Answer(h, "OK", found)
  BY <1>1, <1>2, <1>3, <1>4, <1>5, Answering DEF Kind
<1>6. CASE Kind(h) = "GET" /\ w \in found /\ Answer(h, "OK", {w})
  BY <1>1, <1>2, <1>3, <1>4, <1>6, Answering DEF Kind
<1>7. CASE Kind(h) = "GET" /\ w \notin found /\ Answer(h, "WORKSPACE_NOT_FOUND", {})
  BY <1>1, <1>2, <1>3, <1>4, <1>7, Answering DEF Kind
<1>8. CASE Answer(h, "READY", {})
  BY <1>1, <1>4, <1>8, Answering
<1> QED
  BY <1>5, <1>6, <1>7, <1>8 DEF Query

LEMMA Leaves ==
  ASSUME Inv, NEW h \in Handlers, Deliver(h) \/ Lose(h)
  PROVE  Inv'
<1> DEFINE x == handler[h]
<1>1. x \in Records /\ RecordOK(x) /\ x.pc = "Deliver"
  BY DEF Inv, Types, Deliver, Lose, Serving
<1>2. handler' = [handler EXCEPT ![h] = Idle] /\ UNCHANGED database /\ sent' = sent
  BY DEF Deliver, Lose
<1>3. told' \in [Users -> SUBSET Workspaces] /\ ToldTheTruth'
  <2>1. CASE UNCHANGED told
    BY <1>2, <2>1 DEF Inv, Types, ToldTheTruth, Created, database
  <2>2. CASE /\ Deliver(h) /\ x.answer.code = "CREATED"
             /\ told' = [told EXCEPT ![x.user] = @ \cup x.answer.items]
    <3>1. /\ x.user \in Users /\ x.answer.items \in SUBSET Workspaces
          /\ x.id \in RequestIds
          /\ \A w \in x.answer.items : Created(w, x.user, x.id)
      BY <1>1, <2>2 DEF RecordOK, Truthful, Identified, Records, Inv, Types,
         RequestIds
    <3>2. told \in [Users -> SUBSET Workspaces] /\ ToldTheTruth
      BY DEF Inv, Types
    <3>3. ASSUME NEW user \in Users, NEW w \in told'[user]
          PROVE  \E request \in RequestIds : Created(w, user, request)
      BY <2>2, <3>1, <3>2, <3>3 DEF ToldTheTruth
    <3> QED
      BY <1>2, <2>2, <3>1, <3>2, <3>3 DEF ToldTheTruth, Created, database
  <2> QED
    BY <2>1, <2>2 DEF Deliver, Lose
<1>4. RecordOK(Idle)'
  BY IdleRecord DEF RecordOK, Frugal, Identified, Admissible, ActsForSession,
     OnItsWay, Observant, Truthful, Current, Idle, Unauthenticated, Authenticated,
     Inserting
<1>5. \A k \in Handlers : Apart(Idle, handler[k]) /\ Apart(handler[k], Idle)
  BY IdleRecord DEF Apart
<1>6. sent' \in sent..MaxRequests
  BY <1>2 DEF Inv, Types
<1> QED
  BY <1>2, <1>3, <1>4, <1>5, <1>6, IdleRecord, OwnRecord

LEMMA Crashes ==
  ASSUME Inv, Crash
  PROVE  Inv'
<1> USE DEF Crash, database
<1>1. \A h \in Handlers : handler'[h] = Idle
  OBVIOUS
<1>2. Types' /\ EventsSent' /\ AllOrNothing' /\ ToldTheTruth'
  BY IdleRecord DEF Inv, Types, EventsSent, AllOrNothing, Absent, EventsOf,
     ToldTheTruth, Created
<1>3. \A h \in Handlers : RecordOK(handler[h])'
  BY <1>1, IdleRecord DEF RecordOK, Frugal, Identified, Admissible,
     ActsForSession, OnItsWay, Observant, Truthful, Current, Unauthenticated,
     Authenticated, Inserting
<1>4. \A h, k \in Handlers : Apart(handler[h], handler[k])'
  BY <1>1, IdleRecord DEF Apart
<1> QED
  BY <1>2, <1>3, <1>4 DEF Inv

LEMMA Ends ==
  ASSUME Inv, NEW session \in Sessions, EndSession(session)
  PROVE  Inv'
<1> USE DEF EndSession, Inv
<1>1. Types' /\ EventsSent' /\ AllOrNothing' /\ ToldTheTruth'
  BY DEF Types, EventsSent, AllOrNothing, Absent, EventsOf, ToldTheTruth, Created
<1>2. ASSUME NEW h \in Handlers
      PROVE  RecordOK(handler[h])'
  <2>1. RecordOK(handler[h]) /\ UNCHANGED <<handler, sent, events, workspaces>>
        /\ membership' = membership /\ live' \subseteq live
    OBVIOUS
  <2>2. (Frugal(handler[h]) /\ Identified(handler[h]) /\ Admissible(handler[h])
         /\ ActsForSession(handler[h]) /\ OnItsWay(handler[h]))'
    BY <2>1 DEF RecordOK, Frugal, Identified, Admissible, ActsForSession, OnItsWay
  <2>3. (Observant(handler[h]) /\ Truthful(handler[h]) /\ Current(handler[h]))'
    BY <2>1 DEF RecordOK, Observant, Truthful, Current, Created, Joined
  <2> QED
    BY <2>2, <2>3 DEF RecordOK
<1>3. \A h, k \in Handlers : h # k => Apart(handler[h], handler[k])'
  BY DEF Apart
<1> QED
  BY <1>1, <1>2, <1>3

-----------------------------------------------------------------------------
(* The two steps that change memberships, and with them every record.      *)

(* A record that only sees the step keeps its part of the invariant.       *)
LEMMA SeenKeeps ==
  ASSUME NEW x \in Records, RecordOK(x), NEW y, y = Seen(x, membership'),
         UNCHANGED <<live, sent>>,
         workspaces \subseteq workspaces', events \subseteq events',
         x.pc # "idle" => \A event \in events' \ events : event.request # x.id,
         x.new \in workspaces' => x.new \in workspaces
  PROVE  RecordOK(y)'
<1>1. /\ y \in Records
      /\ y.pc = x.pc /\ y.id = x.id /\ y.request = x.request
      /\ y.connected = x.connected /\ y.user = x.user /\ y.new = x.new
      /\ y.answer = x.answer /\ y.admitted = x.admitted
      /\ x.views \subseteq y.views
  BY SeenRecord
<1>2. Frugal(y)' /\ Admissible(y)' /\ ActsForSession(y)'
  BY <1>1 DEF RecordOK, Frugal, Admissible, ActsForSession
<1>3. Identified(y)'
  BY <1>1 DEF RecordOK, Identified
<1>4. OnItsWay(y)'
  BY <1>1 DEF RecordOK, OnItsWay
<1>5. Observant(y)'
  BY <1>1, SeenRecord DEF Observant, Joined
<1>6. Truthful(y)'
  BY <1>1 DEF RecordOK, Truthful, Created
<1>7. Current(y)'
  BY <1>1 DEF RecordOK, Current
<1> QED
  BY <1>2, <1>3, <1>4, <1>5, <1>6, <1>7 DEF RecordOK

LEMMA Same ==
  ASSUME NEW h \in Handlers, NEW v, v = handler'[h], RecordOK(v)'
  PROVE  RecordOK(handler[h])'
BY DEF RecordOK, Frugal, Identified, Admissible, ActsForSession, OnItsWay,
   Observant, Truthful, Current, Created

LEMMA Administers ==
  ASSUME Inv, NEW w \in Workspaces, NEW user \in Users, ChangeMembership(w, user)
  PROVE  Inv'
<1> USE DEF Inv
<1>1. /\ UNCHANGED <<live, workspaces, events, sent, told>>
      /\ handler' = Observed(handler, membership') /\ w \in workspaces
  BY DEF ChangeMembership
<1>2. PICK state \in MemberStates :
        membership' = [membership EXCEPT ![w][user] = state]
  BY DEF ChangeMembership, MemberStates
<1>3. \A h \in Handlers :
        handler[h] \in Records /\ handler'[h] = Seen(handler[h], membership')
  BY <1>1 DEF Observed, Seen, Types
<1>4. \A h \in Handlers : handler'[h] \in Records /\ RecordOK(handler[h])'
  <2> TAKE h \in Handlers
  <2> DEFINE x == handler[h]
             y == handler'[h]
  <2>1. x \in Records /\ RecordOK(x) /\ y = Seen(x, membership')
    BY <1>3
  <2> PICK z : z = y
    OBVIOUS
  <2>2. RecordOK(z)' /\ z \in Records
    BY <1>1, <2>1, SeenKeeps, SeenRecord
  <2> QED
    BY <2>2, Same
<1>5. Types' /\ EventsSent'
  <2>1. membership' \in [Workspaces -> [Users -> MemberStates]]
    BY <1>2 DEF Types
  <2>2. handler' \in [Handlers -> Records]
    BY <1>1, <1>4 DEF Observed
  <2> QED
    BY <1>1, <2>1, <2>2 DEF Types, EventsSent
<1>6. \A h, k \in Handlers : h # k => Apart(handler[h], handler[k])'
  <2>1. \A h \in Handlers :
          /\ handler'[h].pc = handler[h].pc /\ handler'[h].id = handler[h].id
          /\ handler'[h].new = handler[h].new
    BY <1>3, SeenRecord
  <2> QED
    BY <2>1 DEF Apart
<1>7. AllOrNothing'
  <2>1. \A v \in Workspaces \ {w} : membership'[v] = membership[v]
    BY <1>2 DEF Types
  <2>2. \A v \in Workspaces \ workspaces : v # w /\ Absent(v)
    BY <1>1 DEF AllOrNothing
  <2> QED
    BY <1>1, <2>1, <2>2 DEF AllOrNothing, Absent, EventsOf
<1>8. ToldTheTruth'
  BY <1>1 DEF ToldTheTruth, Created
<1> QED
  BY <1>4, <1>5, <1>6, <1>7, <1>8

(* What a commit does to the database: all three rows, or nothing. *)
LEMMA Atomic ==
  ASSUME Inv, NEW h \in Handlers, Commit(h)
  PROVE  LET x == handler[h]
             w == x.new
             event == [workspace |-> w, user |-> x.user, request |-> x.id] IN
         /\ x \in Records /\ RecordOK(x) /\ x.pc = "Commit"
         /\ x.request \in Requests /\ x.request.credential \in Sessions
         /\ x.admitted /\ x.user \in Users
         /\ x.user = UserOf[x.request.credential]
         /\ w \in Workspaces \ workspaces /\ x.id \in 1..sent
         /\ \A e \in events : e.request # x.id
         /\ UNCHANGED <<live, sent, told>>
         /\ \/ /\ workspaces' = workspaces \cup {w}
               /\ membership' = [membership EXCEPT ![w][x.user] = "OWNER"]
               /\ events' = events \cup {event}
            \/ UNCHANGED <<workspaces, membership, events>>
         /\ \E code \in {"CREATED", "INTERNAL_ERROR"}, items \in {{}, {w}} :
              /\ code = "CREATED" => workspaces' # workspaces /\ items = {w}
              /\ handler' = Observed(
                   [handler EXCEPT ![h] = Answered(h, code, items)], membership')
<1> DEFINE x == handler[h]
<1>1. x \in Records /\ RecordOK(x) /\ x.pc = "Commit"
  BY DEF Inv, Types, Commit, Serving
<1>2. /\ x.request \in Requests /\ x.id \in 1..sent
      /\ \A e \in events : e.request # x.id
  BY <1>1 DEF RecordOK, Identified
<1>3. x.request.kind = "CREATE" /\ x.new \in Workspaces \ workspaces
  BY <1>1 DEF RecordOK, OnItsWay, Inserting
<1>4. /\ x.admitted /\ x.request.credential \in Sessions
      /\ x.user = UserOf[x.request.credential] /\ x.user \in Users
  BY <1>1, <1>3 DEF RecordOK, ActsForSession, Authenticated, Inserting
<1>5. UNCHANGED <<live, sent, told>>
  BY DEF Commit
<1> DEFINE w == x.new
           event == [workspace |-> w, user |-> x.user, request |-> x.id]
           inserted == /\ workspaces' = workspaces \cup {w}
                       /\ membership' = [membership EXCEPT ![w][x.user] = "OWNER"]
                       /\ events' = events \cup {event}
           answered(code, items) ==
             handler' = Observed(
               [handler EXCEPT ![h] = Answered(h, code, items)], membership')
<1>6. \/ inserted /\ answered("CREATED", {w})
      \/ inserted /\ answered("INTERNAL_ERROR", {})
      \/ UNCHANGED <<workspaces, membership, events>>
           /\ answered("INTERNAL_ERROR", {})
  <2> PICK committed \in BOOLEAN, confirmed \in BOOLEAN :
        /\ confirmed => committed
        /\ IF committed THEN inserted
           ELSE UNCHANGED <<workspaces, membership, events>>
        /\ handler' = Observed(
             [handler EXCEPT ![h] =
                IF Confirms(confirmed) THEN Answered(h, "CREATED", {w})
                ELSE Answered(h, "INTERNAL_ERROR", {})], membership')
    BY DEF Commit
  <2> HIDE DEF inserted
  <2>1. CASE confirmed
    BY <2>1 DEF Confirms
  <2>2. CASE ~confirmed
    BY <2>2 DEF Confirms
  <2> QED
    BY <2>1, <2>2
<1>7. inserted => workspaces' # workspaces
  BY <1>3
<1>8. \E code \in {"CREATED", "INTERNAL_ERROR"}, items \in {{}, {w}} :
        /\ code = "CREATED" => workspaces' # workspaces /\ items = {w}
        /\ answered(code, items)
  <2> HIDE DEF inserted, answered
  <2> QED
    BY <1>6, <1>7
<1>9. inserted \/ UNCHANGED <<workspaces, membership, events>>
  <2> HIDE DEF inserted, answered
  <2> QED
    BY <1>6
<1> QED
  BY <1>1, <1>2, <1>3, <1>4, <1>5, <1>8, <1>9

LEMMA Commits ==
  ASSUME Inv, NEW h \in Handlers, Commit(h)
  PROVE  Inv'
<1> DEFINE x == handler[h]
           w == x.new
           event == [workspace |-> w, user |-> x.user, request |-> x.id]
<1>1. /\ x \in Records /\ RecordOK(x) /\ x.pc = "Commit"
      /\ x.request \in Requests /\ x.request.credential \in Sessions
      /\ x.user \in Users /\ x.user = UserOf[x.request.credential]
      /\ w \in Workspaces \ workspaces /\ x.id \in 1..sent
      /\ \A e \in events : e.request # x.id
      /\ UNCHANGED <<live, sent, told>> /\ x.admitted
  BY Atomic
<1>2. \/ /\ workspaces' = workspaces \cup {w}
         /\ membership' = [membership EXCEPT ![w][x.user] = "OWNER"]
         /\ events' = events \cup {event}
      \/ UNCHANGED <<workspaces, membership, events>>
  BY Atomic
<1> PICK code \in {"CREATED", "INTERNAL_ERROR"}, items \in {{}, {w}} :
      /\ code = "CREATED" => workspaces' # workspaces /\ items = {w}
      /\ handler' = Observed(
           [handler EXCEPT ![h] = Answered(h, code, items)], membership')
  BY Atomic
<1> DEFINE done == Answered(h, code, items)
<1>3. done \in Records
  BY <1>1 DEF Answered, Records, Labels, Codes
<1> PICK a \in Records : a = done
  BY <1>3
<1>4. /\ a.pc = "Deliver" /\ ~a.connected /\ a.answer.code = code
      /\ a.answer.items = items /\ a.id = x.id /\ a.request = x.request
      /\ a.new = w /\ a.user = x.user /\ a.admitted = x.admitted
  BY <1>1 DEF Answered, Records
<1> HIDE DEF done
<1>5. /\ handler'[h] = Seen(a, membership')
      /\ \A k \in Handlers \ {h} : handler'[k] = Seen(handler[k], membership')
      /\ handler' \in [Handlers -> Records]
  <2> DEFINE H == [handler EXCEPT ![h] = a]
  <2>1. H \in [Handlers -> Records] /\ H[h] = a
        /\ \A k \in Handlers \ {h} : H[k] = handler[k]
    BY DEF Inv, Types
  <2>2. handler' = Observed(H, membership')
    BY DEF done
  <2> HIDE DEF H
  <2>3. handler' = [k \in Handlers |-> Seen(H[k], membership')]
    BY <2>2 DEF Observed, Seen
  <2>4. \A k \in Handlers : Seen(H[k], membership') \in Records
    BY <2>1, SeenRecord
  <2>5. \A k \in Handlers : handler'[k] = Seen(H[k], membership')
    BY <2>3
  <2>6. handler' \in [Handlers -> Records]
    BY <2>3, <2>4
  <2>7. handler'[h] = Seen(a, membership')
    BY <2>1, <2>5
  <2>8. ASSUME NEW k \in Handlers \ {h}
        PROVE  handler'[k] = Seen(handler[k], membership')
    BY <2>1, <2>5
  <2> QED
    BY <2>6, <2>7, <2>8
<1>6. /\ workspaces \subseteq workspaces' /\ events \subseteq events'
      /\ workspaces' \ workspaces \subseteq {w}
      /\ events' \ events \subseteq {event} /\ event.request = x.id
  BY <1>2
<1>7. ASSUME NEW k \in Handlers \ {h}
      PROVE  RecordOK(handler[k])'
  <2> DEFINE y == handler[k]
             z == handler'[k]
  <2>1. y \in Records /\ RecordOK(y) /\ Apart(x, y)
    BY DEF Inv, Types
  <2>2. y.pc # "idle" => y.id # x.id
    BY <1>1, <2>1 DEF Apart
  <2>3. y.new # w
    BY <1>1, <2>1, NoneAssumption DEF Apart
  <2> PICK v : v = z
    OBVIOUS
  <2>4. v = Seen(y, membership')
    BY <1>5
  <2>5. y.pc # "idle" => \A e \in events' \ events : e.request # y.id
    BY <1>6, <2>2
  <2>6. y.new \in workspaces' => y.new \in workspaces
    BY <1>6, <2>3
  <2> HIDE DEF y
  <2>7. RecordOK(v)'
    BY <1>1, <1>6, <2>1, <2>4, <2>5, <2>6, SeenKeeps
  <2> QED
    BY <2>7, Same
<1>8. RecordOK(handler[h])'
  <2> PICK v : v = handler'[h]
    OBVIOUS
  <2>1. /\ v.pc = "Deliver" /\ ~v.connected /\ v.answer.code = code
        /\ v.answer.items = items /\ v.id = x.id /\ v.request = x.request
        /\ v.new = w /\ v.user = x.user /\ v.admitted = x.admitted
    BY <1>4, <1>5, SeenRecord
  <2>3. (Frugal(v) /\ Identified(v) /\ Admissible(v) /\ ActsForSession(v)
         /\ OnItsWay(v))'
    BY <1>1, <2>1 DEF Frugal, Identified, Admissible, ActsForSession, OnItsWay,
       Unauthenticated, Authenticated, Inserting
  <2>4. Observant(v)' /\ Current(v)'
    BY <2>1 DEF Observant, Current
  <2>5. Truthful(v)'
    <3>1. code = "CREATED" => w \in workspaces' /\ event \in events' /\ items = {w}
      BY <1>1, <1>2
    <3> QED
      BY <1>1, <2>1, <3>1 DEF Truthful, Created, Refusals
  <2>6. RecordOK(v)'
    BY <2>3, <2>4, <2>5 DEF RecordOK
  <2> QED
    BY <2>6, Same
<1>9. \A k, l \in Handlers : k # l => Apart(handler[k], handler[l])'
  <2>1. \A k \in Handlers :
          /\ handler'[k].pc # "idle" => handler[k].pc # "idle"
          /\ handler'[k].id = handler[k].id /\ handler'[k].new = handler[k].new
    <3> TAKE k \in Handlers
    <3>1. CASE k = h
      BY <1>1, <1>4, <1>5, <3>1, SeenRecord
    <3>2. CASE k # h
      <4>1. handler[k] \in Records /\ handler'[k] = Seen(handler[k], membership')
        BY <1>5, <3>2 DEF Inv, Types
      <4> QED
        BY <4>1, SeenRecord
    <3> QED
      BY <3>1, <3>2
  <2> SUFFICES ASSUME NEW k \in Handlers, NEW l \in Handlers, k # l
               PROVE  Apart(handler[k], handler[l])'
    OBVIOUS
  <2>2. Apart(handler[k], handler[l])
    BY DEF Inv
  <2> QED
    BY <2>1, <2>2 DEF Apart
<1>10. Types' /\ EventsSent'
  <2>1. /\ workspaces' \subseteq Workspaces
        /\ membership' \in [Workspaces -> [Users -> MemberStates]]
        /\ EventsSent'
    BY <1>1, <1>2 DEF Inv, Types, MemberStates, EventsSent
  <2>2. event \in [workspace : Workspaces, user : Users, request : RequestIds]
    BY <1>1 DEF RequestIds, Inv, Types
  <2>3. events' \subseteq [workspace : Workspaces, user : Users, request : RequestIds]
    BY <1>6, <2>2 DEF Inv, Types
  <2> QED
    BY <1>1, <1>5, <2>1, <2>3 DEF Inv, Types
<1>11. AllOrNothing'
  <2> SUFFICES ASSUME NEW v \in Workspaces, v \notin workspaces' PROVE Absent(v)'
    BY DEF AllOrNothing
  <2>1. Absent(v)
    BY <1>6 DEF Inv, AllOrNothing
  <2>2. \A user \in Users : membership'[v][user] = membership[v][user]
    BY <1>1, <1>2 DEF Inv, Types
  <2>3. \A e \in events' : e.workspace = v => e \in events
    BY <1>2
  <2> QED
    BY <2>1, <2>2, <2>3 DEF Absent, EventsOf
<1>12. ToldTheTruth'
  BY <1>1, <1>6 DEF Inv, ToldTheTruth, Created
<1> QED
  BY <1>7, <1>8, <1>9, <1>10, <1>11, <1>12 DEF Inv

-----------------------------------------------------------------------------
LEMMA Inductive == Inv /\ [Next]_vars => Inv'
<1> SUFFICES ASSUME Inv, [Next]_vars PROVE Inv'
  OBVIOUS
<1>1. ASSUME NEW h \in Handlers, NEW request \in Requests, Receive(h, request)
      PROVE  Inv'
  BY <1>1, Receives
<1>2. ASSUME NEW h \in Handlers, Step(h) PROVE Inv'
  BY <1>2, Refuses, Parses, Connects, Authenticates, Validates, Inserts, Commits,
     Reads, Leaves DEF Step
<1>3. CASE Crash
  BY <1>3, Crashes
<1>4. ASSUME NEW w \in Workspaces, NEW user \in Users, ChangeMembership(w, user)
      PROVE  Inv'
  BY <1>4, Administers
<1>5. ASSUME NEW session \in Sessions, EndSession(session) PROVE Inv'
  BY <1>5, Ends
<1>6. CASE UNCHANGED vars
  <2>1. Types' /\ EventsSent' /\ AllOrNothing' /\ ToldTheTruth'
    BY <1>6 DEF vars, database, Inv, Types, EventsSent, AllOrNothing, Absent,
       EventsOf, ToldTheTruth, Created
  <2>2. \A h \in Handlers : RecordOK(handler[h])'
    <3> SUFFICES ASSUME NEW h \in Handlers PROVE RecordOK(handler[h])'
      OBVIOUS
    <3>1. RecordOK(handler[h]) /\ handler' = handler
      BY <1>6 DEF Inv, vars
    <3>2. (/\ Frugal(handler[h]) /\ Identified(handler[h])
           /\ Admissible(handler[h]) /\ ActsForSession(handler[h])
           /\ OnItsWay(handler[h]))'
      BY <1>6, <3>1 DEF vars, database, RecordOK, Frugal, Identified, Admissible,
         ActsForSession, OnItsWay
    <3>3. Observant(handler[h])' /\ Current(handler[h])'
      BY <1>6, <3>1 DEF vars, database, RecordOK, Observant, Current, Joined
    <3>4. Truthful(handler[h])'
      BY <1>6, <3>1 DEF vars, database, RecordOK, Truthful, Created
    <3> QED
      BY <3>2, <3>3, <3>4 DEF RecordOK
  <2>3. \A h, k \in Handlers : h # k => Apart(handler[h], handler[k])'
    BY <1>6 DEF vars, Inv, Apart
  <2> QED
    BY <2>1, <2>2, <2>3 DEF Inv
<1> QED
  BY <1>1, <1>2, <1>3, <1>4, <1>5, <1>6 DEF Next

(* The invariant holds of every reachable state. *)
THEOREM Invariance == Spec => []Inv
BY Initially, Inductive, PTL DEF Spec

(* No handler waits for a database connection while it holds one, whatever *)
(* the size of the pool and the number of handlers.                        *)
THEOREM WaitersNeverHold == Spec => []WaitersHoldNothing
<1>1. Inv => WaitersHoldNothing
  BY DEF Inv, RecordOK, Frugal, WaitersHoldNothing, Inserting
<1> QED
  BY <1>1, Invariance, PTL

(* What an answer claims is so, and no creation that was confirmed is lost *)
(* or shared, through lost commits, lost answers and crashes.              *)
THEOREM AnswersStayTrue == Spec => []AnswersAreTrue
<1>1. ASSUME Inv PROVE AnswersAreTrue
  <2>1. ASSUME NEW h \in Handlers, Serving(h, "Deliver")
        PROVE  Truthful(handler[h])
    BY <1>1 DEF Inv, RecordOK
  <2>2. ToldTheTruth
    BY <1>1 DEF Inv
  <2> QED
    BY <2>1, <2>2 DEF AnswersAreTrue, Answers, Serving, Truthful, Refusals,
       ToldTheTruth
<1> QED
  BY <1>1, Invariance, PTL

(* Every read answers from one instant after its connection for the work   *)
(* was taken, however memberships change between its steps.                *)
THEOREM ReadsStayCurrent == Spec => []ReadsAreCurrent
<1>1. ASSUME Inv PROVE ReadsAreCurrent
  <2>1. ASSUME NEW h \in Handlers PROVE Current(handler[h])
    BY <1>1 DEF Inv, RecordOK
  <2> QED
    BY <2>1 DEF ReadsAreCurrent, Answers, Serving, Current, Kind
<1> QED
  BY <1>1, Invariance, PTL

-----------------------------------------------------------------------------
(* The refinement. *)

Row(w) ==
  [row |-> w \in workspaces, members |-> membership[w], events |-> EventsOf(w)]

LEMMA Rows ==
  ASSUME Types
  PROVE  /\ tenants = [w \in Workspaces |-> IF Absent(w) THEN None ELSE Row(w)]
         /\ \A w \in Workspaces : ~Absent(w) <=> tenants[w] # None
<1>1. \A w \in Workspaces :
        /\ membership[w] \in [Users -> MemberStates]
        /\ EventsOf(w) \in SUBSET [user : Users, request : RequestIds]
        /\ (w \in workspaces) \in BOOLEAN
  BY DEF Types, EventsOf
<1>2. \A w \in Workspaces : Row(w) # None
  <2> TAKE w \in Workspaces
  <2> DEFINE row == (w \in workspaces)
             members == membership[w]
             born == EventsOf(w)
  <2>1. row \in BOOLEAN /\ members \in [Users -> MemberStates]
        /\ born \in SUBSET [user : Users, request : RequestIds]
    BY <1>1
  <2> HIDE DEF row, members, born
  <2>2. [row |-> row, members |-> members, events |-> born] # None
    BY <2>1
  <2> QED
    BY <2>2 DEF Row, row, members, born
<1>3. tenants = [w \in Workspaces |-> IF Absent(w) THEN None ELSE Row(w)]
  BY DEF tenants, Row
<1> QED
  BY <1>2, <1>3

LEMMA TenantsUntouched ==
  ASSUME UNCHANGED <<workspaces, membership, events>>
  PROVE  UNCHANGED tenants
BY DEF tenants, Absent, EventsOf

LEMMA CommitCreates ==
  ASSUME Inv, NEW h \in Handlers, Commit(h)
  PROVE  \/ Tenants!CreateWorkspace(handler[h].new, handler[h].user, handler[h].id)
         \/ UNCHANGED tenants
<1> DEFINE x == handler[h]
<1> PICK w : w = x.new
  OBVIOUS
<1> PICK event : event = [workspace |-> w, user |-> x.user, request |-> x.id]
  OBVIOUS
<1>1. /\ x.user \in Users /\ w \in Workspaces \ workspaces
      /\ \A e \in events : e.request # x.id
  BY Atomic
<1>2. \/ /\ workspaces' = workspaces \cup {w}
         /\ membership' = [membership EXCEPT ![w][x.user] = "OWNER"]
         /\ events' = events \cup {event}
      \/ UNCHANGED <<workspaces, membership, events>>
  BY Atomic
<1>3. Types /\ Types' /\ Absent(w)
  BY <1>1, Commits DEF Inv, AllOrNothing
<1>4. CASE UNCHANGED <<workspaces, membership, events>>
  BY <1>4, TenantsUntouched
<1>5. CASE /\ workspaces' = workspaces \cup {w}
           /\ membership' = [membership EXCEPT ![w][x.user] = "OWNER"]
           /\ events' = events \cup {event}
  <2>1. tenants[w] = None
    BY <1>1, <1>3, Rows
  <2>2. ASSUME NEW other \in Workspaces, tenants[other] # None,
               NEW e \in tenants[other].events
        PROVE  e.request # x.id
    <3>1. tenants[other] = Row(other)
      BY <1>3, <2>2, Rows
    <3>2. e \in EventsOf(other)
      BY <2>2, <3>1 DEF Row
    <3> QED
      BY <1>1, <3>2 DEF EventsOf
  <2> DEFINE owned == [u \in Users |-> IF u = x.user THEN "OWNER" ELSE "NONE"]
             born == [user |-> x.user, request |-> x.id]
  <2>3. membership'[w] = owned
    BY <1>1, <1>3, <1>5 DEF Types, Absent
  <2>4. EventsOf(w)' = {born}
    <3>1. ASSUME NEW e \in events, e.workspace = w PROVE FALSE
      <4>1. [user |-> e.user, request |-> e.request] \in EventsOf(w)
        BY <3>1 DEF EventsOf
      <4> QED
        BY <1>3, <4>1 DEF Absent
    <3>2. {e \in events' : e.workspace = w} = {event}
      BY <1>5, <3>1
    <3> QED
      BY <3>2 DEF EventsOf
  <2>5. w \in workspaces' /\ ~Absent(w)'
    BY <1>5 DEF Absent
  <2>6. tenants'[w] = Tenants!Born(owned, x.user, x.id)
    BY <1>1, <1>3, <2>3, <2>4, <2>5, Rows DEF Row, Tenants!Born, tenants
  <2>7. ASSUME NEW v \in Workspaces, v # w
        PROVE  tenants'[v] = tenants[v]
    <3>1. (v \in workspaces') = (v \in workspaces)
      BY <1>5, <2>7
    <3>2. membership'[v] = membership[v]
      BY <1>1, <1>3, <1>5, <2>7 DEF Types
    <3>3. EventsOf(v)' = EventsOf(v)
      BY <1>5, <2>7 DEF EventsOf
    <3> QED
      BY <3>1, <3>2, <3>3 DEF tenants, Absent
  <2>8. tenants' = [tenants EXCEPT ![w] = Tenants!Born(owned, x.user, x.id)]
    <3> HIDE DEF owned
    <3>1. /\ tenants = [v \in Workspaces |-> tenants[v]]
          /\ tenants' = [v \in Workspaces |-> tenants'[v]]
      BY DEF tenants
    <3> QED
      BY <1>1, <2>6, <2>7, <3>1
  <2> QED
    BY <2>1, <2>2, <2>8 DEF Tenants!CreateWorkspace
<1> QED
  BY <1>2, <1>4, <1>5

LEMMA AdministrationChanges ==
  ASSUME Inv, NEW w \in Workspaces, NEW user \in Users, ChangeMembership(w, user)
  PROVE  Tenants!ChangeMembership(w, user)
<1>1. /\ UNCHANGED <<workspaces, events>> /\ w \in workspaces
      /\ \E state \in MemberStates :
           membership' = [membership EXCEPT ![w][user] = state]
  BY DEF ChangeMembership, MemberStates
<1> PICK state \in MemberStates :
      membership' = [membership EXCEPT ![w][user] = state]
  BY <1>1
<1>2. Types /\ ~Absent(w) /\ ~Absent(w)'
  BY <1>1 DEF Inv, Absent
<1>3. tenants[w] # None /\ tenants[w] = Row(w)
  BY <1>2, Rows
<1> DEFINE members == [membership[w] EXCEPT ![user] = state]
<1>4. membership'[w] = members
  BY <1>2 DEF Types
<1>5. tenants'[w] = [tenants[w] EXCEPT !.members[user] = state]
  <2>1. EventsOf(w)' = EventsOf(w)
    BY <1>1 DEF EventsOf
  <2>2. tenants'[w] =
          [row |-> w \in workspaces, members |-> members, events |-> EventsOf(w)]
    BY <1>1, <1>2, <1>4, <2>1 DEF tenants
  <2> QED
    BY <1>3, <2>2 DEF Row
<1>6. ASSUME NEW v \in Workspaces, v # w
      PROVE  tenants'[v] = tenants[v]
  <2>1. membership'[v] = membership[v]
    BY <1>2, <1>6 DEF Types
  <2>2. EventsOf(v)' = EventsOf(v)
    BY <1>1 DEF EventsOf
  <2> QED
    BY <1>1, <2>1, <2>2 DEF tenants, Absent
<1>7. tenants' = [tenants EXCEPT ![w].members[user] = state]
  <2>1. /\ tenants = [v \in Workspaces |-> tenants[v]]
        /\ tenants' = [v \in Workspaces |-> tenants'[v]]
    BY DEF tenants
  <2> QED
    BY <1>5, <1>6, <2>1
<1> QED
  BY <1>3, <1>7 DEF Tenants!ChangeMembership

(* Requests implement Tenancy: a workspace appears in one step with its    *)
(* owner and the one event of its request, and never vanishes.  Crashes    *)
(* and lost commits, answers and connections are stuttering.               *)
THEOREM RequestsImplementTenancy == Spec => ImplementsTenancy
<1>1. Init => Tenants!Init
  <2> SUFFICES ASSUME Init PROVE Tenants!Init
    OBVIOUS
  <2>1. \A w \in Workspaces : Absent(w)
    BY DEF Init, Absent, EventsOf
  <2> QED
    BY <2>1 DEF Tenants!Init, tenants
<1>2. Inv /\ [Next]_vars => [Tenants!Next]_tenants
  <2> SUFFICES ASSUME Inv, [Next]_vars
               PROVE  Tenants!Next \/ UNCHANGED tenants
    BY DEF Tenants!Next
  <2>1. ASSUME NEW h \in Handlers, Commit(h)
        PROVE  Tenants!Next \/ UNCHANGED tenants
    <3>1. /\ handler[h].new \in Workspaces /\ handler[h].user \in Users
          /\ handler[h].id \in 1..sent /\ sent \in 0..MaxRequests
      BY <2>1, Atomic DEF Inv, Types
    <3>2. handler[h].id \in RequestIds
      BY <3>1 DEF RequestIds
    <3> QED
      BY <2>1, <3>1, <3>2, CommitCreates DEF Tenants!Next
  <2>2. ASSUME NEW h \in Handlers, Step(h), ~Commit(h)
        PROVE  UNCHANGED <<workspaces, membership, events>>
    BY <2>2 DEF Step, RejectMalformed, Parse, RejectCredential, Connect,
       ResolvePrincipal, Validate, InsertWorkspace, InsertOwnerMembership,
       InsertWorkspaceAudit, Query, Fail, Deliver, Lose, Answer, database
  <2>3. ASSUME NEW w \in Workspaces, NEW user \in Users,
               ChangeMembership(w, user)
        PROVE  Tenants!Next
    BY <2>3, AdministrationChanges DEF Tenants!Next
  <2>4. ASSUME \/ UNCHANGED vars \/ Crash
               \/ \E h \in Handlers, request \in Requests : Receive(h, request)
               \/ \E session \in Sessions : EndSession(session)
        PROVE  UNCHANGED <<workspaces, membership, events>>
    BY <2>4 DEF vars, database, Crash, Receive, EndSession
  <2> QED
    BY <2>1, <2>2, <2>3, <2>4, TenantsUntouched DEF Next
<1> QED
  BY <1>1, <1>2, Invariance, PTL DEF Spec, ImplementsTenancy, Tenants!Spec

=============================================================================
