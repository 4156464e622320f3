------------------------ MODULE ConnectionReads_proofs ------------------------
(***************************************************************************)
(* Theorems about walks through a changing list: for any number of rows,   *)
(* readers and writers, any page limit and any order of timestamps.        *)
(***************************************************************************)
EXTENDS ConnectionReads, FiniteSetTheorems, TLAPS

USE OperationsAssumption, NoneAssumption, ReadRequestsAssumption,
    RankAssumption, InstantsAssumption, AbsenceAssumption

-----------------------------------------------------------------------------
(* What the tables and each reader's record satisfy. *)

Stored ==
  /\ connection \in [Connections -> ConnectionRows \cup {None}]
  /\ projectWorkspace \in [Projects -> Workspaces \cup {None}]
  /\ createdAt \in [Connections \cup Projects -> Instants \cup {None}]
  /\ \A c \in Connections : connection[c] # None => createdAt[c] \in Instants
  /\ \A p \in Projects : projectWorkspace[p] # None => createdAt[p] \in Instants

History ==
  /\ revisions = [c \in Connections |-> revisions[c]]
  /\ \A c \in Connections : Gapless(revisions[c])

Fields ==
  {"request", "step", "role", "workspaceStatus", "status", "cursor",
   "delivered", "repeated", "promised", "answer"}

(* All a walk has delivered is at or ahead of the cursor, all it still     *)
(* owes is behind it.                                                      *)
Passed(q, cursor, delivered) ==
  /\ delivered \subseteq Listed(q)
  /\ cursor = None => delivered = {}
  /\ cursor # None =>
       /\ cursor \in Listed(q)
       /\ \A d \in delivered : d = cursor \/ Older(q, cursor, d)

OnTheWay(x) ==
  LET q == x.request IN
  /\ x.step # "idle" =>
       /\ ~x.repeated
       /\ Passed(q, x.cursor, x.delivered)
       /\ x.promised \subseteq x.delivered \cup Beyond(q, x.cursor)
  /\ x.answer = "DELIVERED" => x.promised \subseteq x.delivered /\ ~x.repeated

(* A walk through revisions has counted from m down to k. *)
CountedTo(cursor, k, m) ==
  \/ cursor = None /\ k = m + 1
  \/ cursor = k /\ k <= m

CountsDown(x) ==
  \E k \in Nat \ {0}, m \in Nat :
    /\ k <= m + 1 /\ x.delivered = k..m
    /\ x.answer = "DELIVERED" => k = 1
    /\ x.step # "idle" => CountedTo(x.cursor, k, m)

ReadingOK(x) ==
  /\ DOMAIN x = Fields
  /\ x.request \in ReadRequests \cup {None}
  /\ x.step # "idle" => x.request # None /\ x.answer # "DELIVERED"
  /\ x.request # None /\ x.request.kind \in Listings => OnTheWay(x)
  /\ x.request # None /\ x.request.kind = "LIST_REVISIONS" => CountsDown(x)

Inv ==
  /\ Stored /\ History
  /\ read = [r \in Readers |-> read[r]]
  /\ \A r \in Readers : ReadingOK(read[r])

-----------------------------------------------------------------------------
(* The order of a listing. *)

Row(q) ==
  IF q.kind = "LIST_REVISIONS" THEN Nat
  ELSE [at : Instants, id : Connections \cup Projects]

LEMMA Ordered ==
  ASSUME NEW q, NEW a \in Row(q), NEW b \in Row(q)
  PROVE  /\ ~Older(q, a, a)
         /\ \A c \in Row(q) : Older(q, a, b) /\ Older(q, b, c) => Older(q, a, c)
         /\ Newer(q, a, b) <=> Older(q, b, a)
         /\ a = b \/ Older(q, a, b) \/ Older(q, b, a)
         /\ a # None
<1>1. CASE q.kind = "LIST_REVISIONS"
  BY <1>1 DEF Row, Older, Newer
<1>2. CASE q.kind # "LIST_REVISIONS"
  <2>1. \A x \in Row(q) : /\ x.at \in Nat /\ x.id \in Connections \cup Projects
                          /\ Rank[x.id] \in Nat
    BY <1>2 DEF Row
  <2>2. a = b \/ Older(q, a, b) \/ Older(q, b, a)
    <3>1. a.at = b.at /\ a.id = b.id => a = b
      BY <1>2 DEF Row
    <3> QED
      BY <1>2, <2>1, <3>1 DEF Older
  <2>3. \A c \in Row(q) : Older(q, a, b) /\ Older(q, b, c) => Older(q, a, c)
    BY <1>2, <2>1 DEF Older
  <2>4. ~Older(q, a, a) /\ (Newer(q, a, b) <=> Older(q, b, a))
    BY <1>2, <2>1 DEF Older, Newer
  <2>5. a # None
    BY <1>2 DEF Row
  <2> QED
    BY <2>2, <2>3, <2>4, <2>5
<1> QED
  BY <1>1, <1>2

LEMMA ListedRows ==
  ASSUME Stored, History, NEW q \in ReadRequests
  PROVE  q.kind \in Listings => Listed(q) \subseteq Row(q)
<1>1. /\ q.workspace \in Workspaces /\ q.connection \in Connections
      /\ q.workspace # None
  BY DEF ReadRequestRecords
<1>2. CASE q.kind = "LIST_CONNECTIONS"
  BY <1>2 DEF Listed, Row, Stored
<1>3. CASE q.kind = "LIST_PROJECTS"
  BY <1>1, <1>3 DEF Listed, Row, Stored
<1>4. CASE q.kind = "LIST_REVISIONS"
  <2>1. Gapless(revisions[q.connection])
    BY <1>1 DEF History
  <2>2. Listed(q) = 1..Cardinality(revisions[q.connection])
    BY <1>4, <2>1 DEF Listed, Gapless
  <2> QED
    BY <1>4, <2>2 DEF Row
<1> QED
  BY <1>2, <1>3, <1>4 DEF Listings

-----------------------------------------------------------------------------
LEMMA Initially == ReadsInit => Inv
<1> SUFFICES ASSUME ReadsInit PROVE Inv
  OBVIOUS
<1>1. Stored
  BY DEF ReadsInit, Init, Stored
<1>2. History
  <2>1. Gapless({})
    BY FS_EmptySet DEF Gapless
  <2> QED
    BY <2>1 DEF ReadsInit, Init, History
<1>3. \A r \in Readers : read[r] = Idle
  BY DEF ReadsInit
<1>4. ReadingOK(Idle)
  BY DEF ReadingOK, Idle, Fields
<1> QED
  BY <1>1, <1>2, <1>3, <1>4 DEF Inv, ReadsInit

(* What is known of a walk survives when rows are added to its listing.    *)
LEMMA Lasts ==
  ASSUME NEW r, NEW x, x = read'[r], ReadingOK(x),
         x.request # None /\ x.request.kind \in Listings =>
           Listed(x.request) \subseteq Listed(x.request)'
  PROVE  ReadingOK(read[r])'
<1>1. x.request # None /\ x.request.kind \in Listings => OnTheWay(x)'
  BY DEF ReadingOK, OnTheWay, Passed, Beyond
<1>2. CountsDown(x)' <=> CountsDown(x)
  BY DEF CountsDown
<1>3. ReadingOK(x)'
  BY <1>1, <1>2 DEF ReadingOK
<1>4. x.request # None /\ x.request.kind \in Listings => OnTheWay(read[r])'
  BY <1>1 DEF OnTheWay, Passed, Beyond, Listed
<1>5. CountsDown(x)' => CountsDown(read[r])'
  BY DEF CountsDown, CountedTo
<1> QED
  BY <1>3, <1>4, <1>5 DEF ReadingOK

(* A reader's step changes its own record only. *)
LEMMA OwnReading ==
  ASSUME Inv, NEW r \in Readers, NEW y, ReadingOK(y),
         read' = [read EXCEPT ![r] = y], UNCHANGED <<vars, createdAt>>
  PROVE  Inv'
<1>1. Stored' /\ History'
  BY DEF Inv, Stored, History, vars
<1>2. \A k \in Readers : read'[k] = IF k = r THEN y ELSE read[k]
  BY DEF Inv
<1>3. read' = [k \in Readers |-> read'[k]]
  BY DEF Inv
<1>4. \A k \in Readers : ReadingOK(read'[k])
  BY <1>2 DEF Inv
<1>5. ASSUME NEW k \in Readers PROVE ReadingOK(read[k])'
  <2> PICK z : z = read'[k]
    OBVIOUS
  <2>1. Listed(z.request)' = Listed(z.request)
    BY DEF Listed, vars
  <2> QED
    BY <1>4, <2>1, Lasts
<1> QED
  BY <1>1, <1>3, <1>5 DEF Inv

LEMMA Begins ==
  ASSUME Inv, NEW r \in Readers, NEW q \in ReadRequests, BeginRead(r, q)
  PROVE  Inv'
<1> DEFINE begun == [Idle EXCEPT
             !.request = q, !.step = FirstStep(q),
             !.promised = IF q.kind \in Listings THEN Listed(q) ELSE {}]
<1> PICK y : y = begun
  OBVIOUS
<1>1. /\ DOMAIN y = Fields /\ y.request = q /\ y.step # "idle"
      /\ y.cursor = None /\ y.delivered = {} /\ y.repeated = FALSE
      /\ y.answer = None
      /\ q.kind \in Listings => y.promised = Listed(q)
  BY DEF Idle, Fields, FirstStep
<1>2. read' = [read EXCEPT ![r] = y] /\ UNCHANGED <<vars, createdAt>>
  BY DEF BeginRead
<1> HIDE DEF begun
<1>3. q.kind \in Listings => OnTheWay(y)
  BY <1>1 DEF OnTheWay, Passed, Beyond
<1>4. CountsDown(y)
  <2>1. 1..0 = {} /\ 1 \in Nat \ {0} /\ 0 \in Nat /\ 1 = 0 + 1
    OBVIOUS
  <2>2. y.delivered = 1..0 /\ CountedTo(y.cursor, 1, 0)
    BY <1>1, <2>1 DEF CountedTo
  <2> QED
    BY <1>1, <2>1, <2>2 DEF CountsDown
<1>5. ReadingOK(y)
  BY <1>1, <1>3, <1>4 DEF ReadingOK
<1> QED
  BY <1>2, <1>5, OwnReading

(* A step that keeps request, cursor and what was delivered, and ends      *)
(* without an answer to the walk or goes on.                               *)
LEMMA GoesOn ==
  ASSUME NEW x, ReadingOK(x), x.step # "idle", NEW y, DOMAIN y = Fields,
         y.request = x.request, y.cursor = x.cursor,
         y.delivered = x.delivered, y.repeated = x.repeated,
         y.promised = x.promised,
         y.step # "idle" => y.answer = x.answer,
         x.request.kind \in Listings => y.answer # "DELIVERED"
  PROVE  ReadingOK(y)
<1>1. x.request # None /\ x.answer # "DELIVERED"
  BY DEF ReadingOK
<1>2. x.request.kind \in Listings => OnTheWay(y)
  BY <1>1 DEF ReadingOK, OnTheWay
<1>3. x.request.kind = "LIST_REVISIONS" => CountsDown(y)
  <2> SUFFICES ASSUME x.request.kind = "LIST_REVISIONS" PROVE CountsDown(y)
    OBVIOUS
  <2>1. CountsDown(x) /\ y.answer # "DELIVERED"
    BY <1>1 DEF ReadingOK, Listings
  <2> QED
    BY <2>1 DEF CountsDown
<1> QED
  BY <1>1, <1>2, <1>3 DEF ReadingOK

LEMMA Replies ==
  ASSUME Inv, NEW r \in Readers, read[r].step # "idle", NEW answer,
         Request(r).kind \in Listings => answer # "DELIVERED", Reply(r, answer)
  PROVE  Inv'
<1> DEFINE x == read[r]
<1> PICK y : y = [x EXCEPT !.step = "idle", !.answer = answer]
  OBVIOUS
<1>1. ReadingOK(x) /\ DOMAIN x = Fields
  BY DEF Inv, ReadingOK
<1>2. /\ DOMAIN y = Fields /\ y.request = x.request /\ y.cursor = x.cursor
      /\ y.delivered = x.delivered /\ y.repeated = x.repeated
      /\ y.promised = x.promised /\ y.step = "idle" /\ y.answer = answer
  BY <1>1 DEF Fields
<1>3. ReadingOK(y)
  BY <1>1, <1>2, GoesOn DEF Request
<1>4. read' = [read EXCEPT ![r] = y] /\ UNCHANGED <<vars, createdAt>>
  BY DEF Reply, Inv
<1> QED
  BY <1>3, <1>4, OwnReading

(* A detail is delivered. *)
LEMMA Delivers ==
  ASSUME Inv, NEW r \in Readers, read[r].step # "idle", NEW item,
         Request(r).kind \notin Listings, Deliver(r, item)
  PROVE  Inv'
<1> DEFINE x == read[r]
<1> PICK y : y = [x EXCEPT !.step = "idle", !.answer = "DELIVERED",
                           !.delivered = {item}]
  OBVIOUS
<1>1. ReadingOK(x) /\ DOMAIN x = Fields
  BY DEF Inv, ReadingOK
<1>2. DOMAIN y = Fields /\ y.request = x.request /\ y.step = "idle"
  BY <1>1 DEF Fields
<1>3. ReadingOK(y)
  BY <1>1, <1>2 DEF ReadingOK, Request, Listings
<1>4. read' = [read EXCEPT ![r] = y] /\ UNCHANGED <<vars, createdAt>>
  BY DEF Deliver, Inv
<1> QED
  BY <1>3, <1>4, OwnReading

-----------------------------------------------------------------------------
(* One page of a walk. *)

IsPage(q, cursor, items, next) ==
  /\ items \subseteq Beyond(q, cursor)
  /\ Visible(q, Beyond(q, cursor), items)
  /\ Resumes(q, Beyond(q, cursor), items, next)

(* The rows of a page are new to the client, and none it has passed is     *)
(* left out.                                                               *)
LEMMA PageKeepsWalk ==
  ASSUME NEW q, Listed(q) \subseteq Row(q), NEW cursor, NEW delivered,
         Passed(q, cursor, delivered),
         NEW items, NEW next, IsPage(q, cursor, items, next)
  PROVE  /\ delivered \cap items = {}
         /\ next = None => items = Beyond(q, cursor)
         /\ next # None =>
              /\ next \in items
              /\ \A d \in delivered \cup items : d = next \/ Older(q, next, d)
              /\ Beyond(q, cursor) \subseteq items \cup Beyond(q, next)
<1> USE DEF Passed, IsPage
<1> DEFINE rows == Beyond(q, cursor)
<1>1. rows \subseteq Listed(q) /\ \A i \in rows : cursor # None => Older(q, i, cursor)
  BY DEF Beyond
<1>2. ASSUME NEW d \in delivered, NEW i \in items
      PROVE  Older(q, i, d) /\ d # i
  <2>1. cursor # None /\ Older(q, i, cursor) /\ d \in Row(q) /\ i \in Row(q)
        /\ cursor \in Row(q) /\ (d = cursor \/ Older(q, cursor, d))
    BY <1>1
  <2>2. Older(q, i, d)
    BY <2>1, Ordered
  <2> QED
    BY <2>1, <2>2, Ordered
<1>3. delivered \cap items = {}
  BY <1>2
<1>4. CASE ~HasMore(rows)
  BY <1>3, <1>4 DEF Visible, Resumes
<1>5. CASE HasMore(rows)
  <2>1. next \in items /\ \A a \in items : ~Newer(q, next, a)
    BY <1>5 DEF Resumes
  <2>2. next \in Row(q) /\ next # None
    BY <1>1, <2>1, Ordered
  <2>3. ASSUME NEW a \in items PROVE a = next \/ Older(q, next, a)
    <3>1. a \in Row(q) /\ ~Newer(q, next, a)
      BY <1>1, <2>1
    <3> QED
      BY <2>2, <3>1, Ordered
  <2>4. ASSUME NEW b \in rows \ items PROVE b \in Beyond(q, next)
    <3>1. b \in Row(q) /\ Newer(q, next, b) /\ b \in Listed(q)
      BY <1>1, <2>1 DEF Visible
    <3>2. Older(q, b, next)
      BY <2>2, <3>1, Ordered
    <3> QED
      BY <3>1, <3>2 DEF Beyond
  <2> QED
    BY <1>2, <1>3, <2>1, <2>2, <2>3, <2>4
<1> QED
  BY <1>4, <1>5

(* A page of revisions continues the countdown. *)
LEMMA PageCountsOn ==
  ASSUME NEW q, q.kind = "LIST_REVISIONS", NEW N \in Nat, Listed(q) = 1..N,
         NEW k \in Nat \ {0}, NEW m \in Nat, NEW cursor,
         CountedTo(cursor, k, m), cursor # None => cursor \in Listed(q),
         NEW items, NEW next, IsPage(q, cursor, items, next)
  PROVE  \E l \in Nat \ {0}, n \in Nat :
           /\ l <= n + 1 /\ (k..m) \cup items = l..n
           /\ next = None => l = 1
           /\ next # None => next = l /\ l <= n
<1> USE DEF IsPage, CountedTo
<1> DEFINE rows == Beyond(q, cursor)
<1>1. PICK top \in Nat : /\ rows = 1..top
                         /\ (k..m) \cup (1..top) = 1..(IF k <= m THEN m ELSE top)
                         /\ k <= m => top = k - 1
  <2>1. CASE cursor = None
    <3>1. k = m + 1
      BY <2>1
    <3>2. rows = 1..N
      BY <2>1 DEF Beyond
    <3>3. (k..m) = {}
      BY <3>1
    <3> QED
      BY <3>1, <3>2, <3>3
  <2>2. CASE cursor # None
    <3>1. cursor = k /\ k <= m /\ k \in 1..N
      BY <2>2
    <3>2. rows = 1..(k - 1)
      BY <2>2, <3>1 DEF Beyond, Older
    <3>3. (k..m) \cup (1..(k - 1)) = 1..m
      BY <3>1
    <3> QED
      BY <3>1, <3>2, <3>3
  <2> QED
    BY <2>1, <2>2
<1> HIDE DEF rows
<1> DEFINE n == IF k <= m THEN m ELSE top
<1>2. CASE ~HasMore(rows)
  <2>1. items = 1..top /\ next = None
    BY <1>1, <1>2 DEF Visible, Resumes, rows
  <2>2. n \in Nat /\ 1 <= n + 1 /\ (k..m) \cup items = 1..n
    BY <1>1, <2>1
  <2> QED
    BY <2>1, <2>2
<1>3. CASE HasMore(rows)
  <2>1. /\ next \in items /\ items \subseteq 1..top
        /\ \A a \in items : ~Newer(q, next, a)
        /\ \A a \in items, b \in rows \ items : Newer(q, a, b)
    BY <1>1, <1>3 DEF Visible, Resumes, rows
  <2>2. next \in Nat \ {0} /\ next # None /\ next <= top
    BY <2>1
  <2>3. items = next..top
    <3>1. ASSUME NEW a \in items PROVE a \in next..top
      BY <2>1, <2>2, <3>1 DEF Newer
    <3>2. ASSUME NEW a \in next..top PROVE a \in items
      <4>1. a \in rows
        BY <1>1, <2>2
      <4>2. a \notin items => next > a
        BY <2>1, <4>1 DEF Newer
      <4> QED
        BY <2>2, <4>2
    <3> QED
      BY <3>1, <3>2
  <2>4. n \in Nat /\ next <= n /\ (k..m) \cup (next..top) = next..n
    BY <1>1, <2>2
  <2> QED
    BY <2>2, <2>3, <2>4
<1> QED
  BY <1>2, <1>3

LEMMA Continues ==
  ASSUME Inv, NEW r \in Readers, read[r].step # "idle",
         Request(r).kind \in Listings, DeliverPage(r)
  PROVE  Inv'
<1> DEFINE x == read[r]
           q == Request(r)
<1>1. /\ ReadingOK(x) /\ DOMAIN x = Fields /\ q \in ReadRequests
      /\ q.kind \in Listings /\ q # None /\ OnTheWay(x)
  BY DEF Inv, ReadingOK, Request
<1>2. Listed(q) \subseteq Row(q)
  BY <1>1, ListedRows DEF Inv
<1> PICK items \in SUBSET Beyond(q, x.cursor),
         next \in Beyond(q, x.cursor) \cup {None} :
      /\ Visible(q, Beyond(q, x.cursor), items)
      /\ Resumes(q, Beyond(q, x.cursor), items, next)
      /\ read' = [read EXCEPT ![r] = WithPage(read[r], items, next)]
  BY Zenon DEF DeliverPage
<1> PICK y : y = WithPage(x, items, next)
  OBVIOUS
<1>3. /\ DOMAIN y = Fields /\ y.request = q /\ y.promised = x.promised
      /\ y.delivered = x.delivered \cup items /\ y.cursor = next
      /\ y.repeated <=> x.repeated \/ x.delivered \cap items # {}
      /\ y.step = IF next = None THEN "idle" ELSE FirstStep(q)
      /\ y.answer = IF next = None THEN "DELIVERED" ELSE None
  BY <1>1 DEF Fields, Request, WithPage
<1>4. /\ read' = [read EXCEPT ![r] = y] /\ UNCHANGED <<vars, createdAt>>
      /\ IsPage(q, x.cursor, items, next)
      /\ FirstStep(q) # "idle"
  <2>1. read' = [read EXCEPT ![r] = y]
    OBVIOUS
  <2>2. IsPage(q, x.cursor, items, next)
    BY DEF IsPage
  <2>3. FirstStep(q) # "idle"
    BY DEF FirstStep
  <2>4. UNCHANGED <<vars, createdAt>>
    BY DEF DeliverPage
  <2> QED
    BY <2>1, <2>2, <2>3, <2>4
<1>5. /\ ~x.repeated /\ Passed(q, x.cursor, x.delivered)
      /\ x.promised \subseteq x.delivered \cup Beyond(q, x.cursor)
  BY <1>1 DEF OnTheWay, Request
<1>6. /\ x.delivered \cap items = {}
      /\ next = None => items = Beyond(q, x.cursor)
      /\ next # None =>
           /\ next \in items
           /\ \A d \in x.delivered \cup items : d = next \/ Older(q, next, d)
           /\ Beyond(q, x.cursor) \subseteq items \cup Beyond(q, next)
  BY <1>2, <1>4, <1>5, PageKeepsWalk
<1>7. OnTheWay(y)
  <2>1. x.delivered \cup items \subseteq Listed(q)
    BY <1>5 DEF Beyond, IsPage, Passed
  <2>2. CASE next = None
    BY <1>3, <1>4, <1>5, <1>6, <2>2 DEF OnTheWay
  <2>3. CASE next # None
    BY <1>3, <1>4, <1>5, <1>6, <2>1, <2>3 DEF OnTheWay, Passed
  <2> QED
    BY <2>2, <2>3
<1>8. q.kind = "LIST_REVISIONS" => CountsDown(y)
  <2> SUFFICES ASSUME q.kind = "LIST_REVISIONS" PROVE CountsDown(y)
    OBVIOUS
  <2>1. PICK k \in Nat \ {0}, m \in Nat :
          x.delivered = k..m /\ CountedTo(x.cursor, k, m)
    BY <1>1 DEF ReadingOK, CountsDown, Request
  <2>2. PICK N \in Nat : Listed(q) = 1..N
    <3>1. q.connection \in Connections
      BY <1>1 DEF ReadRequestRecords
    <3>2. Gapless(revisions[q.connection])
      BY <3>1 DEF Inv, History
    <3> QED
      BY <3>2, FS_CardinalityType DEF Listed, Gapless
  <2>3. x.cursor # None => x.cursor \in Listed(q)
    BY <1>5 DEF Passed
  <2>4. PICK l \in Nat \ {0}, n \in Nat :
          /\ l <= n + 1 /\ (k..m) \cup items = l..n
          /\ next = None => l = 1
          /\ next # None => next = l /\ l <= n
    BY <1>4, <2>1, <2>2, <2>3, PageCountsOn
  <2>5. y.delivered = l..n
    BY <1>3, <2>1, <2>4
  <2>6. y.answer = "DELIVERED" => l = 1
    BY <1>3, <2>4
  <2>7. y.step # "idle" => CountedTo(y.cursor, l, n)
    BY <1>3, <2>4 DEF CountedTo
  <2> QED
    BY <2>4, <2>5, <2>6, <2>7 DEF CountsDown
<1>9. ReadingOK(y)
  BY <1>1, <1>3, <1>7, <1>8 DEF ReadingOK
<1> QED
  BY <1>4, <1>9, OwnReading

(* The statements of a read that is not a page. *)
LEMMA StepsKeep ==
  ASSUME Inv, NEW r \in Readers, ReadStep(r)
  PROVE  Inv'
<1> DEFINE x == read[r]
<1>1. ReadingOK(x) /\ DOMAIN x = Fields
  BY DEF Inv, ReadingOK
<1>2. x.step # "idle"
  BY DEF ReadStep, ListPage, GetConnection, GetProject, ReadWorkspaceContext,
     ReadConnectionContext, SelectDraft, ListRevisions, GetRevision
<1>3. CASE ListPage(r)
  <2>1. Request(r).kind \in Listings
    BY <1>3 DEF ListPage, Listings
  <2>2. DeliverPage(r) \/ Reply(r, "WORKSPACE_NOT_FOUND")
    BY <1>3 DEF ListPage
  <2> QED
    BY <1>2, <2>1, <2>2, Continues, Replies
<1>4. CASE GetConnection(r) \/ GetProject(r) \/ SelectDraft(r) \/ GetRevision(r)
  <2>1. Request(r).kind \notin Listings
    BY <1>4 DEF GetConnection, GetProject, SelectDraft, GetRevision, Listings
  <2>2. (\E answer : Reply(r, answer)) \/ (\E item : Deliver(r, item))
    <3>1. CASE GetConnection(r)
      BY <3>1 DEF GetConnection
    <3>2. CASE GetProject(r)
      BY <3>2 DEF GetProject
    <3>3. CASE SelectDraft(r)
      BY <3>3 DEF SelectDraft
    <3>4. CASE GetRevision(r)
      BY <3>4 DEF GetRevision
    <3> QED
      BY <1>4, <3>1, <3>2, <3>3, <3>4
  <2> QED
    BY <1>2, <2>1, <2>2, Replies, Delivers
<1>5. CASE ListRevisions(r)
  BY <1>2, <1>5, Continues DEF ListRevisions, Listings
<1>6. CASE ReadWorkspaceContext(r) \/ ReadConnectionContext(r)
  <2>1. CASE Reply(r, "WORKSPACE_NOT_FOUND") \/ Reply(r, "CONNECTION_NOT_FOUND")
    BY <1>2, <2>1, Replies
  <2>2. CASE \E role, status :
               /\ read' = [read EXCEPT ![r] = [@ EXCEPT
                    !.role = role, !.workspaceStatus = status,
                    !.step = "ReadConnectionContext"]]
               /\ UNCHANGED <<vars, createdAt>>
    <3> PICK role, status :
          /\ read' = [read EXCEPT ![r] = [x EXCEPT
               !.role = role, !.workspaceStatus = status,
               !.step = "ReadConnectionContext"]]
          /\ UNCHANGED <<vars, createdAt>>
      BY <2>2
    <3> PICK y : y = [x EXCEPT !.role = role, !.workspaceStatus = status,
                               !.step = "ReadConnectionContext"]
      OBVIOUS
    <3>1. /\ DOMAIN y = Fields /\ y.request = x.request /\ y.cursor = x.cursor
          /\ y.delivered = x.delivered /\ y.repeated = x.repeated
          /\ y.promised = x.promised /\ y.answer = x.answer
      BY <1>1 DEF Fields
    <3>2. ReadingOK(y)
      BY ONLY <1>1, <1>2, <3>1, GoesOn DEF ReadingOK
    <3>3. read' = [read EXCEPT ![r] = y] /\ UNCHANGED <<vars, createdAt>>
      OBVIOUS
    <3> QED
      BY ONLY Inv, r \in Readers, <3>2, <3>3, OwnReading
  <2>3. CASE \E status :
               /\ read' = [read EXCEPT ![r] = [@ EXCEPT
                    !.status = status, !.step = "SelectRows"]]
               /\ UNCHANGED <<vars, createdAt>>
    <3> PICK status :
          /\ read' = [read EXCEPT ![r] = [x EXCEPT
               !.status = status, !.step = "SelectRows"]]
          /\ UNCHANGED <<vars, createdAt>>
      BY <2>3
    <3> PICK y : y = [x EXCEPT !.status = status, !.step = "SelectRows"]
      OBVIOUS
    <3>1. /\ DOMAIN y = Fields /\ y.request = x.request /\ y.cursor = x.cursor
          /\ y.delivered = x.delivered /\ y.repeated = x.repeated
          /\ y.promised = x.promised /\ y.answer = x.answer
      BY <1>1 DEF Fields
    <3>2. ReadingOK(y)
      BY ONLY <1>1, <1>2, <3>1, GoesOn DEF ReadingOK
    <3>3. read' = [read EXCEPT ![r] = y] /\ UNCHANGED <<vars, createdAt>>
      OBVIOUS
    <3> QED
      BY ONLY Inv, r \in Readers, <3>2, <3>3, OwnReading
  <2> QED
    BY <1>6, <2>1, <2>2, <2>3 DEF ReadWorkspaceContext, ReadConnectionContext
<1> QED
  BY <1>3, <1>4, <1>5, <1>6 DEF ReadStep

-----------------------------------------------------------------------------
(* The writers only add rows to a listing, and never move one. *)

LEMMA HistoryGrows ==
  ASSUME NEW rows, Gapless(rows), NEW configuration
  PROVE  LET row == [number |-> Cardinality(rows) + 1,
                     configuration |-> configuration] IN
         Gapless(rows \cup {row})
<1> DEFINE row == [number |-> Cardinality(rows) + 1,
                   configuration |-> configuration]
           numbers == {revision.number : revision \in rows}
<1>1. /\ IsFiniteSet(rows) /\ Cardinality(rows) \in Nat
      /\ numbers = 1..Cardinality(rows)
  BY FS_CardinalityType DEF Gapless
<1>2. row \notin rows
  <2>1. row \in rows => row.number \in numbers
    OBVIOUS
  <2> QED
    BY <1>1, <2>1
<1>3. /\ IsFiniteSet(rows \cup {row})
      /\ Cardinality(rows \cup {row}) = Cardinality(rows) + 1
  BY <1>1, <1>2, FS_AddElement
<1>4. {revision.number : revision \in rows \cup {row}}
        = numbers \cup {Cardinality(rows) + 1}
  <2> PICK added : added = row
    OBVIOUS
  <2>1. added.number = Cardinality(rows) + 1
    OBVIOUS
  <2>2. {revision.number : revision \in rows \cup {added}}
          = numbers \cup {added.number}
    OBVIOUS
  <2> QED
    BY <2>1, <2>2
<1>5. (1..Cardinality(rows)) \cup {Cardinality(rows) + 1}
        = 1..(Cardinality(rows) + 1)
  BY <1>1
<1> QED
  BY <1>1, <1>3, <1>4, <1>5 DEF Gapless

(* What a write does to the tables behind a listing. *)
LEMMA Writes ==
  ASSUME Stored, History, NEW op \in Operations, Write(op)
  PROVE  /\ Stored' /\ History'
         /\ \A c \in Connections :
              /\ connection[c] # None =>
                   /\ connection'[c] # None
                   /\ connection'[c].workspace = connection[c].workspace
                   /\ createdAt'[c] = createdAt[c]
              /\ revisions[c] \subseteq revisions'[c]
         /\ \A p \in Projects : projectWorkspace[p] # None =>
              /\ projectWorkspace'[p] = projectWorkspace[p]
              /\ createdAt'[p] = createdAt[p]
<1> USE DEF Stored
<1>1. /\ op.connection \in Connections /\ op.project \in Projects
      /\ op.workspace \in Workspaces /\ op.name \in Names
      /\ op.access.mode \in AccessModes /\ op.kind \in Kinds
  BY DEF OperationRecords, AccessPolicies
<1>2. PICK now \in Instants :
        createdAt' =
          CASE op.kind = "CREATE_CONNECTION" ->
                 [createdAt EXCEPT ![op.connection] = now]
            [] op.kind = "CREATE_PROJECT" ->
                 [createdAt EXCEPT ![op.project] = now]
            [] OTHER -> createdAt
  BY DEF Write
<1>3. Perform(op)
  BY DEF Write
<1>4. CASE CreateProject(op)
  <2>1. createdAt' = [createdAt EXCEPT ![op.project] = now]
    BY <1>2, <1>4 DEF CreateProject
  <2>2. /\ projectWorkspace[op.project] = None
        /\ projectWorkspace' =
             [projectWorkspace EXCEPT ![op.project] = op.workspace]
        /\ UNCHANGED <<connection, revisions>>
    BY <1>4 DEF CreateProject
  <2> QED
    BY <1>1, <2>1, <2>2 DEF History
<1>5. CASE CreateConnection(op)
  <2>1. createdAt' = [createdAt EXCEPT ![op.connection] = now]
    BY <1>2, <1>5 DEF CreateConnection
  <2> DEFINE row == [workspace |-> op.workspace, name |-> op.name,
                     mode |-> op.access.mode, status |-> "DRAFT"]
  <2>2. /\ connection[op.connection] = None
        /\ connection' = [connection EXCEPT ![op.connection] = row]
        /\ UNCHANGED <<projectWorkspace, revisions>>
    BY <1>5 DEF CreateConnection
  <2>3. row \in ConnectionRows
    BY <1>1 DEF ConnectionRows, ConnectionStatuses
  <2> HIDE DEF row
  <2> QED
    BY <1>1, <2>1, <2>2, <2>3 DEF History
<1>6. CASE ~CreateProject(op) /\ ~CreateConnection(op)
  <2>1. /\ op.kind \notin CreationKinds
        /\ UNCHANGED projectWorkspace
    BY <1>3, <1>6 DEF Perform, Rename, PutDraft, Publish, ReplaceAccess,
       TransitionLifecycle, CreationKinds, LifecycleActions
  <2>2. createdAt' = createdAt
    BY <1>2, <2>1 DEF CreationKinds
  <2>3. connection[op.connection] \in ConnectionRows
    <3>1. MayAct(op)
      BY <1>3, <1>6 DEF Perform, Rename, PutDraft, Publish, ReplaceAccess,
         TransitionLifecycle
    <3> QED
      BY <1>1, <2>1, <3>1 DEF MayAct, Exists
  <2>4. \/ UNCHANGED connection
        \/ \E row \in ConnectionRows :
             /\ row.workspace = connection[op.connection].workspace
             /\ connection' = [connection EXCEPT ![op.connection] = row]
    <3> DEFINE old == connection[op.connection]
    <3>1. CASE Rename(op)
      <4>1. [old EXCEPT !.name = op.name] \in ConnectionRows
        BY <1>1, <2>3 DEF ConnectionRows
      <4>2. connection' =
              [connection EXCEPT ![op.connection] = [old EXCEPT !.name = op.name]]
        BY <3>1 DEF Rename
      <4> QED
        BY <2>3, <4>1, <4>2 DEF ConnectionRows
    <3>2. CASE ReplaceAccess(op)
      <4>1. [old EXCEPT !.mode = op.access.mode] \in ConnectionRows
        BY <1>1, <2>3 DEF ConnectionRows
      <4>2. connection' = [connection EXCEPT
              ![op.connection] = [old EXCEPT !.mode = op.access.mode]]
        BY <3>2 DEF ReplaceAccess
      <4> QED
        BY <2>3, <4>1, <4>2 DEF ConnectionRows
    <3>3. ASSUME NEW status \in ConnectionStatuses,
                 connection' = [connection EXCEPT
                   ![op.connection] = [old EXCEPT !.status = status]]
          PROVE  \E row \in ConnectionRows :
                   /\ row.workspace = old.workspace
                   /\ connection' = [connection EXCEPT ![op.connection] = row]
      <4>1. [old EXCEPT !.status = status] \in ConnectionRows
        BY <2>3 DEF ConnectionRows
      <4> QED
        BY <2>3, <3>3, <4>1 DEF ConnectionRows
    <3>4. CASE Publish(op)
      <4> DEFINE status == IF old.status = "DRAFT" THEN "ACTIVE" ELSE old.status
      <4>1. status \in ConnectionStatuses
        BY <2>3 DEF ConnectionRows, ConnectionStatuses
      <4>2. connection' = [connection EXCEPT
              ![op.connection] = [old EXCEPT !.status = status]]
        BY <3>4 DEF Publish
      <4> HIDE DEF status
      <4> QED
        BY <3>3, <4>1, <4>2
    <3>5. CASE TransitionLifecycle(op)
      <4>1. LifecycleTarget(op.kind) \in ConnectionStatuses
        BY <3>5 DEF TransitionLifecycle, LifecycleActions, LifecycleTarget,
           ConnectionStatuses
      <4>2. connection' = [connection EXCEPT
              ![op.connection] = [old EXCEPT !.status = LifecycleTarget(op.kind)]]
        BY <3>5 DEF TransitionLifecycle
      <4> QED
        BY <3>3, <4>1, <4>2
    <3>6. CASE PutDraft(op)
      BY <3>6 DEF PutDraft
    <3> QED
      BY <1>3, <1>6, <3>1, <3>2, <3>4, <3>5, <3>6 DEF Perform
  <2>5. History' /\ \A c \in Connections : revisions[c] \subseteq revisions'[c]
    <3>1. CASE UNCHANGED revisions
      BY <3>1 DEF History
    <3>2. CASE Publish(op)
      <4> PICK configuration :
            revisions' = [revisions EXCEPT ![op.connection] = @ \cup
              {[number |-> Cardinality(@) + 1, configuration |-> configuration]}]
        BY <3>2 DEF Publish
      <4> DEFINE rows == revisions[op.connection]
                 grown == rows \cup {[number |-> Cardinality(rows) + 1,
                                      configuration |-> configuration]}
      <4>1. revisions' = [revisions EXCEPT ![op.connection] = grown]
        OBVIOUS
      <4>2. Gapless(grown) /\ rows \subseteq grown
        BY <1>1, HistoryGrows DEF History
      <4> HIDE DEF grown, rows
      <4>3. revisions' = [c \in Connections |->
                            IF c = op.connection THEN grown ELSE revisions[c]]
        BY <1>1, <4>1 DEF History
      <4>4. \A c \in Connections : Gapless(revisions'[c])
        BY <1>1, <4>2, <4>3 DEF History
      <4> QED
        BY <4>2, <4>3, <4>4 DEF History, rows
    <3> QED
      BY <1>3, <1>6, <3>1, <3>2 DEF Perform, Rename, PutDraft, ReplaceAccess,
         TransitionLifecycle
  <2> QED
    BY <1>1, <2>1, <2>2, <2>3, <2>4, <2>5
<1> QED
  BY <1>4, <1>5, <1>6

LEMMA WritersKeep ==
  ASSUME Inv, NEW op \in Operations, Write(op)
  PROVE  Inv'
<1>1. Stored /\ History
  BY DEF Inv
<1>2. UNCHANGED read
  BY DEF Write
<1>3. ASSUME NEW q \in ReadRequests, q.kind \in Listings
      PROVE  Listed(q) \subseteq Listed(q)'
  <2>1. q.workspace \in Workspaces /\ q.connection \in Connections
        /\ q.workspace # None
    BY DEF ReadRequestRecords
  <2>2. CASE q.kind = "LIST_CONNECTIONS"
    <3>1. ASSUME NEW c \in Connections, connection[c] # None,
                 connection[c].workspace = q.workspace
          PROVE  [at |-> createdAt[c], id |-> c] \in Listed(q)'
      <4>1. /\ connection'[c] # None /\ createdAt'[c] = createdAt[c]
            /\ connection'[c].workspace = q.workspace
        BY <1>1, <3>1, Writes
      <4> QED
        BY <2>2, <4>1 DEF Listed
    <3> SUFFICES ASSUME NEW row \in Listed(q) PROVE row \in Listed(q)'
      OBVIOUS
    <3>2. PICK c \in Connections :
            /\ connection[c] # None /\ connection[c].workspace = q.workspace
            /\ row = [at |-> createdAt[c], id |-> c]
      BY <2>2 DEF Listed
    <3> QED
      BY <3>1, <3>2
  <2>3. CASE q.kind = "LIST_PROJECTS"
    <3>1. ASSUME NEW p \in Projects, projectWorkspace[p] = q.workspace
          PROVE  [at |-> createdAt[p], id |-> p] \in Listed(q)'
      <4>1. projectWorkspace'[p] = q.workspace /\ createdAt'[p] = createdAt[p]
        BY <1>1, <2>1, <3>1, Writes
      <4> QED
        BY <2>3, <4>1 DEF Listed
    <3> SUFFICES ASSUME NEW row \in Listed(q) PROVE row \in Listed(q)'
      OBVIOUS
    <3>2. PICK p \in Projects :
            /\ projectWorkspace[p] = q.workspace
            /\ row = [at |-> createdAt[p], id |-> p]
      BY <2>3 DEF Listed
    <3> QED
      BY <3>1, <3>2
  <2>4. CASE q.kind = "LIST_REVISIONS"
    <3>1. revisions[q.connection] \subseteq revisions'[q.connection]
      BY <1>1, <2>1, Writes
    <3> QED
      BY <2>4, <3>1 DEF Listed
  <2> QED
    BY <1>3, <2>2, <2>3, <2>4 DEF Listings
<1>4. ASSUME NEW r \in Readers PROVE ReadingOK(read[r])'
  <2> PICK x : x = read[r]
    OBVIOUS
  <2>1. ReadingOK(x) /\ x = read'[r]
    BY <1>2 DEF Inv
  <2>2. x.request # None => x.request \in ReadRequests
    BY <2>1 DEF ReadingOK
  <2>3. x.request # None /\ x.request.kind \in Listings =>
          Listed(x.request) \subseteq Listed(x.request)'
    BY <1>3, <2>2
  <2> QED
    BY <2>1, <2>3, Lasts
<1>5. Stored' /\ History'
  BY <1>1, Writes
<1> QED
  BY <1>2, <1>4, <1>5 DEF Inv

LEMMA AuthorityKeeps ==
  ASSUME Inv, ChangeAuthority \/ UNCHANGED readVars
  PROVE  Inv'
<1>1. UNCHANGED <<projectWorkspace, connection, revisions, createdAt, read>>
  BY DEF ChangeAuthority, Administer, readVars, vars
<1>2. Stored' /\ History'
  BY <1>1 DEF Inv, Stored, History
<1>3. ASSUME NEW r \in Readers PROVE ReadingOK(read[r])'
  <2> PICK x : x = read[r]
    OBVIOUS
  <2>1. ReadingOK(x) /\ x = read'[r]
    BY <1>1 DEF Inv
  <2>2. Listed(x.request)' = Listed(x.request)
    BY <1>1 DEF Listed
  <2> QED
    BY <2>1, <2>2, Lasts
<1> QED
  BY <1>1, <1>2, <1>3 DEF Inv

(* The invariant holds of every reachable state. *)
THEOREM Invariance == ReadsSpec => []Inv
<1>1. Inv /\ [ReadsNext]_readVars => Inv'
  BY Begins, StepsKeep, WritersKeep, AuthorityKeeps DEF ReadsNext
<1> QED
  BY Initially, <1>1, PTL DEF ReadsSpec

(* A finished walk has returned every row that was there when it began,    *)
(* and no row twice, for any page limit and however many rows are added    *)
(* meanwhile, with whatever timestamps.                                    *)
THEOREM WalksAreComplete == ReadsSpec => []WalkIsComplete
<1>1. Inv => WalkIsComplete
  BY DEF Inv, ReadingOK, OnTheWay, WalkIsComplete, Finished, Walking, Request
<1> QED
  BY <1>1, Invariance, PTL

(* What a walk through revisions has returned is always a range, and the   *)
(* range goes down to 1 when it is finished.                               *)
THEOREM RevisionWalksAreContiguous == ReadsSpec => []RevisionWalkIsContiguous
<1>1. ASSUME Inv, NEW r \in Readers, Walking(r),
             Request(r).kind = "LIST_REVISIONS", read[r].delivered # {}
      PROVE  LET numbers == read[r].delivered IN
             /\ numbers = Min(numbers)..Max(numbers)
             /\ Finished(r) => Min(numbers) = 1
  <2>1. CountsDown(read[r])
    BY <1>1 DEF Inv, ReadingOK, Request, Walking
  <2>2. PICK k \in Nat \ {0}, m \in Nat :
          /\ read[r].delivered = k..m
          /\ read[r].answer = "DELIVERED" => k = 1
    BY <2>1 DEF CountsDown
  <2>3. k <= m
    BY <1>1, <2>2
  <2>4. Min(k..m) = k /\ Max(k..m) = m
    <3>1. k \in k..m /\ \A y \in k..m : k =< y
      BY <2>3
    <3>2. m \in k..m /\ \A y \in k..m : m >= y
      BY <2>3
    <3>3. Min(k..m) \in k..m /\ Min(k..m) =< k
      BY <3>1 DEF Min
    <3>4. Max(k..m) \in k..m /\ Max(k..m) >= m
      BY <3>2 DEF Max
    <3> QED
      BY <3>3, <3>4
  <2> QED
    BY <2>2, <2>4 DEF Finished
<1>2. Inv => RevisionWalkIsContiguous
  BY <1>1 DEF RevisionWalkIsContiguous
<1> QED
  BY <1>2, Invariance, PTL
=============================================================================
