# BFF control plane: a TLA+ verification project

The repository holds a FastAPI control plane (`apps/control-api`) over
PostgreSQL. Requests are stateless; everything that can go wrong goes wrong
between transactions: two requests on the same Connection, a role that ends
while a request is under way, two first logins of one person, a crash between
two statements. The modules here model those transactions statement by
statement, TLC checks them on small instances, and TLAPS proves the central
properties for every instance.

Paths below are relative to `apps/control-api/src/bff_control/` in the repository.

## 1. Inventory

| Component | State | Operations | Interaction | Correct when |
| --- | --- | --- | --- | --- |
| Connection policies, service (`domains/connections`) | none | authorizers, lifecycle table, normalization | passes an authorizer and a compiler into each repository call | the first failing check decides: permission, workspace, connection |
| Connection mutations (`infrastructure/db/connection_repository.py`) | `connections`, `connection_project_access`, `connection_drafts`, `connection_revisions`, `audit_events` | create, rename, put draft, publish, replace access, disable, enable, archive | locks the workspace and membership row, then the connection, then draft or projects | each mutation is atomic, authorized when it commits, and audited as it happened |
| Connection and project reads (same files) | none | keyset lists, get, draft, revision list and revision | one to three unlocked statements, pages walked by the client | a walk misses and repeats nothing; nothing is shown to a non-member |
| Provider configuration (`providers.py`) | registry built at start | canonicalize, publish (hash), compile a draft | called inside put draft and publish | what is stored is what the provider accepts |
| Projects (`project_repository.py`) | `projects` | create, list, get | same locks as a Connection mutation | a project belongs to one workspace for good |
| Workspaces (`workspace_repository.py`) | `workspaces`, `workspace_memberships` | create with owner, list, get | one transaction of fresh rows | a workspace never exists without its owner |
| Session provisioning (`session_provisioning_repository.py`, `domains/authentication/provisioning.py`) | `users`, `user_auth_identities`, `auth_sessions` | find identity, admit, provision | optimistic inserts with ON CONFLICT, a profile fetched from WorkOS in between | one user per identity, one creation event per session |
| Principal resolution (`principal_repository.py`) | none | resolve session | one read per request | only active, unexpired sessions act |
| WorkOS verification (`infrastructure/auth`) | key cache of the client library | verify a token, fetch a profile | external service | external |
| HTTP API (`api/`) | request context | routes, cursors, exception to problem code | maps every domain error to one problem | stable codes |
| Schema, migrations, roles (`apps/control-api/migrations`, `scripts/db`) | tables, grants | upgrade, downgrade, role bootstrap | run by a deployment | an upgraded database grants what a fresh one grants |
| Live login probe (`scripts/auth/workos_live_probe.py`) | callback capture, deadline | log in, exchange, drive the BFF | a browser, WorkOS and the BFF | its verdict is right and it ends |
| Shell, other scripts, generated contract | settings | start-up, tooling | none at run time | not modelled |

Memberships are only ever created as `OWNER` together with a workspace, and no
code changes a membership or a workspace status: ADR 0020 and ADR 0022 announce
that administration and oblige it to take locks compatible with those of the
mutations. The model has those steps, marked external in the map.

What is hard here: interleaved transactions under READ COMMITTED, an unlocked
`MAX + 1`, authority that ends between its check and the commit, multi-statement
replacement of a policy, row locks taken in no particular order, audit images
assembled from several reads, aborts at any statement, commits whose confirmation
is lost, a pool that every request uses twice, role files that grant broadly and
take back afterwards, and a callback server that takes whatever the browser sends. `PROJECT.json`
lists each of these at its line.

## 2. Modules

`ConnectionDomain` holds the value types, the policies and the authorizers as
constant operators. `ConnectionRegistry` is the abstract specification: every
request happens in one step that is authorized at that step. `ConnectionTransactions`
is the detailed one. `ConnectionSafety` states what must hold of it, including
the refinement `Registry!Spec`. `MCConnections` gives instances to TLC, and
`ConnectionTransactions_proofs` and `ConnectionSafety_proofs` hold the theorems: the first
the invariant of the locks and what follows from it alone, the second, which builds on it,
all other properties and the refinement. `ConnectionReads` puts the
reads beside the atomic registry, with the instances in `MCReads` and the theorems
in `ConnectionReads_proofs`.
`SessionProvisioning` models login and principal resolution, `SessionSafety`
states what must hold of it, `MCSessions` gives the instances and
`SessionSafety_proofs` the theorems. Connections and logins share no table that
either of them writes, except `users`, of which a Connection reads nothing but
the identifier; they are not composed.

`ProviderConfiguration` is the one provider, as constant operators;
`ProviderConfiguration_proofs` holds its theorems, and `MCConnections` instantiates
it so that drafts and revisions carry the provider's real outputs. `Tenancy` is
the abstract specification of workspace creation, `TenantRequests` the life of the
requests that implement it, with the instance in `MCTenants` and the theorems in
`TenantRequests_proofs`. `DatabaseRoles` and `LoginProbe` stand alone: a deployment
and a developer's tool, which share no state with the running server that either
side changes; their instances need no more than a cfg. `DatabaseRoles_proofs` and
`LoginProbe_proofs` hold their theorems.

### How ConnectionTransactions corresponds to the code

A *session* is one pooled database session serving one request at a time.
`pc[s]` is the statement it runs next; each SQL statement is one action and each
early exit an action or a branch of one. `local[s]` is what Python variables hold
(role and workspace status from `_LOCK_WORKSPACE_CONTEXT`, mode and status from
`_LOCK_CONNECTION`, the fetched `before`, the compiled draft, the number);
`writes[s]` is what the transaction has written and not committed; `held[s]` its
row locks. `Commit` installs the writes at once and releases the locks; `Raise`
is an exception leaving `session.begin()` (`infrastructure/db/database.py`);
`Abort` is a client, process or connection that goes away at any statement.

Decisions of the abstraction:

* READ COMMITTED: a statement reads the latest committed rows overlaid with
  the transaction's own writes (`ViewRow`, `ViewAccess`). A statement that waits
  for a lock re-reads the row when it gets it, so waiting is a guard and the read
  happens in the same step.
* `FOR UPDATE OF workspaces, memberships` takes both rows in one step. The
  lock on the selected projects is taken row by row, in any order, because that
  query has no `ORDER BY`.
* Foreign keys take `KEY SHARE` locks on rows that the transaction already holds
  `FOR UPDATE`; they add no waiting and are left out. The keys a statement could
  violate are modelled: `UNIQUE (connection_id, revision_number)`, the primary
  key and the foreign key of `connection_project_access`.
* The audit ledger is kept replayed: `audited[c]` is what reading the events of
  the connection from the first to the last gives. The fetch of the connection
  right before or after the audit insert belongs to `InsertAudit`.
* uuid7 identifiers are fresh (`Fresh`), names and configurations are members of
  small sets, `created_at` and other timestamps are left out.
* `Canonicalize` is the provider, any function from configurations to
  configurations or `None`. It is applied when the draft is stored and again when it
  is published, as in the code. The instances compute it with
  `ProviderConfiguration!Compile` (see below).

### How ConnectionReads corresponds to the code

A *reader* is a client that issues GET requests and, for a list, follows the
cursor to the last page. `ReadStep` is one SQL statement: lists and details are
one statement that joins the membership; drafts and revisions take a statement
for the workspace context, one for the connection and one for the data, and each
sees the commits made before it.

* The writers are those of `ConnectionRegistry`: a mutation shows to a reader as
  one step, which is what `ImplementsRegistry` establishes (proved as
  `TransactionsImplementRegistry`).
* `created_at` is the start of the creating transaction, so a row may appear with
  any instant, also an earlier one than rows already shown; equal instants are
  told apart by the rank of the identifier, as in `(created_at, id) < (...)`.
* A page is the set of the newest rows beyond the cursor (`Visible`). One row more
  than the limit is fetched, to know whether there is another page (`HasMore`); the
  next cursor is the last row shown (`Resumes`). Cursor encoding is left out.

### How SessionProvisioning corresponds to the code

A *handler* serves one `POST /v1/auth/session` at a time. `handler[h]` is one
record: the request's token, the statement it runs next, the email of the
profile, the user it acts for, the start of its transaction (`CURRENT_TIMESTAMP`),
what it has inserted and not committed, the rows it holds `FOR SHARE` and its last
answer. There are two ways through:

* the identity is known: `FindIdentity` (a transaction of its own),
  `LockActiveIdentity` (identity and user `FOR SHARE`), admission;
* it is not: `FetchProfile` outside any transaction, then `FindExactIdentity`,
  `InsertUser`, `InsertIdentity` in a savepoint, admission. A lost email goes to
  `ResolveEmailConflict`, a lost identity rolls the savepoint back and goes to
  `ResolveIdentityRace`.

Admission is `InsertSession`, then `InsertAudit` for a new session or `FindSession`
(`FOR SHARE`) for an old one, then `Commit`. `INSERT ... ON CONFLICT DO NOTHING`
waits while another transaction holds the key uncommitted, and sees its row when
that one commits; a savepoint that is rolled back frees the key at once. Users
are named by their normalized email, identities by `(issuer, subject)` and
sessions by token, because nothing in the repository deletes those rows or
changes those keys. `Active`, used by the principal query `ResolvesPrincipal`, is
the status of identity and user.

No code disables an identity or a user or revokes a session yet; the contracts
under `docs/contracts` describe that administration. `SetIdentityStatus`,
`SetUserStatus` and `Revoke` are these steps, marked external, and wait for the
`FOR SHARE` locks like any UPDATE.

### How ProviderConfiguration corresponds to the code

`GenericHttpProvider._normalize_base_url` strips the text, splits it with `urlsplit`,
refuses what it does not want and puts the rest together again. A configuration is
the record of what it tells apart: the form (a mapping of `base_url` to a
non-empty text or not), blanks before the text, the scheme and its case,
credentials, the host and its brackets, the port, the path as a sequence of
slashes, blanks and letters, and the query. `Parses` is what makes `urlsplit` or
`.port` raise, `Acceptable` adds the explicit refusals, `Canonical` is the text that
`urlunsplit` puts together, and `Compile` is `compile_draft` as well as the
`canonicalize` inside `publish`: the stored draft is compiled again.

Compilation is not idempotent: blanks are stripped before slashes, so
`https://h/a /` becomes `https://h/a ` (with a blank) and then `https://h/a`. The
instance of the Connection runs contains that chain, starting from a text with
every peculiarity (blanks, capitals, an IPv6 host, port 443), and a `http` text that
is refused.

### How TenantRequests corresponds to the code

A *handler* is one request being served: the request context with its identifier,
parsing, `require_bearer_token`, the verifier, the principal's query in a database
session of its own, validation, the work in a second session, and the answer. FastAPI
parses the JSON body before it runs dependencies and validates it afterwards, so a
malformed body is refused without authentication and an invalid one only with it.

* `Connect` takes a connection of the pool, twice per request; `ResolvePrincipal`
  gives the first one back. `Fail` is a statement that fails, a server that cannot be
  reached or the pool's timeout: INTERNAL_ERROR, except that the readiness probe says
  "not ready" when SQLAlchemy raised the error. `is_ready` catches nothing else, so
  another exception of the driver is INTERNAL_ERROR there as well.
* `InsertWorkspace`, `InsertOwnerMembership` and `InsertWorkspaceAudit` are the
  statements of `create_owned_workspace`. Nobody sees their rows before `Commit`, which
  has three outcomes: confirmed, done but not confirmed, and not done.
* `Lose` is an answer that does not arrive, `Crash` the end of the process. A client
  may send its request again; `sent` numbers requests by their identifier.
* `told`, and `admitted`, `resolved` and `views` of a handler, record what clients
  know, whether the session was live on arrival, what the user was a member of when he
  was authenticated, and what he was a member of at each instant between the connection
  for the work and the answer of a read. No action of the model reads them, only the
  properties do (and, of `resolved`, a fault that trusts it).
* Membership and session administration are external, as elsewhere.

### How DatabaseRoles corresponds to the code

A file is the sequence of its statements (`CurrentRoles`, `OldRoles`, `Migration(n)`),
a *job* the transaction that runs one. `Execute` runs the next statement on the
job's own copy of the privileges, `Commit` publishes the copy, `RollBack` is a
failing statement or a process that dies. Alembic runs each revision in a
transaction of its own (`transaction_per_migration`), so an upgrade can stop between
any two. Tables that the files treat alike are represented by one, and the tables
of the baseline that no statement names are the constant `Unnamed`; column grants
are the action `COLUMNS`, since PostgreSQL's `REVOKE UPDATE` takes them too. The
old file is the baseline's; the test harness also runs it on newer databases,
which `oldAt` remembers: the newest revision it was run at since the current file was.
`SecurityTablesSealed` is promised while that is at most 1, because the old file grants
on all tables and knows nothing of the security tables of later revisions. The role
files of the releases between the baseline and this one are not in the repository and
not in the model.

### How LoginProbe corresponds to the code

`pc` is where `run_probe` is. `wait`, `handle` and `stalled` are the loop of
`wait_for_authorization_callback`: the deadline is looked at, `handle_request` takes
one request or gives up after a second, and a connection that sends nothing keeps
the single thread. `capture` is the `CallbackCapture`, overwritten by each request
for the callback path. A `deployment` says which of the things the probe is there
to prove are so; the BFF and WorkOS answer accordingly. `verify_bff_session_flow` is
four places: `provision` posts the session twice (`PostSession`), `reuse` compares the
two sessions and fails before anything else is asked (`CompareSessions`), `me` calls
`GET /v1/me` (`GetMe`), and `resolve` compares its user with the first
(`CompareUser`). A session that has ended makes each call fail.

### State of the plan

The modules are complete, and every safety and action property that a passing run
checks is proved. What remains with TLC is liveness (section 4). The windows that
section 5 describes have no property, because the code promises nothing there.

## 3. Runs

The Connection runs use two sessions: every property there is about two
transactions that overlap, and each transaction holds its workspace row, so a
third session in the same workspace only waits. Deadlock is checked in every run
but `tenants` and `login_probe`: the first ends when `MaxRequests` have been sent, the
second because the script ends.

* `publication` (`Publication.cfg`): one connection, an owner who may be demoted
  to VIEWER and a builder whose membership may end and return, a workspace that
  may be suspended, four configurations (a submitted text, what it compiles to, what
  that compiles to, and a refused one), at most `MaxRevisions = 2`
  publications: the smallest number with a first and a later publication, with two
  of them in flight.
* `access` (`Access.cfg`): two workspaces with a project each, creation in both
  modes, replacements in both directions, a replacement naming a project of
  the other workspace, and renames, one of them addressed to the wrong workspace.
* `contention` (`Contention.cfg`): two connections over the same two projects,
  each replaced by a user of its own, locking the projects in any order: the smallest
  instance in which a cycle of waits could close. `NoChainOfWaiters` says that none
  does, `RequestsFinish` that every request ends.
* `list_walk` (`ListWalk.cfg`): three connections or two projects appear, with
  two instants, while one client walks the list one row per page. Readers do
  not interact, so one is enough; with one row per page every row is a page
  boundary; three rows are the smallest walk with an inner page.
* `revision_walk` (`RevisionWalk.cfg`): up to five revisions (`MaxRevisions` in the
  cfg), pages of two: the history is longer than two pages and has an odd rest.
* `membership_at_read` (`MembershipAtRead.cfg`): one draft, one member whose
  membership may end. It finds `MembershipConstrainedReads` violated (section 6).
* `first_login` (`FirstLogin.cfg`): two handlers, two identities with one provider
  session each. The provider may report `own` or `shared` for the first, `known`
  or `shared` for the second; `known` belongs to a user from the beginning. So one
  identity can race with itself under two emails, two identities can race for one
  email, and an email can belong to a stranger. Two handlers are enough for each
  unique key; time stands still (`MaxTime = 0`), expiry is the next run's.
* `readmission` (`Readmission.cfg`): two handlers, one identity, two provider
  sessions, `Ttl = 1` and `MaxTime = 1`: a session can be admitted, repeated, expire
  and be repeated again, with revocation and disablement in between.
* `disabled_account` (`DisabledAccount.cfg`): the same with one provider session. It
  finds `DisabledMustNotAuthenticate` violated (section 6).

* `tenants` (`Tenants.cfg`): two handlers, a pool of one connection, two requests of
  nine kinds (creation, list, read, `GET /v1/me`, the readiness probe, with a missing
  credential, a malformed and an invalid body), two workspaces. Two requests are
  enough for a retry and for a race, one connection for a pool that is exhausted.
* `deployment` (`Deployment.cfg`): no bound but the five revisions; every order of
  migrations, downgrades and the two role files of the repository is explored. One table stands for those
  the files do not name, since no statement tells two of them apart; the theorems hold
  for any set of them.
* `login_probe` (`Login.cfg`): every deployment, two logins, the deadline after
  `Timeout = 2` ticks: one tick before it and one at it.

Liveness assumes strong fairness for each session (`FairSpec`): PostgreSQL
queues the waiters of a row lock, so a session that can proceed again and again
does. Weak fairness would let a lock be handed to others for ever; nothing is
assumed of arrivals, aborts or administration. `SessionProvisioning` makes the
same assumption for each handler, for the waiters of a unique key. Reads wait for
nobody, so `ReadsSpec` assumes weak fairness of each reader only: a client goes on
with the walk it has begun. `LoginProbe` assumes weak fairness of the clock and of the
probe's own steps, which wait at most for a timeout; nobody has to log in or to
close a connection, which is why `ProbeEnds` excepts a silent connection that is
held open for ever.

| Property | What it would take to break it |
| --- | --- |
| `RevisionHistoryGapless`, `NoInternalError` | two publications computing one number, in sequence or at once |
| `CanonicalAccess` | two replacements interleaving their delete, insert and mode update |
| `ActivationFollowsPublication` | a lifecycle step that skips publication, or an activation without its revision |
| `LedgerReplaysToState`, `AuditEventsFitTogether` | an audit image from a stale or a too recent read, an event without its change |
| `AuthorityHoldsAtCommit` | a role or workspace status that changes between authorization and commit |
| `OnlyAdministratorsWiden` | a builder's replacement judged by a mode that an owner has just changed |
| `ArchivedIsTerminal`, `KillSwitchHolds` | a publication or draft authorized before, committed after, ARCHIVE or DISABLE |
| `ImplementsRegistry` | any of the above that is visible in the tables |
| `DraftsStayPublishable` | a draft that was accepted and is refused when it is compiled again |
| `NoChainOfWaiters`, `RequestsFinish` | two transactions locking the same projects in opposite orders |
| `WalkIsComplete`, `ReadsEnd` | a cursor that does not order rows totally, so that a tie is skipped or repeated |
| `RevisionWalkIsContiguous` | a cursor taken from the extra row |
| `NoOrphanUsers`, `AnswersConverge` | the loser of an identity race keeping its user, or acting for it |
| `LinkRequiredOnlyForStrangers` | an email conflict with one's own racing request taken for a stranger's account |
| `OneCreationEvent`, `AdmissionIsFinal` | a repeated or racing admission audited, extended or revived |
| `KnownIdentityCanAct`, `ReusedSessionIsLive` | a disablement or revocation between the check and the commit |
| `ProvisioningEnds` | waits for unique keys in a cycle, or a conflict retried for ever |
| `AnswersAreTrue` | an unconfirmed commit answered as created, a refusal after the insert, an old session served |
| `ReadsAreCurrent` | a read that answers from what authentication saw, shows an ended membership or misses a new one |
| `WaitersHoldNothing` | a request that keeps its first connection while it waits for the second |
| `ImplementsTenancy` | a workspace, membership or event that appears without the others |
| `SecurityTablesSealed` | a migration that relies on the default privileges, or on make db-roles |
| `HistoryIsWriteOnce` | a revoke that comes before the blanket grant it restricts |
| `SyncedGrantsAreThePolicy` | a privilege of an earlier file or migration that the current file forgets to take back |
| `VerdictIsJustified` | code and state of two callbacks combined; a comparison left out |
| `ProbeEnds` | a loop that only looks at the clock when nothing arrives |

## 4. Proofs

`ConnectionTransactions_proofs` proves, for any sets of users, workspaces,
projects, connections, names, configurations, sessions and any bound:

* `Invariance`: `Spec => []Inv`;
* `TypeCorrectness`, `RevisionHistoryHasNoGap`: consequences of `Inv`;
* `AuthorityOutlivesAuthorization`, `ArchivedNeverChanges`: action properties.

`RevisionHistoryGapless` is not inductive: the step that inserts number `MAX + 1`
keeps it only if the number is still the next one at the commit. `Inv` adds that
row locks are exclusive, that a creation in flight targets an identifier nobody
else uses, and `SessionOK(s)`: at each statement, which rows the session holds and
which of its local values are still equal to the committed ones. From the held
workspace and membership row follows that authority cannot have changed at the
commit; from the held connection row that its status and revisions cannot.

Assumptions used: `OperationsAssumption`, `CanonicalizeAssumption`,
`NoneAssumption`, `RolesOfAssumption`, `StatusesSeenAssumption`,
`MaxRevisionsAssumption`. TLC evaluates all of them on every run.

`ConnectionSafety_proofs` proves every other property of the three Connection runs but
the liveness one, for the same constants: `NoRequestFailsInternally`,
`AccessStaysCanonical`, `OnlyPublishedConnectionsRun` and `LedgerIsComplete`, the action
properties `ConsecutiveEventsFit`, `DisabledStaysDisabled` and `BuildersNeverWiden`, the
refinement `TransactionsImplementRegistry`, `StoredDraftsArePublishable` and
`WaitersBlockNobody`.

None of them follows from the locks alone, because what a commit installs was computed
statements earlier. `SafetyInv` therefore adds to `Inv`, of each session, that what it has
written so far is, statement by statement, the effect of its request on the rows it has
locked as they are now (`WritesFit`, with `Pending` for the rows of the connection,
`EventFits` for the images and the role of the event, `SelectionFits` for projects that
have been looked up); and of the tables that unused identifiers have no rows anywhere
(`UnusedIsEmpty`) and that a project being created has no workspace yet (`FreshProjects`).
`SafetyInvariance` is `Spec => []SafetyInv`. The proof has one lemma per statement.
`FitsKeep` and `CommitKeepsOthers` carry what the other sessions know over a commit: they
hold other rows. `AuditedCommit`, `DraftCommit` and `ProjectCommit` say what the tables
are after a commit, in terms of the request only; the invariants, the action properties
and the refinement read it from there.

* *Refinement.* A commit is the step of `ConnectionRegistry` for its request
  (`CommitPerforms`): the tables change as the request says, and the authorizer, which
  ran earlier on local copies, would decide the same now (`SameAuthorization`), because
  those copies are of locked rows. Administration maps to administration, and every
  other step changes no table. What `ConnectionReads` assumes of its writers is thereby
  justified for every instance.
* *Deadlock.* Each row a transaction has locked belongs to its own workspace (`LocksFit`),
  and it locks the row of that workspace first, so two transactions past their first
  statement are of different workspaces (`OneTransactionPerWorkspace`). Whoever waits is
  hence at the first statement with nothing locked (`WhoeverWaitsIsAtTheDoor`), and a
  cycle cannot close, in whatever order projects are locked. This covers what the
  database could report as a deadlock, `RequestsFinish` also starvation.
* *Drafts.* `StoredDraftsArePublishable` assumes that the provider accepts what it returns
  (`AcceptsItsOutput`). For `GenericHttpProvider` this is `CompiledIsAccepted` of
  `ProviderConfiguration_proofs`, and `GenericHttpDraftsArePublishable` states the result for
  any set of submitted configurations that is closed under compilation.

The assumptions used are those above. What the database promises is in the model and not
proved: statements are atomic, a lock is granted to one transaction, a commit
installs all writes.

* *Progress.* `RequestsFinish` needs fairness and stays with TLC. Its safety half is
  proved: besides `WaitersBlockNobody`, `MutationsOnlyAdvance` says that whatever changes
  for a running request takes it to a later statement (`Order`), or locks one more of the
  projects it selects, and that it keeps its locks until it ends. A request therefore
  runs at most ten statements and one more per selected project, and is kept from its
  end only by a transaction that stands still.

`SessionSafety_proofs` proves, for any handlers, identities, emails, sessions,
lifetime and clock bound, all properties of the two passing session runs but the
liveness one: `TypeCorrectness`, `FirstLoginsLeaveNoOrphans`,
`AdmissionIsAuditedOnce` and the action properties `AdmissionsAreFinal`,
`AnswersNameTheIdentitysUser`, `LinksAreForStrangers`, `AnsweredSessionsAreLive` and
`KnownIdentitiesCanAct`. None of these is inductive. The invariant `Inv` adds what a
handler may rely on at each statement (`RecordOK`): from `InsertSession` on it acts
for a user that it has inserted itself together with the identity, or for the user
of the identity it has found (`ActsForUser`); without a profile it holds identity
and user `FOR SHARE` and both are active (`HoldsKnownIdentity`); it is about to
commit a new session with one event, or an old, unrevoked session it holds
(`AdmitsOnce`). `KeysDiffer` says that no two transactions have inserted the same
unique key, which is what lets a commit leave the others' knowledge intact.
`RecordOK` is stated of a handler's record, so that one lemma (`OwnRecord`) covers
every statement that changes nothing but that record; `CommitKeeps` and the three
administration steps are the ones that change tables. The action properties follow
from `WhoAnswers`: only `Commit` admits, and only `ResolveEmailConflict` asks for a
link. The assumptions used are `KnownEmailsAssumption`, `EmailsOfAssumption`,
`TtlAssumption` and `NoneAssumption`.

`ProvisioningEnds` stays with TLC; its safety half is proved. Handlers wait for one
another where two insert the same unique key. Every request inserts the email, the
identity and the session in this order, and holds a key only once it is past the insert
(`WaitersAreBehind`), so whoever is waited for is at a later key, and no set of handlers
waits in a circle (`NobodyWaitsInACircle`). `ProvisioningOnlyAdvances` says that a request
never returns to an earlier statement (`Stage`): a conflict is resolved once, not retried.

`ProviderConfiguration_proofs` proves of paths of any length that what the provider
makes of an accepted configuration is accepted again (`CompiledIsAccepted`), and that
it is a fixed point unless its path ends in a blank or a slash (`CompilationSettles`).
The lemma `Trimming` says what `rstrip` leaves: a prefix that keeps its first character.

`TenantRequests_proofs` proves, for any users, sessions, workspaces, handlers, pool and
number of requests, every property of the `tenants` run: `WaitersNeverHold`,
`AnswersStayTrue`, `ReadsStayCurrent`, and the refinement `RequestsImplementTenancy`. The
invariant `Inv` again says of each handler's record what it may rely on (`RecordOK`): a
connection is only held between taking it and the answer (`Frugal`); before the answer
no event carries the request's identifier (`Identified`), which is why a refusal can
promise that nothing was created; whoever is past authentication had a live session on
arrival, because sessions only end (`Admissible`, `ActsForSession`); and a read that is
about to be answered has the present memberships among its `views` (`Observant`), which
are the ones its query selects.
`AllOrNothing`, a workspace without its row has neither members nor an event, makes a
commit a `CreateWorkspace` of `Tenancy`; only `Commit` and `ChangeMembership` change a
tenant at all. `Atomic` says once what a commit does, `SeenKeeps` carries every other
handler over a step that changes memberships. The assumptions used are
`UserOfAssumption`, `RequestsAssumption`, `MaxRequestsAssumption` and `NoneAssumption`.

`LoginProbe_proofs` proves `VerdictsAreJustified` for any timeout. The invariant says what
the checks before each place of the script have established (`PassedReadiness` to
`PassedReuse`), and `CaptureOK` that a captured code comes with the state of its own
login or none, and that without disturbance the capture is this login's redirect. It
uses `TimeoutAssumption` and `NoneAssumption`.

`ConnectionReads_proofs` proves, for any readers, rows and page limit, that walks are
complete (`WalksAreComplete`) and that a walk through revisions counts down without a
gap (`RevisionWalksAreContiguous`). Before its end a walk only knows where its cursor
is, so the invariant relates everything to it: what has been delivered is at or ahead
of the cursor, and what was promised and not delivered is behind it (`OnTheWay`). That
needs the order of a listing to be total (`Ordered`, from `RankAssumption`) and a page
to take the newest rows behind the cursor (`PageKeepsWalk`); a row that appears
meanwhile was promised to nobody, wherever it falls. For revisions the delivered
numbers are a range that ends at the cursor (`CountsDown`), because the history is
gapless (`Gapless`) and grows at its end only (`HistoryGrows`). Writers may do whatever
the registry allows: all a walk relies on is that they remove no row and change no
row's workspace, instant or number (`Writes`). The assumptions used are
`OperationsAssumption`, `NoneAssumption`, `ReadRequestsAssumption`, `RankAssumption`,
`InstantsAssumption` and `AbsenceAssumption`. `MembershipConstrainedReads` is false and
hence not proved.

`DatabaseRoles_proofs` proves the three properties of the `deployment` run for any set of
tables that the files do not name: `SecurityTablesStaySealed` (as long as the old role
file has not been run beyond revision 1 since the current one was), `HistoryStaysWriteOnce`
and `SyncedGrantsAreExactlyThePolicy`.

* *Files.* A file is about one privilege what the last of its statements that is about
  it says: it gives it, takes it or leaves it (`Given`, `Taken`, `Kept`). `Composition`
  computes this for a file that is put together from two, so that there is one lemma per
  block of the files (`ControlBlockHas` to `RetentionBlockHas`), and `CurrentEffect` and
  `OldEffect` are the result for the whole files. The properties are facts about these
  two: both files take what must not be held of history (`HistoryIsTaken`), the current
  file gives exactly the policy where it gives (`CurrentGivesPolicy`), and it says
  something of every privilege the old file says something of (`CurrentDecidesMore`).
* *Steps.* `FileHasDone` says of a running file what its statements so far have made of
  each privilege, compared with the committed ones; `SecuringRuns` says the same of the
  seven statements of a migration that creates a security table. `Decided` carries the
  argument over a history of deployments: no privilege is ever held about which the
  current file says nothing, whether an old file, a migration or the default privileges
  gave it. So when the current file commits, nothing is left of the way there
  (`FileSettles`). Privileges only speak of tables that exist (`OnTablesAt`), so that
  `ALL TABLES` of a file reaches each of them.

The only assumption used is `UnnamedAssumption`: the tables the files do not name are
not among those they name. The proof asks what the policy says of a role and a table in
every case, and so found two cases of `Held` that overlapped for the worker and
`connection_revisions`; TLC takes the first one, TLA+ leaves the choice open. They are
disjoint now.

What is liveness remains with TLC: `ReadsEnd`, `ProvisioningEnds`, `RequestsFinish` and
`ProbeEnds`. The prover has no rules for fairness and `ENABLED`.

## 5. Not modelled

Token cryptography, the JWKS cache of PyJWT and the WorkOS service, settings,
telemetry, OpenAPI and generated TypeScript, JSON and cursor encodings, the developer
scripts other than the live probe (static checks and smoke tests without state),
and the tables of the execution plane, which no code uses yet.

Two windows are known and have no property, because nothing is promised there:
between `alembic upgrade` and `make db-roles` an upgraded database still has the
old grants (`replace_access` cannot delete, workers can still write connection
tables; `docs/schema/migration-policy.md` calls schema and ACL evolution one
deployment unit), and a client that gets no answer to a creation cannot tell whether
it happened and may create twice (ADR 0020).

## 6. Where code and documents disagree

* `MembershipConstrainedReads` (run `membership_at_read`). ADR 0020 and ADR 0022 say
  that repository reads are constrained by an active membership. `get_draft`,
  `list_revisions` and `get_revision` check the membership in an earlier, unlocked
  statement, and read the data with a statement that does not mention it; a
  membership that ends in between is not noticed. Lists and details join it.
* `DisabledMustNotAuthenticate` (run `disabled_account`). The authentication contract
  says that a disabled identity or user must not authenticate. A request that
  finds its identity only in the provisioning transaction, because another request
  has just created it, reads it without a lock and is admitted although the account
  is disabled before the commit. A revocation of all sessions that goes with the
  disablement misses the session that is still being inserted. The other path locks
  both rows, and there the promise is proved (`KnownIdentitiesCanAct`).
