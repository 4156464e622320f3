----------------------------- MODULE DatabaseRoles -----------------------------
(***************************************************************************)
(* Which application role may do what on the way of a database to the      *)
(* current schema: the migrations, each a transaction of its own, the      *)
(* historical role file of the baseline release and the current one (make  *)
(* db-upgrade, make db-roles), in any order; the role files of releases    *)
(* between the two are not part of it.  A file runs statement by statement *)
(* in one transaction that may die anywhere; a fresh database gets its     *)
(* roles after the migrations, an old one has them before, and the roles   *)
(* of another database in the same cluster are there from the beginning.   *)
(*                                                                         *)
(* A privilege is a triple of role, table and action.  "COLUMNS" is UPDATE *)
(* of just the columns the files list for the table.                       *)
(***************************************************************************)
EXTENDS Integers, Sequences, FiniteSets

CONSTANTS
  Unnamed,   \* the tables of the baseline that no statement names
  None       \* no transaction is running

Roles == {"control", "runtime", "worker", "retention"}
Actions == {"SELECT", "INSERT", "UPDATE", "COLUMNS", "DELETE"}

(* The tables the files name, as far as they are treated differently, and  *)
(* users, which they do not name.                                          *)
WriteOnce == {"connection_revisions", "audit_events", "usage_events"}
NamedTables ==
  WriteOnce \cup
  {"users", "workspaces", "connections", "connection_drafts",
   "connection_project_access", "bindings", "executions",
   "execution_attempts", "credential_secret_versions",
   "idempotency_records", "outbox_events", "webhook_deliveries"}
SecurityTables == {"user_auth_identities", "auth_sessions"}
BaselineTables == NamedTables \cup Unnamed
Tables == BaselineTables \cup SecurityTables

ASSUME UnnamedAssumption ==
  Unnamed \cap (NamedTables \cup SecurityTables) = {}

VARIABLES
  revision,      \* alembic_version
  roles,         \* whether the cluster has the application roles
  defaults,      \* whether the default privileges are set
  grants,        \* committed privileges
  job,           \* the running transaction, or None
  applied,       \* the role file committed last: "none", "old", "current"
  oldAt          \* revision at which the old file was applied since the
                 \* current one was, or 0

vars == <<revision, roles, defaults, grants, job, applied, oldAt>>

TablesAt(n) ==
  (IF n >= 1 THEN BaselineTables ELSE {})
    \cup (IF n >= 2 THEN {"user_auth_identities"} ELSE {})
    \cup (IF n >= 3 THEN {"auth_sessions"} ELSE {})

-----------------------------------------------------------------------------
(* The statements of the files.  tables = {} is ALL TABLES IN SCHEMA app;  *)
(* where is "present" for a statement guarded by IF EXISTS of its role.    *)

Statement(verb, to, tables, actions) ==
  [verb |-> verb, roles |-> to, tables |-> tables, actions |-> actions,
   where |-> "always"]

Grant(to, tables, actions) == Statement("GRANT", to, tables, actions)
Revoke(from, tables, actions) == Statement("REVOKE", from, tables, actions)
CreateRoles == Statement("CREATE_ROLES", Roles, {}, {})
CreateTable(table) == Statement("CREATE_TABLE", {}, {table}, {})
DefaultPrivileges == Statement("DEFAULTS", {"control", "worker"}, {}, {})
IfPresent(statement) == [statement EXCEPT !.where = "present"]

ReadWrite == {"SELECT", "INSERT", "UPDATE"}

(* UPDATE is taken away and given back for the columns that may change.    *)
OnlyColumns(holders, table) ==
  <<Revoke(holders, {table}, {"UPDATE"}), Grant(holders, {table}, {"COLUMNS"})>>

ControlBlock == <<Grant({"control"}, {}, ReadWrite)>>

ConnectionBlock ==
  OnlyColumns({"control"}, "connections")
    \o OnlyColumns({"control"}, "connection_drafts")
    \o <<Revoke({"control"}, {"connection_project_access"}, {"UPDATE"}),
         Grant({"control"}, {"connection_project_access"}, {"DELETE"})>>

IdentityBlock ==
  OnlyColumns({"control"}, "user_auth_identities")
    \o <<Revoke({"control"}, {"auth_sessions"}, {"UPDATE", "DELETE"}),
         Grant({"control"}, {"auth_sessions"}, {"COLUMNS"})>>

RuntimeBlock ==
  <<Grant({"runtime"},
          {"workspaces", "bindings", "connections", "connection_revisions",
           "connection_project_access", "credential_secret_versions"},
          {"SELECT"}),
    Grant({"runtime"},
          {"executions", "execution_attempts", "idempotency_records"},
          ReadWrite),
    Grant({"runtime"}, {"usage_events", "outbox_events"},
          {"SELECT", "INSERT"})>>

(* Fault: the revokes come before the blanket grant and are undone by it.  *)
WorkerBlockRevokedFirst ==
  <<Revoke({"worker"}, {"bindings"}, {"UPDATE"}),
    Grant({"worker"}, {}, ReadWrite)>>

WorkerBlock ==
  <<Grant({"worker"}, {}, ReadWrite),
    Revoke({"worker"}, {"bindings"}, {"UPDATE"})>>

(* Fault: the worker's grants of an earlier file are not taken away.       *)
WorkerConnectionBlockForDraftsOnly ==
  <<Revoke({"worker"}, {"connection_drafts"}, {"INSERT", "UPDATE"})>>

WorkerConnectionBlock ==
  <<Revoke({"worker"},
           {"connections", "connection_drafts", "connection_revisions",
            "connection_project_access"}, {"INSERT", "UPDATE"})>>

SecurityBlock ==
  <<Revoke(Roles \ {"control"}, {"user_auth_identities"}, Actions),
    Revoke(Roles \ {"control"}, {"auth_sessions"}, Actions)>>

HistoryBlock ==
  <<Revoke(Roles \ {"retention"}, WriteOnce, {"UPDATE", "DELETE"})>>
    \o OnlyColumns({"runtime", "worker"}, "execution_attempts")
    \o <<Revoke(Roles \ {"retention"}, {"credential_secret_versions"},
                {"UPDATE"}),
         Grant({"control", "worker"}, {"credential_secret_versions"},
               {"COLUMNS"})>>

RetentionBlock ==
  <<Grant({"retention"}, {"idempotency_records", "outbox_events"},
          {"SELECT", "DELETE"}),
    Grant({"retention"}, {"webhook_deliveries"}, {"SELECT", "COLUMNS"}),
    DefaultPrivileges>>

OldRoles ==
  <<CreateRoles>> \o ControlBlock \o OnlyColumns({"control"}, "bindings")
    \o RuntimeBlock \o WorkerBlock \o HistoryBlock \o RetentionBlock

CurrentRoles ==
  <<CreateRoles>> \o ControlBlock \o ConnectionBlock
    \o OnlyColumns({"control"}, "bindings") \o IdentityBlock
    \o RuntimeBlock \o WorkerBlock \o WorkerConnectionBlock
    \o SecurityBlock \o HistoryBlock \o RetentionBlock

(* Fault: the new table's migration leaves the default privileges alone.   *)
SecurityTableTrustingDefaults(table) ==
  <<CreateTable(table),
    IfPresent(Grant({"control"}, {table}, {"SELECT", "INSERT"})),
    IfPresent(Revoke({"control"}, {table}, {"UPDATE", "DELETE"})),
    IfPresent(Grant({"control"}, {table}, {"COLUMNS"}))>>

(* 0002 and 0003 create a table and secure it where roles exist already.   *)
SecurityTable(table) ==
  <<CreateTable(table),
    IfPresent(Grant({"control"}, {table}, {"SELECT", "INSERT"})),
    IfPresent(Revoke({"control"}, {table}, {"UPDATE", "DELETE"})),
    IfPresent(Grant({"control"}, {table}, {"COLUMNS"})),
    IfPresent(Revoke({"runtime"}, {table}, Actions)),
    IfPresent(Revoke({"worker"}, {table}, Actions)),
    IfPresent(Revoke({"retention"}, {table}, Actions))>>

(* 0001 creates the baseline, 0004 and 0005 add an index each. *)
Migration(n) ==
  CASE n = 2 -> SecurityTable("user_auth_identities")
    [] n = 3 -> SecurityTable("auth_sessions")
    [] OTHER -> <<>>

HeadRevision == 5

-----------------------------------------------------------------------------
(* A transaction: the file it runs, the statement that is next, and what   *)
(* it has changed so far.                                                  *)
Start(kind, target, statements) ==
  /\ job = None
  /\ job' = [kind |-> kind, target |-> target, statements |-> statements,
             at |-> 1, created |-> FALSE, defaults |-> defaults,
             grants |-> grants]
  /\ UNCHANGED <<revision, roles, defaults, grants, applied, oldAt>>

(* transaction_per_migration: every step of an upgrade commits by itself.  *)
Upgrade ==
  /\ revision < HeadRevision
  /\ Start("migration", revision + 1, Migration(revision + 1))

(* Only the two revisions that add an index can be taken back. *)
Downgrade ==
  /\ revision \in {4, 5}
  /\ Start("migration", revision - 1, <<>>)

BootstrapRoles == Start("current", revision, CurrentRoles)

(* The baseline release, and the test harness on a migrated database.      *)
BootstrapOldRoles ==
  /\ revision >= 1
  /\ Start("old", revision, OldRoles)

NextStatement == job.statements[job.at]

(* Tables a statement speaks of: the migrated ones, and those it creates.  *)
Existing == TablesAt(IF job.kind = "migration" THEN job.target ELSE revision)

Succeeds(statement) ==
  /\ statement.tables \subseteq Existing
  /\ statement.verb \in {"GRANT", "REVOKE"} /\ statement.where = "always"
       => roles \/ job.created

Affected(statement) ==
  {privilege \in Roles \X Tables \X Actions :
     /\ privilege[1] \in statement.roles
     /\ privilege[2] \in IF statement.tables = {} THEN Existing
                          ELSE statement.tables
     /\ privilege[3] \in statement.actions}

(* Revoking UPDATE of a table revokes it of each column as well. *)
Revoked(statement) ==
  Affected([statement EXCEPT !.actions =
    IF "UPDATE" \in @ THEN @ \cup {"COLUMNS"} ELSE @])

Applies(statement) == statement.where = "always" \/ roles

After(statement) ==
  CASE statement.verb = "GRANT" /\ Applies(statement) ->
         job.grants \cup Affected(statement)
    [] statement.verb = "REVOKE" /\ Applies(statement) ->
         job.grants \ Revoked(statement)
    [] statement.verb = "CREATE_TABLE" /\ defaults ->
         job.grants \cup ({"control", "worker"} \X statement.tables
                            \X {"SELECT"})
    [] OTHER -> job.grants

Execute ==
  /\ job # None
  /\ job.at <= Len(job.statements)
  /\ Succeeds(NextStatement)
  /\ job' = [job EXCEPT
       !.at = @ + 1,
       !.created = @ \/ (NextStatement.verb = "CREATE_ROLES" /\ ~roles),
       !.defaults = @ \/ NextStatement.verb = "DEFAULTS",
       !.grants = After(NextStatement)]
  /\ UNCHANGED <<revision, roles, defaults, grants, applied, oldAt>>

Commit ==
  /\ job # None
  /\ job.at > Len(job.statements)
  /\ revision' = job.target
  /\ roles' = (roles \/ job.created)
  /\ defaults' = job.defaults
  /\ grants' = job.grants
  /\ applied' = IF job.kind = "migration" THEN applied ELSE job.kind
  /\ oldAt' = CASE job.kind = "old" -> IF revision > oldAt THEN revision
                                       ELSE oldAt
                [] job.kind = "current" -> 0
                [] OTHER -> oldAt
  /\ job' = None

(* A statement fails, because a table it names does not exist yet, or the  *)
(* process dies: PostgreSQL rolls everything back, the new roles included. *)
RollBack ==
  /\ job # None
  /\ job' = None
  /\ UNCHANGED <<revision, roles, defaults, grants, applied, oldAt>>

(* Roles belong to the cluster: another database's files may create them.  *)
(* A concurrent CREATE ROLE of the same name waits for this transaction.   *)
OtherDatabaseCreatesRoles ==
  /\ ~roles
  /\ job # None => ~job.created
  /\ roles' = TRUE
  /\ UNCHANGED <<revision, defaults, grants, job, applied, oldAt>>

Init ==
  /\ revision = 0
  /\ roles \in BOOLEAN
  /\ defaults = FALSE
  /\ grants = {}
  /\ job = None
  /\ applied = "none"
  /\ oldAt = 0

Next ==
  \/ Upgrade \/ Downgrade \/ BootstrapRoles \/ BootstrapOldRoles
  \/ Execute \/ Commit \/ RollBack
  \/ OtherDatabaseCreatesRoles

Spec == Init /\ [][Next]_vars

-----------------------------------------------------------------------------
(* Invariants. *)

(* Only the control plane ever reaches login identities and sessions: not  *)
(* the runtime, the workers or retention, neither between two migrations   *)
(* nor before make db-roles has run, although the default privileges of    *)
(* the baseline release give workers SELECT on every new table.  (The old  *)
(* file is not meant for a database that has these tables; the current one *)
(* takes back what it grants.)                                             *)
SecurityTablesSealed ==
  oldAt <= 1 =>
    \A privilege \in grants :
      privilege[2] \in SecurityTables => privilege[1] = "control"

(* Published history and the audit ledger are write-once for every writer, *)
(* and nobody updates a whole binding, whatever has been applied in        *)
(* whatever order: each file grants UPDATE on all tables first and takes   *)
(* it back afterwards.                                                     *)
HistoryIsWriteOnce ==
  \A privilege \in grants :
    /\ privilege[2] \in WriteOnce
         => privilege[3] \in {"SELECT", "INSERT"}
    /\ privilege[2] = "bindings" => privilege[3] # "UPDATE"

(* What each role is meant to have (application_roles.sql, invariants.md). *)
Held(role, table) ==
  CASE role = "control" ->
         CASE table \in WriteOnce -> {"SELECT", "INSERT"}
           [] table = "connection_project_access" ->
                {"SELECT", "INSERT", "DELETE"}
           [] table \in SecurityTables \cup
                {"connections", "connection_drafts", "bindings",
                 "credential_secret_versions"} ->
                {"SELECT", "INSERT", "COLUMNS"}
           [] OTHER -> ReadWrite
    [] role = "worker" ->
         CASE table \in SecurityTables -> {}
           [] table \in {"connections", "connection_drafts",
                         "connection_project_access",
                         "connection_revisions"} -> {"SELECT"}
           [] table \in {"audit_events", "usage_events", "bindings"} ->
                {"SELECT", "INSERT"}
           [] table \in {"execution_attempts", "credential_secret_versions"} ->
                {"SELECT", "INSERT", "COLUMNS"}
           [] OTHER -> ReadWrite
    [] role = "runtime" ->
         CASE table \in {"executions", "idempotency_records"} -> ReadWrite
           [] table = "execution_attempts" -> {"SELECT", "INSERT", "COLUMNS"}
           [] table \in {"usage_events", "outbox_events"} ->
                {"SELECT", "INSERT"}
           [] table \in {"workspaces", "bindings", "connections",
                         "connection_revisions", "connection_project_access",
                         "credential_secret_versions"} -> {"SELECT"}
           [] OTHER -> {}
    [] role = "retention" ->
         CASE table \in {"idempotency_records", "outbox_events"} ->
                {"SELECT", "DELETE"}
           [] table = "webhook_deliveries" -> {"SELECT", "COLUMNS"}
           [] OTHER -> {}

Policy ==
  {privilege \in Roles \X Tables \X Actions :
     privilege[3] \in Held(privilege[1], privilege[2])}

(* What the statements of the control plane need; a row lock needs UPDATE  *)
(* of at least one column.                                                 *)
Needs ==
  {"control"} \X
  (   {"users", "workspaces", "connections", "connection_drafts",
       "connection_project_access", "connection_revisions", "audit_events"}
        \X {"SELECT", "INSERT"}
    \cup SecurityTables \X {"SELECT", "INSERT", "COLUMNS"}
    \cup {"connections", "connection_drafts"} \X {"COLUMNS"}
    \cup {"users", "workspaces"} \X {"UPDATE"}
    \cup {<<"connection_project_access", "DELETE">>})

(* Once make db-roles has committed, the privileges are exactly the policy *)
(* and serve every statement of the code, and the way the database came    *)
(* there has left no trace: no grant of the old file, of the default       *)
(* privileges or of a migration survives that a fresh database lacks.      *)
SyncedGrantsAreThePolicy ==
  applied = "current" =>
    /\ grants = Policy
    /\ \A need \in Needs : <<need[1], need[2][1], need[2][2]>> \in grants
=============================================================================
