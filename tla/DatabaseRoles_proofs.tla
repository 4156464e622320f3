------------------------- MODULE DatabaseRoles_proofs -------------------------
(***************************************************************************)
(* Theorems about the role files and the migrations, for any set of tables *)
(* that the files do not name.  The first part is about files alone: what  *)
(* the statements of a file, run in order, do to one privilege.            *)
(***************************************************************************)
EXTENDS DatabaseRoles, TLAPS

USE UnnamedAssumption

Privileges == Roles \X Tables \X Actions

(* The statements of a role file: none revokes from all tables at once. *)
Ordinary ==
  {s \in [verb : {"GRANT", "REVOKE", "CREATE_ROLES", "DEFAULTS"},
          roles : SUBSET Roles, tables : SUBSET Tables,
          actions : SUBSET Actions, where : {"always"}] :
     s.verb = "REVOKE" => s.tables # {}}
Files == Seq(Ordinary)

-----------------------------------------------------------------------------
(* What a file does to a privilege. *)

Mentions(s, p) == p[1] \in s.roles /\ (s.tables = {} \/ p[2] \in s.tables)
Gives(s, p) ==
  s.verb = "GRANT" /\ Mentions(s, p) /\ p[3] \in s.actions
Takes(s, p) ==
  /\ s.verb = "REVOKE" /\ Mentions(s, p)
  /\ p[3] \in s.actions \/ (p[3] = "COLUMNS" /\ "UPDATE" \in s.actions)

(* The last of the first n statements that is about p gives or takes it,   *)
(* or there is none.                                                       *)
GivenUpTo(F, n, p) ==
  \E k \in 1 .. n : /\ Gives(F[k], p)
                    /\ \A j \in k + 1 .. n : ~ Takes(F[j], p)
TakenUpTo(F, n, p) ==
  \E k \in 1 .. n : /\ Takes(F[k], p)
                    /\ \A j \in k + 1 .. n : ~ Gives(F[j], p)
KeptUpTo(F, n, p) ==
  \A k \in 1 .. n : ~ Gives(F[k], p) /\ ~ Takes(F[k], p)

Given(F, p) == GivenUpTo(F, Len(F), p)
Taken(F, p) == TakenUpTo(F, Len(F), p)
Kept(F, p) == KeptUpTo(F, Len(F), p)

Effects == {"given", "taken", "kept"}
Has(F, p, effect) ==
  /\ F \in Files
  /\ effect \in Effects
  /\ effect = "given" => Given(F, p)
  /\ effect = "taken" => Taken(F, p)
  /\ effect = "kept" => Kept(F, p)

(* The effect of one file after another. *)
Over(first, second) == IF second = "kept" THEN first ELSE second

LEMMA Concatenation ==
  ASSUME NEW F \in Files, NEW G \in Files
  PROVE  /\ F \o G \in Files
         /\ Len(F \o G) = Len(F) + Len(G)
         /\ Len(F) \in Nat /\ Len(G) \in Nat
         /\ \A k \in 1 .. Len(F) : (F \o G)[k] = F[k]
         /\ \A k \in 1 .. Len(G) : (F \o G)[Len(F) + k] = G[k]
         /\ \A k \in 1 .. Len(F) + Len(G) :
              k > Len(F) => /\ k - Len(F) \in 1 .. Len(G)
                            /\ (F \o G)[k] = G[k - Len(F)]
BY DEF Files

LEMMA Composition ==
  ASSUME NEW F, NEW G, NEW p, NEW e, NEW f, Has(F, p, e), Has(G, p, f)
  PROVE  Has(F \o G, p, Over(e, f))
<1> DEFINE m == Len(F)
           n == Len(G)
           H == F \o G
<1> USE DEF Has, Effects, Over
<1>1. F \in Files /\ G \in Files
  OBVIOUS
<1>2. /\ H \in Files /\ Len(H) = m + n /\ m \in Nat /\ n \in Nat
      /\ \A k \in 1 .. m : H[k] = F[k]
      /\ \A k \in 1 .. n : H[m + k] = G[k]
      /\ \A k \in 1 .. m + n : k > m =>
           k - m \in 1 .. n /\ H[k] = G[k - m]
  BY <1>1, Concatenation
<1> HIDE DEF m, n, H
<1> USE DEF Given, GivenUpTo, Taken, TakenUpTo, Kept, KeptUpTo
<1>3. ASSUME f = "given" PROVE Given(H, p)
  <2>1. PICK k \in 1 .. n :
          Gives(G[k], p) /\ \A j \in k + 1 .. n : ~ Takes(G[j], p)
    BY <1>3 DEF n
  <2>2. m + k \in 1 .. m + n /\ Gives(H[m + k], p)
    BY <1>2, <2>1
  <2>3. \A j \in m + k + 1 .. m + n : ~ Takes(H[j], p)
    BY <1>2, <2>1
  <2> QED
    BY <1>2, <2>2, <2>3
<1>4. ASSUME f = "taken" PROVE Taken(H, p)
  <2>1. PICK k \in 1 .. n :
          Takes(G[k], p) /\ \A j \in k + 1 .. n : ~ Gives(G[j], p)
    BY <1>4 DEF n
  <2>2. m + k \in 1 .. m + n /\ Takes(H[m + k], p)
    BY <1>2, <2>1
  <2>3. \A j \in m + k + 1 .. m + n : ~ Gives(H[j], p)
    BY <1>2, <2>1
  <2> QED
    BY <1>2, <2>2, <2>3
<1>5. ASSUME f = "kept"
      PROVE  \A k \in 1 .. m + n : k > m =>
               ~ Gives(H[k], p) /\ ~ Takes(H[k], p)
  BY <1>2, <1>5 DEF n
<1>6. ASSUME f = "kept", e = "given" PROVE Given(H, p)
  <2>1. PICK k \in 1 .. m :
          Gives(F[k], p) /\ \A j \in k + 1 .. m : ~ Takes(F[j], p)
    BY <1>6 DEF m
  <2>2. \A j \in k + 1 .. m + n : ~ Takes(H[j], p)
    BY <1>2, <1>5, <1>6, <2>1
  <2> QED
    BY <1>2, <2>1, <2>2
<1>7. ASSUME f = "kept", e = "taken" PROVE Taken(H, p)
  <2>1. PICK k \in 1 .. m :
          Takes(F[k], p) /\ \A j \in k + 1 .. m : ~ Gives(F[j], p)
    BY <1>7 DEF m
  <2>2. \A j \in k + 1 .. m + n : ~ Gives(H[j], p)
    BY <1>2, <1>5, <1>7, <2>1
  <2> QED
    BY <1>2, <2>1, <2>2
<1>8. ASSUME f = "kept", e = "kept" PROVE Kept(H, p)
  <2>1. \A k \in 1 .. m : ~ Gives(F[k], p) /\ ~ Takes(F[k], p)
    BY <1>8 DEF m
  <2> QED
    BY <1>2, <1>5, <1>8, <2>1
<1>9. H \in Files
  BY <1>2
<1> HIDE DEF Given, Taken, Kept
<1> QED
  BY <1>3, <1>4, <1>6, <1>7, <1>8, <1>9 DEF H

-----------------------------------------------------------------------------
(* The blocks of the files. *)

StatementEffect(s, p) ==
  IF Gives(s, p) THEN "given" ELSE IF Takes(s, p) THEN "taken" ELSE "kept"

LEMMA OneStatement ==
  ASSUME NEW s \in Ordinary, NEW p
  PROVE  Has(<<s>>, p, StatementEffect(s, p))
<1>1. <<s>> \in Files /\ Len(<<s>>) = 1 /\ <<s>>[1] = s
  BY DEF Files
<1>2. ~ (Gives(s, p) /\ Takes(s, p))
  BY DEF Gives, Takes
<1> QED
  BY <1>1, <1>2
  DEF Has, Effects, StatementEffect, Given, Taken, Kept, GivenUpTo, TakenUpTo,
      KeptUpTo

LEMMA TwoStatements ==
  ASSUME NEW s \in Ordinary, NEW t \in Ordinary, NEW p
  PROVE  Has(<<s, t>>, p, Over(StatementEffect(s, p), StatementEffect(t, p)))
<1> DEFINE F == <<s, t>>
<1>1. /\ F \in Files /\ Len(F) = 2 /\ F[1] = s /\ F[2] = t
      /\ \A k \in 1 .. 2 : k = 1 \/ k = 2
  BY DEF Files
<1>2. \A r \in Ordinary : ~ (Gives(r, p) /\ Takes(r, p))
  BY DEF Gives, Takes
<1> HIDE DEF F
<1>3. /\ Gives(t, p) \/ (Gives(s, p) /\ ~ Takes(t, p)) => Given(F, p)
      /\ Takes(t, p) \/ (Takes(s, p) /\ ~ Gives(t, p)) => Taken(F, p)
  <2>1. ASSUME Gives(t, p) PROVE Given(F, p)
    BY <1>1, <2>1 DEF Given, GivenUpTo
  <2>2. ASSUME Takes(t, p) PROVE Taken(F, p)
    BY <1>1, <2>2 DEF Taken, TakenUpTo
  <2>3. ASSUME Gives(s, p), ~ Takes(t, p) PROVE Given(F, p)
    BY <1>1, <2>3 DEF Given, GivenUpTo
  <2>4. ASSUME Takes(s, p), ~ Gives(t, p) PROVE Taken(F, p)
    BY <1>1, <2>4 DEF Taken, TakenUpTo
  <2> QED
    BY <2>1, <2>2, <2>3, <2>4
<1>4. ASSUME \A r \in {s, t} : ~ Gives(r, p) /\ ~ Takes(r, p)
      PROVE  Kept(F, p)
  BY <1>1, <1>4 DEF Kept, KeptUpTo
<1> QED
  BY <1>1, <1>2, <1>3, <1>4 DEF Has, Effects, StatementEffect, Over, F

LEMMA ThreeStatements ==
  ASSUME NEW s \in Ordinary, NEW t \in Ordinary, NEW u \in Ordinary, NEW p
  PROVE  Has(<<s, t, u>>, p,
             Over(Over(StatementEffect(s, p), StatementEffect(t, p)),
                  StatementEffect(u, p)))
<1>1. <<s, t, u>> = <<s, t>> \o <<u>>
  OBVIOUS
<1> QED
  BY <1>1, OneStatement, TwoStatements, Composition

ColumnsEffect(holders, table, p) ==
  IF p[1] \notin holders \/ p[2] # table THEN "kept"
  ELSE IF p[3] = "COLUMNS" THEN "given"
  ELSE IF p[3] = "UPDATE" THEN "taken"
  ELSE "kept"

LEMMA OnlyColumnsHas ==
  ASSUME NEW holders \in SUBSET Roles, NEW table \in Tables, NEW p
  PROVE  Has(OnlyColumns(holders, table), p, ColumnsEffect(holders, table, p))
<1> DEFINE s == Revoke(holders, {table}, {"UPDATE"})
           t == Grant(holders, {table}, {"COLUMNS"})
<1>1. s \in Ordinary /\ t \in Ordinary
  BY DEF Ordinary, Revoke, Grant, Statement, Actions
<1>2. Over(StatementEffect(s, p), StatementEffect(t, p))
        = ColumnsEffect(holders, table, p)
  BY DEF Over, StatementEffect, ColumnsEffect, Gives, Takes, Mentions,
         Revoke, Grant, Statement
<1> QED
  BY <1>1, <1>2, TwoStatements DEF OnlyColumns

LEMMA CreateRolesHas ==
  ASSUME NEW p
  PROVE  Has(<<CreateRoles>>, p, "kept")
<1>1. CreateRoles \in Ordinary
  BY DEF CreateRoles, Statement, Ordinary
<1>2. StatementEffect(CreateRoles, p) = "kept"
  BY DEF CreateRoles, Statement, StatementEffect, Gives, Takes
<1> QED
  BY <1>1, <1>2, OneStatement

ControlEffect(p) ==
  IF p[1] = "control" /\ p[3] \in ReadWrite THEN "given" ELSE "kept"

LEMMA ControlBlockHas ==
  ASSUME NEW p
  PROVE  Has(ControlBlock, p, ControlEffect(p))
<1>1. Grant({"control"}, {}, ReadWrite) \in Ordinary
  BY DEF Ordinary, Grant, Statement, Roles, Actions, ReadWrite
<1>2. StatementEffect(Grant({"control"}, {}, ReadWrite), p) = ControlEffect(p)
  BY DEF Grant, Statement, StatementEffect, ControlEffect, Gives, Takes,
         Mentions
<1> QED
  BY <1>1, <1>2, OneStatement DEF ControlBlock

ConnectionEffect(p) ==
  IF p[1] # "control" THEN "kept"
  ELSE IF p[2] \in {"connections", "connection_drafts"}
  THEN IF p[3] = "COLUMNS" THEN "given"
       ELSE IF p[3] = "UPDATE" THEN "taken" ELSE "kept"
  ELSE IF p[2] = "connection_project_access"
  THEN IF p[3] = "DELETE" THEN "given"
       ELSE IF p[3] \in {"UPDATE", "COLUMNS"} THEN "taken" ELSE "kept"
  ELSE "kept"

LEMMA ConnectionBlockHas ==
  ASSUME NEW p
  PROVE  Has(ConnectionBlock, p, ConnectionEffect(p))
<1> DEFINE s == Revoke({"control"}, {"connection_project_access"}, {"UPDATE"})
           t == Grant({"control"}, {"connection_project_access"}, {"DELETE"})
           F == OnlyColumns({"control"}, "connections")
           G == OnlyColumns({"control"}, "connection_drafts")
<1>1. s \in Ordinary /\ t \in Ordinary
  BY DEF Ordinary, Revoke, Grant, Statement, Actions, Roles, Tables,
         BaselineTables, NamedTables
<1>2. /\ Has(F, p, ColumnsEffect({"control"}, "connections", p))
      /\ Has(G, p, ColumnsEffect({"control"}, "connection_drafts", p))
  BY OnlyColumnsHas DEF Roles, Tables, BaselineTables, NamedTables
<1>3. Has(<<s, t>>, p, Over(StatementEffect(s, p), StatementEffect(t, p)))
  BY <1>1, TwoStatements
<1>4. Has((F \o G) \o <<s, t>>, p,
          Over(Over(ColumnsEffect({"control"}, "connections", p),
                    ColumnsEffect({"control"}, "connection_drafts", p)),
               Over(StatementEffect(s, p), StatementEffect(t, p))))
  BY ONLY <1>2, <1>3, Composition
<1>5. Over(Over(ColumnsEffect({"control"}, "connections", p),
                ColumnsEffect({"control"}, "connection_drafts", p)),
           Over(StatementEffect(s, p), StatementEffect(t, p)))
        = ConnectionEffect(p)
  BY DEF Over, StatementEffect, ColumnsEffect, ConnectionEffect, Gives, Takes,
         Mentions, Revoke, Grant, Statement
<1> QED
  BY <1>4, <1>5 DEF ConnectionBlock

IdentityEffect(p) ==
  IF p[1] # "control" THEN "kept"
  ELSE IF p[2] \in SecurityTables /\ p[3] = "COLUMNS" THEN "given"
  ELSE IF p[2] \in SecurityTables /\ p[3] = "UPDATE" THEN "taken"
  ELSE IF p[2] = "auth_sessions" /\ p[3] = "DELETE" THEN "taken"
  ELSE "kept"

LEMMA IdentityBlockHas ==
  ASSUME NEW p
  PROVE  Has(IdentityBlock, p, IdentityEffect(p))
<1> DEFINE s == Revoke({"control"}, {"auth_sessions"}, {"UPDATE", "DELETE"})
           t == Grant({"control"}, {"auth_sessions"}, {"COLUMNS"})
           F == OnlyColumns({"control"}, "user_auth_identities")
<1>1. s \in Ordinary /\ t \in Ordinary
  BY DEF Ordinary, Revoke, Grant, Statement, Actions, Roles, Tables,
         SecurityTables
<1>2. Has(F, p, ColumnsEffect({"control"}, "user_auth_identities", p))
  BY OnlyColumnsHas DEF Roles, Tables, SecurityTables
<1>3. Has(<<s, t>>, p, Over(StatementEffect(s, p), StatementEffect(t, p)))
  BY <1>1, TwoStatements
<1>4. Has(F \o <<s, t>>, p,
          Over(ColumnsEffect({"control"}, "user_auth_identities", p),
               Over(StatementEffect(s, p), StatementEffect(t, p))))
  BY ONLY <1>2, <1>3, Composition
<1>5. Over(ColumnsEffect({"control"}, "user_auth_identities", p),
           Over(StatementEffect(s, p), StatementEffect(t, p)))
        = IdentityEffect(p)
  BY DEF Over, StatementEffect, ColumnsEffect, IdentityEffect, Gives, Takes,
         Mentions, Revoke, Grant, Statement, SecurityTables
<1> QED
  BY <1>4, <1>5 DEF IdentityBlock

RuntimeReads ==
  {"workspaces", "bindings", "connections", "connection_revisions",
   "connection_project_access", "credential_secret_versions"}

RuntimeEffect(p) ==
  IF p[1] # "runtime" THEN "kept"
  ELSE IF p[2] \in RuntimeReads /\ p[3] = "SELECT" THEN "given"
  ELSE IF /\ p[2] \in {"executions", "execution_attempts",
                       "idempotency_records"}
          /\ p[3] \in ReadWrite THEN "given"
  ELSE IF /\ p[2] \in {"usage_events", "outbox_events"}
          /\ p[3] \in {"SELECT", "INSERT"} THEN "given"
  ELSE "kept"

LEMMA RuntimeBlockHas ==
  ASSUME NEW p
  PROVE  Has(RuntimeBlock, p, RuntimeEffect(p))
<1> DEFINE s == Grant({"runtime"}, RuntimeReads, {"SELECT"})
           t == Grant({"runtime"},
                      {"executions", "execution_attempts",
                       "idempotency_records"}, ReadWrite)
           u == Grant({"runtime"}, {"usage_events", "outbox_events"},
                      {"SELECT", "INSERT"})
<1>1. s \in Ordinary /\ t \in Ordinary /\ u \in Ordinary
  BY DEF Ordinary, Grant, Statement, Actions, Roles, Tables, BaselineTables,
         NamedTables, WriteOnce, RuntimeReads, ReadWrite
<1>2. Over(Over(StatementEffect(s, p), StatementEffect(t, p)),
           StatementEffect(u, p)) = RuntimeEffect(p)
  BY DEF Over, StatementEffect, RuntimeEffect, Gives, Takes, Mentions, Grant,
         Statement, RuntimeReads
<1>3. RuntimeBlock = <<s, t, u>>
  BY DEF RuntimeBlock, RuntimeReads
<1> QED
  BY <1>1, <1>2, <1>3, ThreeStatements

WorkerEffect(p) ==
  IF p[1] # "worker" THEN "kept"
  ELSE IF p[2] = "bindings" /\ p[3] \in {"UPDATE", "COLUMNS"} THEN "taken"
  ELSE IF p[3] \in ReadWrite THEN "given"
  ELSE "kept"

LEMMA WorkerBlockHas ==
  ASSUME NEW p
  PROVE  Has(WorkerBlock, p, WorkerEffect(p))
<1> DEFINE s == Grant({"worker"}, {}, ReadWrite)
           t == Revoke({"worker"}, {"bindings"}, {"UPDATE"})
<1>1. s \in Ordinary /\ t \in Ordinary
  BY DEF Ordinary, Grant, Revoke, Statement, Actions, Roles, Tables,
         BaselineTables, NamedTables, ReadWrite
<1>2. Over(StatementEffect(s, p), StatementEffect(t, p)) = WorkerEffect(p)
  BY DEF Over, StatementEffect, WorkerEffect, Gives, Takes, Mentions, Grant,
         Revoke, Statement
<1> QED
  BY <1>1, <1>2, TwoStatements DEF WorkerBlock

ConnectionTables ==
  {"connections", "connection_drafts", "connection_revisions",
   "connection_project_access"}

WorkerConnectionEffect(p) ==
  IF /\ p[1] = "worker" /\ p[2] \in ConnectionTables
     /\ p[3] \in {"INSERT", "UPDATE", "COLUMNS"}
  THEN "taken" ELSE "kept"

LEMMA WorkerConnectionBlockHas ==
  ASSUME NEW p
  PROVE  Has(WorkerConnectionBlock, p, WorkerConnectionEffect(p))
<1> DEFINE s == Revoke({"worker"}, ConnectionTables, {"INSERT", "UPDATE"})
<1>1. s \in Ordinary
  BY DEF Ordinary, Revoke, Statement, Actions, Roles, Tables,
         BaselineTables, NamedTables, WriteOnce, ConnectionTables
<1>2. StatementEffect(s, p) = WorkerConnectionEffect(p)
  BY DEF StatementEffect, WorkerConnectionEffect, Gives, Takes, Mentions,
         Revoke, Statement, ConnectionTables
<1>3. WorkerConnectionBlock = <<s>>
  BY DEF WorkerConnectionBlock, ConnectionTables
<1> QED
  BY <1>1, <1>2, <1>3, OneStatement

SecurityEffect(p) ==
  IF /\ p[1] \in Roles \ {"control"} /\ p[2] \in SecurityTables
     /\ p[3] \in Actions
  THEN "taken" ELSE "kept"

LEMMA SecurityBlockHas ==
  ASSUME NEW p
  PROVE  Has(SecurityBlock, p, SecurityEffect(p))
<1> DEFINE s == Revoke(Roles \ {"control"}, {"user_auth_identities"}, Actions)
           t == Revoke(Roles \ {"control"}, {"auth_sessions"}, Actions)
<1>1. s \in Ordinary /\ t \in Ordinary
  BY DEF Ordinary, Revoke, Statement, Tables, SecurityTables
<1>2. Over(StatementEffect(s, p), StatementEffect(t, p)) = SecurityEffect(p)
  BY DEF Over, StatementEffect, SecurityEffect, Gives, Takes, Mentions,
         Revoke, Statement, SecurityTables, Actions
<1> QED
  BY <1>1, <1>2, TwoStatements DEF SecurityBlock

HistoryEffect(p) ==
  IF p[2] \in WriteOnce
  THEN IF p[1] \in Roles \ {"retention"}
          /\ p[3] \in {"UPDATE", "COLUMNS", "DELETE"}
       THEN "taken" ELSE "kept"
  ELSE IF p[2] = "execution_attempts"
  THEN ColumnsEffect({"runtime", "worker"}, "execution_attempts", p)
  ELSE IF p[2] = "credential_secret_versions"
  THEN IF p[1] \in {"control", "worker"} /\ p[3] = "COLUMNS" THEN "given"
       ELSE IF p[1] \in Roles \ {"retention"} /\ p[3] \in {"UPDATE", "COLUMNS"}
       THEN "taken" ELSE "kept"
  ELSE "kept"

LEMMA HistoryBlockHas ==
  ASSUME NEW p
  PROVE  Has(HistoryBlock, p, HistoryEffect(p))
<1> DEFINE r == Revoke(Roles \ {"retention"}, WriteOnce, {"UPDATE", "DELETE"})
           s == Revoke(Roles \ {"retention"}, {"credential_secret_versions"},
                       {"UPDATE"})
           t == Grant({"control", "worker"}, {"credential_secret_versions"},
                      {"COLUMNS"})
           F == OnlyColumns({"runtime", "worker"}, "execution_attempts")
           f == ColumnsEffect({"runtime", "worker"}, "execution_attempts", p)
<1>1. r \in Ordinary /\ s \in Ordinary /\ t \in Ordinary
  BY DEF Ordinary, Revoke, Grant, Statement, Actions, Roles, Tables,
         BaselineTables, NamedTables, WriteOnce
<1>2. Has(F, p, f)
  BY OnlyColumnsHas DEF Roles, Tables, BaselineTables, NamedTables
<1>3. Has(<<s, t>>, p, Over(StatementEffect(s, p), StatementEffect(t, p)))
  BY <1>1, TwoStatements
<1>4. Has(<<r>>, p, StatementEffect(r, p))
  BY <1>1, OneStatement
<1>5. Has((<<r>> \o F) \o <<s, t>>, p,
          Over(Over(StatementEffect(r, p), f),
               Over(StatementEffect(s, p), StatementEffect(t, p))))
  BY ONLY <1>2, <1>3, <1>4, Composition
<1>6. StatementEffect(r, p) =
        IF /\ p[2] \in WriteOnce /\ p[1] \in Roles \ {"retention"}
           /\ p[3] \in {"UPDATE", "COLUMNS", "DELETE"}
        THEN "taken" ELSE "kept"
  BY DEF StatementEffect, Gives, Takes, Mentions, Revoke, Statement, WriteOnce
<1>7. Over(StatementEffect(s, p), StatementEffect(t, p)) =
        IF p[2] # "credential_secret_versions" THEN "kept"
        ELSE IF p[1] \in {"control", "worker"} /\ p[3] = "COLUMNS" THEN "given"
        ELSE IF p[1] \in Roles \ {"retention"} /\ p[3] \in {"UPDATE", "COLUMNS"}
        THEN "taken" ELSE "kept"
  BY DEF Over, StatementEffect, Gives, Takes, Mentions, Revoke, Grant,
         Statement, Roles
<1>8. Over(Over(StatementEffect(r, p), f),
           Over(StatementEffect(s, p), StatementEffect(t, p)))
        = HistoryEffect(p)
  BY ONLY <1>6, <1>7 DEF Over, ColumnsEffect, HistoryEffect, WriteOnce
<1> QED
  BY <1>5, <1>8 DEF HistoryBlock

RetentionEffect(p) ==
  IF p[1] # "retention" THEN "kept"
  ELSE IF /\ p[2] \in {"idempotency_records", "outbox_events"}
          /\ p[3] \in {"SELECT", "DELETE"} THEN "given"
  ELSE IF p[2] = "webhook_deliveries" /\ p[3] \in {"SELECT", "COLUMNS"}
  THEN "given"
  ELSE "kept"

LEMMA RetentionBlockHas ==
  ASSUME NEW p
  PROVE  Has(RetentionBlock, p, RetentionEffect(p))
<1> DEFINE s == Grant({"retention"}, {"idempotency_records", "outbox_events"},
                      {"SELECT", "DELETE"})
           t == Grant({"retention"}, {"webhook_deliveries"},
                      {"SELECT", "COLUMNS"})
<1>1. s \in Ordinary /\ t \in Ordinary /\ DefaultPrivileges \in Ordinary
  BY DEF Ordinary, Grant, DefaultPrivileges, Statement, Actions, Roles, Tables,
         BaselineTables, NamedTables
<1>2. Over(Over(StatementEffect(s, p), StatementEffect(t, p)),
           StatementEffect(DefaultPrivileges, p)) = RetentionEffect(p)
  BY DEF Over, StatementEffect, RetentionEffect, Gives, Takes, Mentions, Grant,
         DefaultPrivileges, Statement
<1> QED
  BY <1>1, <1>2, ThreeStatements DEF RetentionBlock

-----------------------------------------------------------------------------
(* The files. *)

BindingsEffect(p) == ColumnsEffect({"control"}, "bindings", p)

CurrentEffect(p) ==
  Over(Over(Over(Over(Over(Over(Over(Over(Over(
    ControlEffect(p), ConnectionEffect(p)), BindingsEffect(p)),
    IdentityEffect(p)), RuntimeEffect(p)), WorkerEffect(p)),
    WorkerConnectionEffect(p)), SecurityEffect(p)), HistoryEffect(p)),
    RetentionEffect(p))

OldEffect(p) ==
  Over(Over(Over(Over(Over(
    ControlEffect(p), BindingsEffect(p)), RuntimeEffect(p)),
    WorkerEffect(p)), HistoryEffect(p)), RetentionEffect(p))

LEMMA StartHas ==
  ASSUME NEW p
  PROVE  Has(<<CreateRoles>> \o ControlBlock, p, ControlEffect(p))
<1>1. Has(<<CreateRoles>> \o ControlBlock, p, Over("kept", ControlEffect(p)))
  BY ONLY CreateRolesHas, ControlBlockHas, Composition
<1>2. Over("kept", ControlEffect(p)) = ControlEffect(p)
  BY DEF Over, ControlEffect
<1> QED
  BY <1>1, <1>2

LEMMA BindingsHas ==
  ASSUME NEW p
  PROVE  Has(OnlyColumns({"control"}, "bindings"), p, BindingsEffect(p))
BY OnlyColumnsHas
DEF BindingsEffect, Roles, Tables, BaselineTables, NamedTables

LEMMA CurrentRolesHas ==
  ASSUME NEW p
  PROVE  Has(CurrentRoles, p, CurrentEffect(p))
<1> DEFINE B == OnlyColumns({"control"}, "bindings")
           F1 == (<<CreateRoles>> \o ControlBlock) \o ConnectionBlock
           F2 == (F1 \o B) \o IdentityBlock
           F3 == (F2 \o RuntimeBlock) \o WorkerBlock
           F4 == (F3 \o WorkerConnectionBlock) \o SecurityBlock
           e1 == Over(ControlEffect(p), ConnectionEffect(p))
           e2 == Over(Over(e1, BindingsEffect(p)), IdentityEffect(p))
           e3 == Over(Over(e2, RuntimeEffect(p)), WorkerEffect(p))
           e4 == Over(Over(e3, WorkerConnectionEffect(p)), SecurityEffect(p))
<1>1. Has(F1, p, e1)
  BY ONLY StartHas, ConnectionBlockHas, Composition
<1> HIDE DEF F1, e1
<1>2. Has(F2, p, e2)
  BY ONLY <1>1, BindingsHas, IdentityBlockHas, Composition
<1> HIDE DEF F2, e2
<1>3. Has(F3, p, e3)
  BY ONLY <1>2, RuntimeBlockHas, WorkerBlockHas, Composition
<1> HIDE DEF F3, e3
<1>4. Has(F4, p, e4)
  BY ONLY <1>3, WorkerConnectionBlockHas, SecurityBlockHas, Composition
<1> HIDE DEF F4, e4
<1>5. Has((F4 \o HistoryBlock) \o RetentionBlock, p,
          Over(Over(e4, HistoryEffect(p)), RetentionEffect(p)))
  BY ONLY <1>4, HistoryBlockHas, RetentionBlockHas, Composition
<1> QED
  BY <1>5 DEF F1, F2, F3, F4, e1, e2, e3, e4, CurrentRoles, CurrentEffect

LEMMA OldRolesHas ==
  ASSUME NEW p
  PROVE  Has(OldRoles, p, OldEffect(p))
<1> DEFINE B == OnlyColumns({"control"}, "bindings")
           F1 == (<<CreateRoles>> \o ControlBlock) \o B
           F2 == (F1 \o RuntimeBlock) \o WorkerBlock
           e1 == Over(ControlEffect(p), BindingsEffect(p))
           e2 == Over(Over(e1, RuntimeEffect(p)), WorkerEffect(p))
<1>1. Has(F1, p, e1)
  BY ONLY StartHas, BindingsHas, Composition
<1> HIDE DEF F1, e1
<1>2. Has(F2, p, e2)
  BY ONLY <1>1, RuntimeBlockHas, WorkerBlockHas, Composition
<1> HIDE DEF F2, e2
<1>3. Has((F2 \o HistoryBlock) \o RetentionBlock, p,
          Over(Over(e2, HistoryEffect(p)), RetentionEffect(p)))
  BY ONLY <1>2, HistoryBlockHas, RetentionBlockHas, Composition
<1> QED
  BY <1>3 DEF F1, F2, e1, e2, OldRoles, OldEffect

(* Whatever the old file decides, the current one decides as well. *)
LEMMA CurrentDecidesMore ==
  ASSUME NEW p, CurrentEffect(p) = "kept"
  PROVE  OldEffect(p) = "kept"
BY DEF Over, CurrentEffect, OldEffect

(* The current file gives exactly the policy. *)
LEMMA CurrentGivesPolicy ==
  ASSUME NEW p \in Privileges
  PROVE  CurrentEffect(p) = "given" <=> p \in Policy
<1> USE DEF Over, CurrentEffect, ControlEffect, ConnectionEffect,
            BindingsEffect, ColumnsEffect, IdentityEffect, RuntimeEffect,
            WorkerEffect, WorkerConnectionEffect, SecurityEffect, HistoryEffect,
            RetentionEffect, Held, ReadWrite, WriteOnce, SecurityTables,
            RuntimeReads, ConnectionTables, Actions
<1>1. /\ p[1] \in Roles /\ p[3] \in Actions
      /\ p \in Policy <=> p[3] \in Held(p[1], p[2])
  BY DEF Privileges, Policy
<1>2. CASE p[1] = "control"
  BY <1>1, <1>2
<1>3. CASE p[1] = "runtime"
  BY <1>1, <1>3 DEF Roles
<1>4. CASE p[1] = "worker"
  <2>1. CASE p[2] \in SecurityTables
    BY <1>1, <1>4, <2>1 DEF Roles
  <2>2. CASE p[2] \in ConnectionTables
    <3>1. CASE p[2] = "connection_revisions"
      <4>1. /\ WorkerEffect(p) =
                 IF p[3] \in ReadWrite THEN "given" ELSE "kept"
            /\ WorkerConnectionEffect(p) =
                 IF p[3] \in {"INSERT", "UPDATE", "COLUMNS"}
                 THEN "taken" ELSE "kept"
            /\ SecurityEffect(p) = "kept"
            /\ HistoryEffect(p) =
                 IF p[3] \in {"UPDATE", "COLUMNS", "DELETE"}
                 THEN "taken" ELSE "kept"
            /\ RetentionEffect(p) = "kept"
        BY ONLY <1>4, <3>1
        DEF WorkerEffect, WorkerConnectionEffect, SecurityEffect,
            HistoryEffect, RetentionEffect, ConnectionTables, SecurityTables,
            WriteOnce, Roles
      <4>3. Held(p[1], p[2]) = {"SELECT"}
        BY ONLY <1>4, <3>1 DEF Held, SecurityTables
      <4>2. CurrentEffect(p) = "given" <=> p[3] = "SELECT"
        BY ONLY <1>1, <4>1 DEF CurrentEffect, Over, ReadWrite, Actions
      <4> QED
        BY ONLY <1>1, <4>2, <4>3
    <3>2. CASE p[2] \in {"connections", "connection_drafts",
                         "connection_project_access"}
      BY <1>1, <1>4, <3>2 DEF Roles
    <3> QED
      BY <2>2, <3>1, <3>2
  <2>3. CASE p[2] \in {"audit_events", "usage_events", "bindings"}
    BY <1>1, <1>4, <2>3 DEF Roles
  <2>4. CASE p[2] \in {"execution_attempts", "credential_secret_versions"}
    BY <1>1, <1>4, <2>4 DEF Roles
  <2>5. CASE p[2] \notin SecurityTables \cup ConnectionTables \cup
                         {"audit_events", "usage_events", "bindings",
                          "execution_attempts", "credential_secret_versions"}
    BY <1>1, <1>4, <2>5 DEF Roles
  <2> QED
    BY <2>1, <2>2, <2>3, <2>4, <2>5
<1>5. CASE p[1] = "retention"
  BY <1>1, <1>5 DEF Roles
<1> QED
  BY <1>1, <1>2, <1>3, <1>4, <1>5 DEF Roles

(* Nothing but SELECT and INSERT on write-once tables survives a file, and *)
(* no UPDATE on bindings; what a file does not take there nothing gives.   *)
Historic(p) ==
  \/ p[2] \in WriteOnce /\ p[3] \notin {"SELECT", "INSERT"}
  \/ p[2] = "bindings" /\ p[3] = "UPDATE"

LEMMA HistoryIsTaken ==
  ASSUME NEW p \in Privileges, Historic(p)
  PROVE  \/ CurrentEffect(p) = "taken" /\ OldEffect(p) = "taken"
         \/ CurrentEffect(p) = "kept"
<1> USE DEF Over, CurrentEffect, OldEffect, ControlEffect, ConnectionEffect,
            BindingsEffect, ColumnsEffect, IdentityEffect, RuntimeEffect,
            WorkerEffect, WorkerConnectionEffect, SecurityEffect, HistoryEffect,
            RetentionEffect, ReadWrite, WriteOnce, SecurityTables,
            RuntimeReads, ConnectionTables, Actions
<1>1. p[1] \in Roles /\ p[3] \in Actions
  BY DEF Privileges
<1>2. CASE p[2] \in WriteOnce
  <2>1. p[3] \in {"UPDATE", "COLUMNS", "DELETE"}
    BY <1>1, <1>2 DEF Historic
  <2> QED
    BY <1>1, <1>2, <2>1 DEF Roles
<1>3. CASE p[2] = "bindings" /\ p[3] = "UPDATE"
  BY <1>1, <1>3 DEF Roles
<1> QED
  BY <1>2, <1>3 DEF Historic

(* The current file takes the security tables from all but control, and    *)
(* decides about what migrations grant on them.                            *)
LEMMA SecurityIsDecided ==
  ASSUME NEW p \in Privileges, p[2] \in SecurityTables
  PROVE  /\ p[1] # "control" => CurrentEffect(p) = "taken"
         /\ p[1] = "control" /\ p[3] # "DELETE" => CurrentEffect(p) # "kept"
<1> USE DEF Over, CurrentEffect, ControlEffect, ConnectionEffect,
            BindingsEffect, ColumnsEffect, IdentityEffect, RuntimeEffect,
            WorkerEffect, WorkerConnectionEffect, SecurityEffect, HistoryEffect,
            RetentionEffect, ReadWrite, WriteOnce, SecurityTables,
            RuntimeReads, ConnectionTables, Actions
<1>1. p[1] \in Roles /\ p[3] \in Actions
  BY DEF Privileges
<1> QED
  BY <1>1 DEF Roles

(* It names a security table, so it does not run before there is one. *)
LEMMA CurrentNamesSessions ==
  \E k \in 1 .. Len(CurrentRoles) : "auth_sessions" \in CurrentRoles[k].tables
<1> DEFINE p == <<"worker", "auth_sessions", "SELECT">>
<1>1. /\ p \in Privileges /\ p[1] # "control" /\ p[2] = "auth_sessions"
      /\ p[2] \in SecurityTables
  BY DEF Privileges, Roles, Actions, Tables, SecurityTables
<1> HIDE DEF p
<1>2. CurrentRoles \in Files /\ Taken(CurrentRoles, p)
  BY <1>1, CurrentRolesHas, SecurityIsDecided DEF Has
<1>3. PICK k \in 1 .. Len(CurrentRoles) : Takes(CurrentRoles[k], p)
  BY <1>2 DEF Taken, TakenUpTo
<1>4. CurrentRoles[k] \in Ordinary
  BY <1>2, <1>3 DEF Files
<1> QED
  BY <1>1, <1>3, <1>4 DEF Takes, Mentions, Ordinary

-----------------------------------------------------------------------------
(* The inductive invariant. *)

Revisions == 0 .. HeadRevision

AnyStatement ==
  [verb : {"GRANT", "REVOKE", "CREATE_ROLES", "CREATE_TABLE", "DEFAULTS"},
   roles : SUBSET Roles, tables : SUBSET Tables, actions : SUBSET Actions,
   where : {"always", "present"}]

Jobs ==
  [kind : {"migration", "current", "old"}, target : Revisions,
   statements : Seq(AnyStatement), at : Nat \ {0}, created : BOOLEAN,
   defaults : BOOLEAN, grants : SUBSET Privileges]

TypeOK ==
  /\ revision \in Revisions /\ oldAt \in Revisions
  /\ roles \in BOOLEAN /\ defaults \in BOOLEAN
  /\ grants \in SUBSET Privileges
  /\ applied \in {"none", "old", "current"}
  /\ job # None => job \in Jobs

OnTablesAt(privileges, n) == \A p \in privileges : p[2] \in TablesAt(n)

(* The current file decides about every privilege anything has granted. *)
Decided(privileges) == \A p \in privileges : CurrentEffect(p) # "kept"

Synced == applied = "current" => revision >= 3 /\ grants = Policy

(* The running role file has done to every privilege what its statements   *)
(* so far do, all of them about tables that exist.                         *)
FileHasDone(j, n, p) ==
  /\ GivenUpTo(j.statements, n, p) => p \in j.grants
  /\ TakenUpTo(j.statements, n, p) => p \notin j.grants
  /\ KeptUpTo(j.statements, n, p) => (p \in j.grants <=> p \in grants)

FileRuns(j) ==
  /\ \/ j.kind = "current" /\ j.statements = CurrentRoles
     \/ j.kind = "old" /\ j.statements = OldRoles /\ revision >= 1
  /\ j.target = revision
  /\ j.at > 1 => roles \/ j.created
  /\ OnTablesAt(j.grants, revision)
  /\ \A k \in 1 .. j.at - 1 : j.statements[k].tables \subseteq TablesAt(revision)
  /\ \A p \in Privileges :
       p[2] \in TablesAt(revision) => FileHasDone(j, j.at - 1, p)

(* The migration that creates table: nobody but control and, until the     *)
(* sixth statement, a worker by the default privileges has been granted    *)
(* anything on it, and no other privilege has changed.                     *)
SecuringRuns(j, table) ==
  /\ j.kind = "migration" /\ j.statements = SecurityTable(table)
  /\ j.target = revision + 1
  /\ TablesAt(j.target) = TablesAt(revision) \cup {table}
  /\ ~ j.created /\ j.defaults = defaults
  /\ \A p \in j.grants :
       p[2] = table =>
         \/ p[1] = "control" /\ p[3] # "DELETE"
         \/ p[1] = "worker" /\ defaults /\ j.at <= 6
  /\ \A p \in Privileges :
       p[2] # table => (p \in j.grants <=> p \in grants)

IndexRuns(j) ==
  /\ j.kind = "migration" /\ j.statements = <<>>
  /\ \/ revision = 0 /\ j.target = 1
     \/ revision >= 3 /\ j.target >= 3
  /\ ~ j.created /\ j.defaults = defaults /\ j.grants = grants

JobRuns ==
  /\ job.at <= Len(job.statements) + 1
  /\ job.defaults => roles \/ job.created
  /\ \/ FileRuns(job)
     \/ revision = 1 /\ SecuringRuns(job, "user_auth_identities")
     \/ revision = 2 /\ SecuringRuns(job, "auth_sessions")
     \/ IndexRuns(job)

Inv ==
  /\ TypeOK
  /\ defaults => roles
  /\ OnTablesAt(grants, revision)
  /\ Decided(grants)
  /\ Synced
  /\ SecurityTablesSealed
  /\ HistoryIsWriteOnce
  /\ job # None => JobRuns

-----------------------------------------------------------------------------
(* One statement more of a file. *)

LEMMA FilesAreStatements ==
  ASSUME NEW F \in Files
  PROVE  F \in Seq(AnyStatement)
<1>1. Ordinary \subseteq AnyStatement
  BY DEF Ordinary, AnyStatement
<1> QED
  BY <1>1 DEF Files

LEMMA TheFiles ==
  /\ CurrentRoles \in Files /\ CurrentRoles \in Seq(AnyStatement)
  /\ OldRoles \in Files /\ OldRoles \in Seq(AnyStatement)
BY CurrentRolesHas, OldRolesHas, FilesAreStatements DEF Has

Creates(F) == F \in Files /\ Len(F) >= 1 /\ F[1] = CreateRoles

LEMMA CreatesFirst ==
  ASSUME NEW F, NEW G \in Files, Creates(F)
  PROVE  Creates(F \o G)
BY DEF Creates, Files

LEMMA FilesCreateRoles == Creates(CurrentRoles) /\ Creates(OldRoles)
<1> DEFINE B == OnlyColumns({"control"}, "bindings")
<1>1. /\ ControlBlock \in Files /\ ConnectionBlock \in Files /\ B \in Files
      /\ IdentityBlock \in Files /\ RuntimeBlock \in Files
      /\ WorkerBlock \in Files /\ WorkerConnectionBlock \in Files
      /\ SecurityBlock \in Files /\ HistoryBlock \in Files
      /\ RetentionBlock \in Files /\ <<CreateRoles>> \in Files
  BY ControlBlockHas, ConnectionBlockHas, BindingsHas, IdentityBlockHas,
     RuntimeBlockHas, WorkerBlockHas, WorkerConnectionBlockHas,
     SecurityBlockHas, HistoryBlockHas, RetentionBlockHas, CreateRolesHas
  DEF Has
<1>2. Creates(<<CreateRoles>>)
  BY <1>1 DEF Creates
<1> DEFINE F1 == <<CreateRoles>> \o ControlBlock
           F2 == ((F1 \o ConnectionBlock) \o B) \o IdentityBlock
           F3 == (F2 \o RuntimeBlock) \o WorkerBlock
           F4 == (F3 \o WorkerConnectionBlock) \o SecurityBlock
           G2 == (F1 \o B) \o RuntimeBlock
           G3 == (G2 \o WorkerBlock) \o HistoryBlock
<1>3. Creates(F1)
  BY ONLY <1>1, <1>2, CreatesFirst
<1> HIDE DEF F1, B
<1>4. Creates(F2) /\ Creates(G2)
  BY ONLY <1>1, <1>3, CreatesFirst
<1> HIDE DEF F2, G2
<1>5. Creates(F3) /\ Creates(G3)
  BY ONLY <1>1, <1>4, CreatesFirst
<1> HIDE DEF F3, G3
<1>6. Creates(F4)
  BY ONLY <1>1, <1>5, CreatesFirst
<1> HIDE DEF F4
<1>7. Creates((F4 \o HistoryBlock) \o RetentionBlock)
      /\ Creates(G3 \o RetentionBlock)
  BY ONLY <1>1, <1>5, <1>6, CreatesFirst
<1> QED
  BY <1>7 DEF F4, F3, F2, F1, G3, G2, B, CurrentRoles, OldRoles

LEMMA OneMore ==
  ASSUME NEW F \in Files, NEW n \in Nat, n + 1 <= Len(F), NEW p
  PROVE  /\ GivenUpTo(F, n + 1, p) =>
              \/ Gives(F[n + 1], p)
              \/ GivenUpTo(F, n, p) /\ ~ Takes(F[n + 1], p)
         /\ TakenUpTo(F, n + 1, p) =>
              \/ Takes(F[n + 1], p)
              \/ TakenUpTo(F, n, p) /\ ~ Gives(F[n + 1], p)
         /\ KeptUpTo(F, n + 1, p) =>
              /\ ~ Gives(F[n + 1], p) /\ ~ Takes(F[n + 1], p)
              /\ KeptUpTo(F, n, p)
<1>1. ASSUME GivenUpTo(F, n + 1, p), ~ Gives(F[n + 1], p)
      PROVE  GivenUpTo(F, n, p) /\ ~ Takes(F[n + 1], p)
  <2>1. PICK k \in 1 .. n + 1 :
          Gives(F[k], p) /\ \A j \in k + 1 .. n + 1 : ~ Takes(F[j], p)
    BY <1>1 DEF GivenUpTo
  <2>2. k \in 1 .. n /\ n + 1 \in k + 1 .. n + 1
    BY <1>1, <2>1
  <2>3. \A j \in k + 1 .. n : j \in k + 1 .. n + 1
    OBVIOUS
  <2> QED
    BY <2>1, <2>2, <2>3 DEF GivenUpTo
<1>2. ASSUME TakenUpTo(F, n + 1, p), ~ Takes(F[n + 1], p)
      PROVE  TakenUpTo(F, n, p) /\ ~ Gives(F[n + 1], p)
  <2>1. PICK k \in 1 .. n + 1 :
          Takes(F[k], p) /\ \A j \in k + 1 .. n + 1 : ~ Gives(F[j], p)
    BY <1>2 DEF TakenUpTo
  <2>2. k \in 1 .. n /\ n + 1 \in k + 1 .. n + 1
    BY <1>2, <2>1
  <2>3. \A j \in k + 1 .. n : j \in k + 1 .. n + 1
    OBVIOUS
  <2> QED
    BY <2>1, <2>2, <2>3 DEF TakenUpTo
<1>3. \A k \in 1 .. n : k \in 1 .. n + 1
  OBVIOUS
<1>4. n + 1 \in 1 .. n + 1
  OBVIOUS
<1>5. ASSUME KeptUpTo(F, n + 1, p)
      PROVE  /\ ~ Gives(F[n + 1], p) /\ ~ Takes(F[n + 1], p)
             /\ KeptUpTo(F, n, p)
  BY ONLY <1>3, <1>4, <1>5 DEF KeptUpTo
<1> QED
  BY <1>1, <1>2, <1>5

(* What executing a statement of a role file does to a privilege. *)
LEMMA AfterStatement ==
  ASSUME job \in Jobs, job.kind # "migration", NEW s \in Ordinary,
         NEW p \in Privileges, p[2] \in TablesAt(revision)
  PROVE  /\ Gives(s, p) => p \in After(s)
         /\ Takes(s, p) => p \notin After(s)
         /\ ~ Gives(s, p) /\ ~ Takes(s, p) =>
              (p \in After(s) <=> p \in job.grants)
<1>1. Existing = TablesAt(revision)
  BY DEF Existing
<1>2. /\ s.verb \in {"GRANT", "REVOKE", "CREATE_ROLES", "DEFAULTS"}
      /\ s.where = "always"
      /\ s \in [verb : {"GRANT", "REVOKE", "CREATE_ROLES", "DEFAULTS"},
                roles : SUBSET Roles, tables : SUBSET Tables,
                actions : SUBSET Actions, where : {"always"}]
  BY DEF Ordinary
<1>3. p \in Affected(s) <=> Mentions(s, p) /\ p[3] \in s.actions
  BY <1>1 DEF Affected, Mentions, Privileges
<1>4. p \in Revoked(s) <=>
        /\ Mentions(s, p)
        /\ p[3] \in s.actions \/ (p[3] = "COLUMNS" /\ "UPDATE" \in s.actions)
  <2> DEFINE more == IF "UPDATE" \in s.actions
                     THEN s.actions \cup {"COLUMNS"} ELSE s.actions
             t == [s EXCEPT !.actions = more]
  <2>1. t.roles = s.roles /\ t.tables = s.tables /\ t.actions = more
    BY <1>2
  <2>2. Revoked(s) = Affected(t)
    BY DEF Revoked
  <2> HIDE DEF t
  <2>3. p \in Affected(t) <=> Mentions(s, p) /\ p[3] \in more
    BY <1>1, <2>1 DEF Affected, Mentions, Privileges
  <2> QED
    BY <2>2, <2>3
<1>5. CASE s.verb = "GRANT"
  <2>1. After(s) = job.grants \cup Affected(s)
    BY <1>2, <1>5 DEF After, Applies
  <2> QED
    BY <1>3, <1>5, <2>1 DEF Gives, Takes
<1>6. CASE s.verb = "REVOKE"
  <2>1. After(s) = job.grants \ Revoked(s)
    BY <1>2, <1>6 DEF After, Applies
  <2> QED
    BY <1>4, <1>6, <2>1 DEF Gives, Takes
<1>7. CASE s.verb \in {"CREATE_ROLES", "DEFAULTS"}
  <2>1. After(s) = job.grants
    BY <1>7 DEF After
  <2> QED
    BY <1>7, <2>1 DEF Gives, Takes
<1> QED
  BY <1>2, <1>5, <1>6, <1>7

(* Grants only ever fall on tables that exist. *)
LEMMA AfterIsLocated ==
  ASSUME job \in Jobs, NEW s \in AnyStatement, Succeeds(s),
         \A p \in job.grants : p[2] \in Existing
  PROVE  /\ After(s) \in SUBSET Privileges
         /\ \A p \in After(s) : p[2] \in Existing
<1>1. job.grants \in SUBSET Privileges /\ s.tables \in SUBSET Tables
  BY DEF Jobs, AnyStatement
<1>2. Affected(s) \in SUBSET Privileges /\ \A p \in Affected(s) : p[2] \in Existing
  BY DEF Affected, Privileges, Succeeds
<1>3. CASE s.verb = "CREATE_TABLE"
  <2>1. {"control", "worker"} \X s.tables \X {"SELECT"} \in SUBSET Privileges
    BY <1>1 DEF Privileges, Roles, Actions
  <2>2. \A p \in {"control", "worker"} \X s.tables \X {"SELECT"} : p[2] \in Existing
    BY DEF Succeeds
  <2>3. After(s) = job.grants \/ After(s) = job.grants \cup
          ({"control", "worker"} \X s.tables \X {"SELECT"})
    BY <1>3 DEF After
  <2> QED
    BY ONLY <1>1, <2>1, <2>2, <2>3, \A p \in job.grants : p[2] \in Existing
<1>4. CASE s.verb # "CREATE_TABLE"
  <2>1. \/ After(s) = job.grants
        \/ After(s) = job.grants \cup Affected(s)
        \/ After(s) = job.grants \ Revoked(s)
    BY <1>4 DEF After
  <2> QED
    BY ONLY <1>1, <1>2, <2>1, \A p \in job.grants : p[2] \in Existing
<1> QED
  BY <1>3, <1>4

-----------------------------------------------------------------------------
(* The invariant is inductive. *)

LEMMA InitInv == Init => Inv
<1> SUFFICES ASSUME Init PROVE Inv
  OBVIOUS
<1> USE DEF Init
<1>1. TypeOK
  <2>1. 0 \in Revisions
    BY DEF Revisions, HeadRevision
  <2>2. roles \in BOOLEAN /\ defaults \in BOOLEAN
    OBVIOUS
  <2>3. grants \in SUBSET Privileges /\ applied \in {"none", "old", "current"}
    OBVIOUS
  <2> QED
    BY <2>1, <2>2, <2>3 DEF TypeOK
<1>2. /\ OnTablesAt(grants, revision) /\ Decided(grants) /\ Synced
      /\ SecurityTablesSealed /\ HistoryIsWriteOnce
  BY DEF OnTablesAt, Decided, Synced, SecurityTablesSealed, HistoryIsWriteOnce
<1> QED
  BY <1>1, <1>2 DEF Inv

(* While nothing commits, all that can break is what is said of the job. *)
Uncommitted ==
  UNCHANGED <<revision, defaults, grants, applied, oldAt>>

LEMMA UncommittedInv ==
  ASSUME Inv, Uncommitted, roles' \in BOOLEAN, roles => roles',
         job' # None => job' \in Jobs /\ JobRuns'
  PROVE  Inv'
<1> USE DEF Inv, Uncommitted
<1>1. TypeOK'
  BY DEF TypeOK, Revisions
<1>2. /\ OnTablesAt(grants, revision)' /\ Decided(grants)' /\ Synced'
      /\ SecurityTablesSealed' /\ HistoryIsWriteOnce'
  BY DEF OnTablesAt, Decided, Synced, SecurityTablesSealed,
         HistoryIsWriteOnce
<1> QED
  BY <1>1, <1>2 DEF TypeOK

LEMMA Nothing ==
  \A F, p : /\ ~ GivenUpTo(F, 0, p) /\ ~ TakenUpTo(F, 0, p)
            /\ KeptUpTo(F, 0, p)
BY DEF GivenUpTo, TakenUpTo, KeptUpTo

LEMMA SecurityTableStatements ==
  ASSUME NEW t \in Tables
  PROVE  /\ SecurityTable(t) \in Seq(AnyStatement)
         /\ Len(SecurityTable(t)) = 7
<1>1. CreateTable(t) \in AnyStatement
  BY DEF CreateTable, Statement, AnyStatement
<1>2. ASSUME NEW verb \in {"GRANT", "REVOKE"}, NEW holders \in SUBSET Roles,
             NEW actions \in SUBSET Actions
      PROVE  IfPresent(Statement(verb, holders, {t}, actions)) \in AnyStatement
  BY DEF IfPresent, Statement, AnyStatement
<1>3. /\ {"control"} \in SUBSET Roles /\ {"runtime"} \in SUBSET Roles
      /\ {"worker"} \in SUBSET Roles /\ {"retention"} \in SUBSET Roles
      /\ {"SELECT", "INSERT"} \in SUBSET Actions /\ Actions \in SUBSET Actions
      /\ {"UPDATE", "DELETE"} \in SUBSET Actions
      /\ {"COLUMNS"} \in SUBSET Actions
  BY DEF Roles, Actions
<1>4. /\ IfPresent(Grant({"control"}, {t}, {"SELECT", "INSERT"})) \in AnyStatement
      /\ IfPresent(Revoke({"control"}, {t}, {"UPDATE", "DELETE"}))
           \in AnyStatement
      /\ IfPresent(Grant({"control"}, {t}, {"COLUMNS"})) \in AnyStatement
      /\ IfPresent(Revoke({"runtime"}, {t}, Actions)) \in AnyStatement
      /\ IfPresent(Revoke({"worker"}, {t}, Actions)) \in AnyStatement
      /\ IfPresent(Revoke({"retention"}, {t}, Actions)) \in AnyStatement
  BY <1>2, <1>3 DEF Grant, Revoke
<1> QED
  BY ONLY <1>1, <1>4 DEF SecurityTable

LEMMA StartsInv ==
  ASSUME Inv, Upgrade \/ Downgrade \/ BootstrapRoles \/ BootstrapOldRoles
  PROVE  Inv'
<1> USE DEF Inv
<1>1. ASSUME NEW kind \in {"migration", "current", "old"},
             NEW target \in Revisions, NEW statements \in Seq(AnyStatement),
             Start(kind, target, statements)
      PROVE  /\ job' = [kind |-> kind, target |-> target,
                        statements |-> statements, at |-> 1,
                        created |-> FALSE, defaults |-> defaults,
                        grants |-> grants]
             /\ job' \in Jobs
             /\ Uncommitted /\ roles' = roles
             /\ job'.at <= Len(job'.statements) + 1
             /\ job'.defaults => roles' \/ job'.created
  BY <1>1 DEF Start, Jobs, TypeOK, Uncommitted
<1>2. ASSUME NEW kind, NEW F, Start(kind, revision, F),
             \/ kind = "current" /\ F = CurrentRoles
             \/ kind = "old" /\ F = OldRoles /\ revision >= 1
      PROVE  Inv'
  <2>1. /\ kind \in {"migration", "current", "old"} /\ F \in Seq(AnyStatement)
        /\ revision \in Revisions
    BY <1>2, TheFiles DEF TypeOK
  <2>2. PICK j : /\ job' = j
                 /\ j = [kind |-> kind, target |-> revision, statements |-> F,
                         at |-> 1, created |-> FALSE, defaults |-> defaults,
                         grants |-> grants]
                 /\ j \in Jobs /\ Uncommitted /\ roles' = roles
                 /\ j.at <= Len(j.statements) + 1
                 /\ j.defaults => roles' \/ j.created
    BY <1>1, <1>2, <2>1
  <2>3. \A p : FileHasDone(job, 0, p)'
    BY <2>2, Nothing DEF FileHasDone, Uncommitted
  <2>4. OnTablesAt(job.grants, revision)'
    BY <2>2 DEF OnTablesAt, Uncommitted
  <2>5. FileRuns(job)'
    <3>1. /\ j.kind = kind /\ j.statements = F /\ j.target = revision
          /\ j.at = 1 /\ j.at - 1 = 0 /\ ~ (1 > 1) /\ 1 .. 0 = {}
      BY <2>2
    <3> QED
      BY ONLY <1>2, <2>2, <2>3, <2>4, <3>1 DEF FileRuns, Uncommitted
  <2> QED
    BY <2>2, <2>5, UncommittedInv DEF JobRuns, TypeOK
<1>3. ASSUME NEW target \in Revisions, Start("migration", target, <<>>),
             \/ revision = 0 /\ target = 1
             \/ revision >= 3 /\ target >= 3
      PROVE  Inv'
  <2>1. <<>> \in Seq(AnyStatement)
    OBVIOUS
  <2>2. PICK j : /\ job' = j
                 /\ j = [kind |-> "migration", target |-> target,
                         statements |-> <<>>, at |-> 1, created |-> FALSE,
                         defaults |-> defaults, grants |-> grants]
                 /\ j \in Jobs /\ Uncommitted /\ roles' = roles
                 /\ j.at <= Len(j.statements) + 1
                 /\ j.defaults => roles' \/ j.created
    BY <1>1, <1>3, <2>1
  <2>3. IndexRuns(job)'
    BY <1>3, <2>2 DEF IndexRuns, Uncommitted
  <2> QED
    BY <2>2, <2>3, UncommittedInv DEF JobRuns, TypeOK
<1>4. ASSUME NEW t \in SecurityTables,
             Start("migration", revision + 1, SecurityTable(t)),
             \/ t = "user_auth_identities" /\ revision = 1
             \/ t = "auth_sessions" /\ revision = 2
      PROVE  Inv'
  <2>1. /\ SecurityTable(t) \in Seq(AnyStatement)
        /\ revision + 1 \in Revisions
    BY <1>4, SecurityTableStatements DEF Tables, Revisions, HeadRevision
  <2>2. PICK j : /\ job' = j
                 /\ j = [kind |-> "migration", target |-> revision + 1,
                         statements |-> SecurityTable(t), at |-> 1,
                         created |-> FALSE, defaults |-> defaults,
                         grants |-> grants]
                 /\ j \in Jobs /\ Uncommitted /\ roles' = roles
                 /\ j.at <= Len(j.statements) + 1
                 /\ j.defaults => roles' \/ j.created
    BY <1>1, <1>4, <2>1
  <2>3. /\ TablesAt(revision + 1) = TablesAt(revision) \cup {t}
        /\ t \notin TablesAt(revision)
    BY <1>4 DEF TablesAt, BaselineTables, NamedTables, WriteOnce,
                SecurityTables
  <2>4. \A p \in grants : p[2] # t
    BY <2>3 DEF OnTablesAt
  <2>5. SecuringRuns(job, t)'
    BY <2>2, <2>3, <2>4 DEF SecuringRuns, Uncommitted, TablesAt
  <2> QED
    BY <1>4, <2>2, <2>5, UncommittedInv DEF JobRuns, TypeOK, Uncommitted
<1>5. revision \in 0 .. 5
  BY DEF TypeOK, Revisions, HeadRevision
<1>6. CASE Upgrade
  <2>1. Start("migration", revision + 1, Migration(revision + 1))
        /\ revision + 1 \in Revisions
    BY <1>5, <1>6 DEF Upgrade, Revisions, HeadRevision
  <2>2. \/ revision \in {0, 3, 4} /\ Migration(revision + 1) = <<>>
        \/ /\ revision = 1
           /\ Migration(revision + 1) = SecurityTable("user_auth_identities")
        \/ /\ revision = 2
           /\ Migration(revision + 1) = SecurityTable("auth_sessions")
    BY <1>5, <1>6 DEF Upgrade, Migration, HeadRevision
  <2> QED
    BY <1>3, <1>4, <2>1, <2>2 DEF SecurityTables
<1>7. CASE Downgrade
  BY <1>3, <1>7 DEF Downgrade, Revisions, HeadRevision
<1>8. CASE BootstrapRoles
  BY <1>2, <1>8 DEF BootstrapRoles
<1>9. CASE BootstrapOldRoles
  BY <1>2, <1>9 DEF BootstrapOldRoles
<1> QED
  BY <1>6, <1>7, <1>8, <1>9

LEMMA ExecutesFile ==
  ASSUME Inv, Execute, FileRuns(job)
  PROVE  Inv'
<1>1. /\ TypeOK /\ job \in Jobs /\ JobRuns /\ job # None
  BY DEF Inv, TypeOK, Execute
<1>2. PICK F : F = job.statements
  OBVIOUS
<1>3. PICK n : n = job.at - 1
  OBVIOUS
<1>4. /\ F \in Files /\ Creates(F) /\ n \in Nat /\ job.at = n + 1
      /\ n + 1 <= Len(F) /\ Len(F) \in Nat
  <2>1. F \in Files /\ Creates(F)
    BY <1>2, TheFiles, FilesCreateRoles DEF FileRuns
  <2>2. job.at \in Nat \ {0}
    BY <1>1 DEF Jobs
  <2>3. job.at <= Len(F) /\ Len(F) \in Nat
    BY <1>2, <2>1 DEF Execute, Files
  <2> QED
    BY <1>3, <2>1, <2>2, <2>3
<1>5. PICK s : s = F[n + 1]
  OBVIOUS
<1>6. s \in Ordinary /\ s \in AnyStatement /\ NextStatement = s
  <2>1. n + 1 \in 1 .. Len(F)
    BY <1>4
  <2>2. s \in Ordinary
    BY <1>4, <1>5, <2>1 DEF Files
  <2> QED
    BY <1>2, <1>4, <1>5, <2>2 DEF NextStatement, Ordinary, AnyStatement
<1>7. Succeeds(s) /\ Existing = TablesAt(revision) /\ job.kind # "migration"
  BY <1>6 DEF Execute, Existing, FileRuns
<1>8. PICK g : g = After(s)
  OBVIOUS
<1>9. g \in SUBSET Privileges /\ OnTablesAt(g, revision)
  BY <1>1, <1>6, <1>7, <1>8, AfterIsLocated DEF OnTablesAt, FileRuns
<1>10. PICK c : c = (job.created \/ (s.verb = "CREATE_ROLES" /\ ~ roles))
  OBVIOUS
<1>11. PICK d : d = (job.defaults \/ s.verb = "DEFAULTS")
  OBVIOUS
<1>12. c \in BOOLEAN /\ d \in BOOLEAN
  BY <1>10, <1>11
<1>13. job' = [job EXCEPT !.at = @ + 1, !.created = c, !.defaults = d,
                          !.grants = g]
  <2>1. job' = [job EXCEPT
          !.at = @ + 1,
          !.created = @ \/ (NextStatement.verb = "CREATE_ROLES" /\ ~ roles),
          !.defaults = @ \/ NextStatement.verb = "DEFAULTS",
          !.grants = After(NextStatement)]
    BY DEF Execute
  <2> QED
    BY ONLY <1>6, <1>8, <1>10, <1>11, <2>1
<1>14. /\ job'.kind = job.kind /\ job'.target = job.target
       /\ job'.statements = F /\ job'.at = n + 2 /\ job'.created = c
       /\ job'.defaults = d /\ job'.grants = g /\ job' \in Jobs
  <2>1. /\ job'.kind = job.kind /\ job'.target = job.target
        /\ job'.statements = job.statements /\ job'.at = job.at + 1
        /\ job'.created = c /\ job'.defaults = d /\ job'.grants = g
    BY ONLY <1>1, <1>13 DEF Jobs
  <2>2. job.at + 1 \in Nat \ {0} /\ job.at + 1 = n + 2
    BY <1>4
  <2>3. job' \in Jobs
    BY ONLY <1>1, <1>9, <1>12, <1>13, <2>2 DEF Jobs
  <2> QED
    BY <1>2, <2>1, <2>2, <2>3
<1>15. Uncommitted /\ roles' = roles
  BY DEF Execute, Uncommitted
<1>16. (d => roles \/ c) /\ (roles \/ c)
  <2>1. CASE n = 0
    <3>1. s = CreateRoles
      BY <1>4, <1>5, <2>1 DEF Creates
    <3>2. s.verb = "CREATE_ROLES"
      BY <3>1 DEF CreateRoles, Statement
    <3> QED
      BY <1>10, <3>2
  <2>2. CASE n # 0
    <3>1. roles \/ job.created
      BY <1>4, <2>2 DEF FileRuns
    <3> QED
      BY <1>10, <3>1
  <2> QED
    BY <2>1, <2>2
<1>17. ASSUME NEW p \in Privileges, p[2] \in TablesAt(revision)
       PROVE  FileHasDone(job, n + 1, p)'
  <2>1. FileHasDone(job, n, p)
    BY <1>3, <1>17 DEF FileRuns
  <2>2. /\ Gives(s, p) => p \in g
        /\ Takes(s, p) => p \notin g
        /\ ~ Gives(s, p) /\ ~ Takes(s, p) => (p \in g <=> p \in job.grants)
    BY <1>1, <1>6, <1>7, <1>8, <1>17, AfterStatement
  <2>3. /\ GivenUpTo(F, n + 1, p) =>
             \/ Gives(s, p)
             \/ GivenUpTo(F, n, p) /\ ~ Takes(s, p)
        /\ TakenUpTo(F, n + 1, p) =>
             \/ Takes(s, p)
             \/ TakenUpTo(F, n, p) /\ ~ Gives(s, p)
        /\ KeptUpTo(F, n + 1, p) =>
             /\ ~ Gives(s, p) /\ ~ Takes(s, p)
             /\ KeptUpTo(F, n, p)
    BY <1>4, <1>5, OneMore
  <2>4. ~ (Gives(s, p) /\ Takes(s, p))
    BY DEF Gives, Takes
  <2>5. /\ GivenUpTo(F, n + 1, p) => p \in g
        /\ TakenUpTo(F, n + 1, p) => p \notin g
        /\ KeptUpTo(F, n + 1, p) => (p \in g <=> p \in grants)
    BY ONLY <1>2, <2>1, <2>2, <2>3, <2>4 DEF FileHasDone
  <2> QED
    BY ONLY <1>14, <1>15, <2>5 DEF FileHasDone, Uncommitted
<1>18. \A k \in 1 .. n + 1 : F[k].tables \subseteq TablesAt(revision)
  <2>1. \A k \in 1 .. n : F[k].tables \subseteq TablesAt(revision)
    BY <1>2, <1>3 DEF FileRuns
  <2>2. F[n + 1].tables \subseteq TablesAt(revision)
    BY <1>5, <1>7 DEF Succeeds
  <2>3. \A k \in 1 .. n + 1 : k \in 1 .. n \/ k = n + 1
    BY <1>4
  <2> QED
    BY ONLY <2>1, <2>2, <2>3
<1>19. FileRuns(job)'
  <2>1. /\ \/ job.kind = "current" /\ F = CurrentRoles
           \/ job.kind = "old" /\ F = OldRoles /\ revision >= 1
        /\ job.target = revision
    BY <1>2 DEF FileRuns
  <2>2. TablesAt(revision)' = TablesAt(revision) /\ revision' = revision
    BY <1>15 DEF Uncommitted
  <2>4. (job.at - 1)' = n + 1
    BY <1>4, <1>14
  <2>5. OnTablesAt(job.grants, revision)'
    BY <1>9, <1>14, <2>2 DEF OnTablesAt
  <2>6. (\A k \in 1 .. job.at - 1 :
           job.statements[k].tables \subseteq TablesAt(revision))'
    <3>1. \A k \in 1 .. n + 1 : job'.statements[k].tables \subseteq TablesAt(revision)'
      BY ONLY <1>14, <1>18, <2>2
    <3> QED
      BY ONLY <2>4, <3>1
  <2>7. (\A p \in Privileges :
           p[2] \in TablesAt(revision) => FileHasDone(job, job.at - 1, p))'
    <3>1. \A p \in Privileges :
            p[2] \in TablesAt(revision) => FileHasDone(job, n + 1, p)'
      BY ONLY <1>17
    <3>2. \A p : FileHasDone(job, n + 1, p)' <=> FileHasDone(job, job.at - 1, p)'
      BY ONLY <2>4 DEF FileHasDone
    <3> QED
      BY ONLY <2>2, <3>1, <3>2
  <2> QED
    BY ONLY <1>14, <1>15, <1>16, <2>1, <2>2, <2>5, <2>6, <2>7 DEF FileRuns
<1>20. JobRuns'
  BY ONLY <1>4, <1>14, <1>15, <1>16, <1>19 DEF JobRuns
<1> QED
  BY <1>1, <1>14, <1>15, <1>20, UncommittedInv DEF TypeOK

(* A statement about one table changes nothing on another. *)
LEMMA AfterElsewhere ==
  ASSUME NEW t, NEW s \in AnyStatement, s.tables = {t},
         NEW p \in Privileges, p[2] # t
  PROVE  p \in After(s) <=> p \in job.grants
<1>1. p \notin Affected(s)
  BY DEF Affected
<1>2. p \notin Revoked(s)
  <2>1. PICK r : r = [s EXCEPT !.actions =
                        IF "UPDATE" \in @ THEN @ \cup {"COLUMNS"} ELSE @]
    OBVIOUS
  <2>2. r.tables = {t}
    BY <2>1 DEF AnyStatement
  <2>3. p \notin Affected(r)
    BY <2>2 DEF Affected
  <2> QED
    BY <2>1, <2>3 DEF Revoked
<1>3. p \notin {"control", "worker"} \X s.tables \X {"SELECT"}
  OBVIOUS
<1> QED
  BY ONLY <1>1, <1>2, <1>3 DEF After

Reads(s, verb, holders, t, actions) ==
  /\ s.verb = verb /\ s.roles = holders /\ s.tables = {t}
  /\ s.actions = actions /\ s.where = "present"

StepAt(s, t, k) ==
  /\ s \in AnyStatement /\ s.tables = {t}
  /\ s.verb \in {"GRANT", "REVOKE", "CREATE_TABLE"}
  /\ s.verb = "CREATE_TABLE" => k = 1
  /\ s.verb = "GRANT" => s.roles = {"control"} /\ "DELETE" \notin s.actions
  /\ k = 6 => /\ s.verb = "REVOKE" /\ s.where = "present"
              /\ s.roles = {"worker"} /\ s.actions = Actions

(* What the statement at each place of such a migration does to the table. *)
LEMMA SecurityTableSteps ==
  ASSUME NEW t \in Tables, NEW k \in 1 .. 7
  PROVE  StepAt(SecurityTable(t)[k], t, k)
<1>1. PICK s : s = SecurityTable(t)[k]
  OBVIOUS
<1> SUFFICES StepAt(s, t, k)
  BY <1>1
<1>2. s \in AnyStatement
  BY <1>1, SecurityTableStatements
<1>3. ASSUME NEW verb, NEW holders, NEW actions,
             s = IfPresent(Statement(verb, holders, {t}, actions))
      PROVE  Reads(s, verb, holders, t, actions)
  BY <1>3 DEF IfPresent, Statement, Reads
<1>4. CASE k = 1
  <2>1. s = CreateTable(t)
    BY <1>1, <1>4 DEF SecurityTable
  <2>2. s.verb = "CREATE_TABLE" /\ s.tables = {t}
    BY ONLY <2>1 DEF CreateTable, Statement
  <2> QED
    BY ONLY <1>2, <1>4, <2>2 DEF StepAt
<1>5. CASE k = 2
  <2>1. s = IfPresent(Grant({"control"}, {t}, {"SELECT", "INSERT"}))
    BY <1>1, <1>5 DEF SecurityTable
  <2>2. s = IfPresent(Statement("GRANT", {"control"}, {t}, {"SELECT", "INSERT"}))
    BY <2>1 DEF Grant
  <2>3. Reads(s, "GRANT", {"control"}, t, {"SELECT", "INSERT"})
    BY ONLY <1>3, <2>2
  <2> QED
    BY ONLY <1>2, <1>5, <2>3 DEF Reads, StepAt
<1>6. CASE k = 3
  <2>1. s = IfPresent(Revoke({"control"}, {t}, {"UPDATE", "DELETE"}))
    BY <1>1, <1>6 DEF SecurityTable
  <2>2. s = IfPresent(Statement("REVOKE", {"control"}, {t}, {"UPDATE", "DELETE"}))
    BY <2>1 DEF Revoke
  <2>3. Reads(s, "REVOKE", {"control"}, t, {"UPDATE", "DELETE"})
    BY ONLY <1>3, <2>2
  <2> QED
    BY ONLY <1>2, <1>6, <2>3 DEF Reads, StepAt
<1>7. CASE k = 4
  <2>1. s = IfPresent(Grant({"control"}, {t}, {"COLUMNS"}))
    BY <1>1, <1>7 DEF SecurityTable
  <2>2. s = IfPresent(Statement("GRANT", {"control"}, {t}, {"COLUMNS"}))
    BY <2>1 DEF Grant
  <2>3. Reads(s, "GRANT", {"control"}, t, {"COLUMNS"})
    BY ONLY <1>3, <2>2
  <2> QED
    BY ONLY <1>2, <1>7, <2>3 DEF Reads, StepAt
<1>8. CASE k = 5
  <2>1. s = IfPresent(Revoke({"runtime"}, {t}, Actions))
    BY <1>1, <1>8 DEF SecurityTable
  <2>2. s = IfPresent(Statement("REVOKE", {"runtime"}, {t}, Actions))
    BY <2>1 DEF Revoke
  <2>3. Reads(s, "REVOKE", {"runtime"}, t, Actions)
    BY ONLY <1>3, <2>2
  <2> QED
    BY ONLY <1>2, <1>8, <2>3 DEF Reads, StepAt
<1>9. CASE k = 6
  <2>1. s = IfPresent(Revoke({"worker"}, {t}, Actions))
    BY <1>1, <1>9 DEF SecurityTable
  <2>2. s = IfPresent(Statement("REVOKE", {"worker"}, {t}, Actions))
    BY <2>1 DEF Revoke
  <2>3. Reads(s, "REVOKE", {"worker"}, t, Actions)
    BY ONLY <1>3, <2>2
  <2> QED
    BY ONLY <1>2, <1>9, <2>3 DEF Reads, StepAt
<1>10. CASE k = 7
  <2>1. s = IfPresent(Revoke({"retention"}, {t}, Actions))
    BY <1>1, <1>10 DEF SecurityTable
  <2>2. s = IfPresent(Statement("REVOKE", {"retention"}, {t}, Actions))
    BY <2>1 DEF Revoke
  <2>3. Reads(s, "REVOKE", {"retention"}, t, Actions)
    BY ONLY <1>3, <2>2
  <2> QED
    BY ONLY <1>2, <1>10, <2>3 DEF Reads, StepAt
<1>11. \/ k = 1 \/ k = 2 \/ k = 3 \/ k = 4 \/ k = 5 \/ k = 6 \/ k = 7
  OBVIOUS
<1> QED
  BY ONLY <1>1, <1>4, <1>5, <1>6, <1>7, <1>8, <1>9, <1>10, <1>11

LEMMA ExecutesSecuring ==
  ASSUME Inv, Execute, NEW t \in SecurityTables, SecuringRuns(job, t),
         \/ t = "user_auth_identities" /\ revision = 1
         \/ t = "auth_sessions" /\ revision = 2
  PROVE  Inv'
<1>1. /\ TypeOK /\ job \in Jobs /\ JobRuns /\ job # None /\ t \in Tables
      /\ defaults => roles
  BY DEF Inv, TypeOK, Execute, Tables
<1>2. PICK k : k = job.at
  OBVIOUS
<1>3. k \in 1 .. 7 /\ Len(job.statements) = 7
  <2>1. Len(job.statements) = 7
    BY <1>1, SecurityTableStatements DEF SecuringRuns
  <2>2. job.at \in Nat \ {0} /\ job.at <= Len(job.statements)
    BY <1>1 DEF Execute, Jobs
  <2> QED
    BY ONLY <1>2, <2>1, <2>2
<1>4. PICK s : s = SecurityTable(t)[k]
  OBVIOUS
<1>5. NextStatement = s
  BY <1>2, <1>4 DEF NextStatement, SecuringRuns
<1>6. /\ s \in AnyStatement /\ s.tables = {t}
      /\ s.verb \in {"GRANT", "REVOKE", "CREATE_TABLE"}
      /\ s.verb = "CREATE_TABLE" => k = 1
      /\ s.verb = "GRANT" => s.roles = {"control"} /\ "DELETE" \notin s.actions
      /\ k = 6 => /\ s.verb = "REVOKE" /\ s.where = "present"
                  /\ s.roles = {"worker"} /\ s.actions = Actions
  <2>1. StepAt(s, t, k)
    BY ONLY <1>1, <1>3, <1>4, SecurityTableSteps
  <2> QED
    BY ONLY <2>1 DEF StepAt
<1>7. PICK g : g = After(s)
  OBVIOUS
<1>8. Succeeds(s) /\ Existing = TablesAt(revision) \cup {t}
  BY <1>5 DEF Execute, Existing, SecuringRuns
<1>9. OnTablesAt(job.grants, revision + 1)
  <2>1. ASSUME NEW p \in job.grants PROVE p[2] \in TablesAt(revision) \cup {t}
    <3>1. p \in Privileges
      BY <1>1 DEF Jobs
    <3>2. p[2] # t => p \in grants
      BY <3>1 DEF SecuringRuns
    <3>3. OnTablesAt(grants, revision)
      BY DEF Inv
    <3> QED
      BY <3>2, <3>3 DEF OnTablesAt
  <2> QED
    BY <2>1 DEF OnTablesAt, SecuringRuns
<1>10. g \in SUBSET Privileges
  BY <1>1, <1>6, <1>7, <1>8, <1>9, AfterIsLocated DEF OnTablesAt, SecuringRuns
<1>11. job' = [job EXCEPT !.at = @ + 1, !.grants = g]
  <2>1. job' = [job EXCEPT
          !.at = @ + 1,
          !.created = @ \/ (NextStatement.verb = "CREATE_ROLES" /\ ~ roles),
          !.defaults = @ \/ NextStatement.verb = "DEFAULTS",
          !.grants = After(NextStatement)]
    BY DEF Execute
  <2>2. /\ job.created = (job.created \/ (s.verb = "CREATE_ROLES" /\ ~ roles))
        /\ job.defaults = (job.defaults \/ s.verb = "DEFAULTS")
    BY <1>1, <1>6 DEF Jobs
  <2>3. job' = [job EXCEPT !.at = @ + 1, !.created = @, !.defaults = @,
                           !.grants = g]
    BY ONLY <1>5, <1>7, <2>1, <2>2
  <2> QED
    BY ONLY <1>1, <2>3 DEF Jobs
<1>12. /\ job'.kind = job.kind /\ job'.target = job.target
       /\ job'.statements = job.statements /\ job'.at = k + 1
       /\ job'.created = job.created /\ job'.defaults = job.defaults
       /\ job'.grants = g /\ job' \in Jobs
  <2>1. job.at + 1 \in Nat \ {0} /\ job.at + 1 = k + 1
    BY <1>2, <1>3
  <2> QED
    BY ONLY <1>1, <1>10, <1>11, <2>1 DEF Jobs
<1>13. Uncommitted /\ roles' = roles
  BY DEF Execute, Uncommitted
<1>14. ASSUME NEW p \in g, p[2] = t
       PROVE  \/ p[1] = "control" /\ p[3] # "DELETE"
              \/ p[1] = "worker" /\ defaults /\ k + 1 <= 6
  <2>1. p \in Privileges
    BY <1>10
  <2>2. CASE p \in job.grants
    <3>1. \/ p[1] = "control" /\ p[3] # "DELETE"
          \/ p[1] = "worker" /\ defaults /\ k <= 6
      BY <1>2, <1>14, <2>2 DEF SecuringRuns
    <3>2. CASE k # 6
      BY <1>3, <3>1, <3>2
    <3>3. CASE k = 6 /\ p[1] = "worker" /\ defaults
      <4>1. PICK r : r = [s EXCEPT !.actions =
                            IF "UPDATE" \in @ THEN @ \cup {"COLUMNS"} ELSE @]
        OBVIOUS
      <4>2. r.roles = {"worker"} /\ r.tables = {t} /\ Actions \subseteq r.actions
        BY <1>6, <3>3, <4>1 DEF AnyStatement
      <4>3. p \in Affected(r)
        BY <1>14, <2>1, <3>3, <4>2 DEF Affected, Privileges
      <4>4. After(s) = job.grants \ Affected(r)
        BY <1>1, <1>6, <3>3, <4>1 DEF After, Applies, Revoked
      <4> QED
        BY <1>7, <4>3, <4>4
    <3> QED
      BY <3>1, <3>2, <3>3
  <2>3. CASE p \notin job.grants
    <3>1. \/ s.verb = "GRANT" /\ p \in Affected(s)
          \/ /\ s.verb = "CREATE_TABLE" /\ defaults
             /\ p \in {"control", "worker"} \X s.tables \X {"SELECT"}
      BY <1>6, <1>7, <2>3 DEF After
    <3>2. CASE s.verb = "GRANT" /\ p \in Affected(s)
      BY <1>6, <3>2 DEF Affected
    <3>3. CASE /\ s.verb = "CREATE_TABLE" /\ defaults
               /\ p \in {"control", "worker"} \X s.tables \X {"SELECT"}
      <4>1. p[1] \in {"control", "worker"} /\ p[3] = "SELECT"
        BY <3>3
      <4>2. k + 1 <= 6
        BY <1>6, <3>3
      <4> QED
        BY <3>3, <4>1, <4>2
    <3> QED
      BY <3>1, <3>2, <3>3
  <2> QED
    BY <2>2, <2>3
<1>15. ASSUME NEW p \in Privileges, p[2] # t
       PROVE  p \in g <=> p \in grants
  BY <1>6, <1>7, <1>15, AfterElsewhere DEF SecuringRuns
<1>16. SecuringRuns(job, t)'
  <2>1. /\ job.kind = "migration" /\ job.statements = SecurityTable(t)
        /\ job.target = revision + 1
        /\ TablesAt(job.target) = TablesAt(revision) \cup {t}
        /\ ~ job.created /\ job.defaults = defaults
    BY DEF SecuringRuns
  <2> QED
    BY ONLY <1>12, <1>13, <1>14, <1>15, <2>1
    DEF SecuringRuns, Uncommitted, TablesAt
<1>17. JobRuns'
  <2>1. (job.at <= Len(job.statements) + 1)'
    <3>1. k + 1 <= 7 + 1
      BY <1>3
    <3>2. Len(job'.statements) = 7 /\ job'.at = k + 1
      BY ONLY <1>3, <1>12
    <3> QED
      BY ONLY <3>1, <3>2
  <2>2. (job.defaults => roles \/ job.created)'
    BY <1>1, <1>12, <1>13 DEF SecuringRuns
  <2>3. revision' = revision
    BY <1>13 DEF Uncommitted
  <2> QED
    BY <1>16, <2>1, <2>2, <2>3 DEF JobRuns
<1> QED
  BY <1>1, <1>12, <1>13, <1>17, UncommittedInv DEF TypeOK

LEMMA ExecuteInv ==
  ASSUME Inv, Execute
  PROVE  Inv'
<1>1. JobRuns
  BY DEF Inv, Execute
<1>2. ~ IndexRuns(job)
  <2>1. ASSUME IndexRuns(job) PROVE FALSE
    <3>1. job \in Jobs /\ job.at <= Len(<<>>)
      BY <2>1 DEF Inv, TypeOK, Execute, IndexRuns
    <3> QED
      BY <3>1 DEF Jobs
  <2> QED
    BY <2>1
<1> QED
  BY <1>1, <1>2, ExecutesFile, ExecutesSecuring DEF JobRuns, SecurityTables

LEMMA RollBackInv ==
  ASSUME Inv, RollBack
  PROVE  Inv'
<1>1. Uncommitted /\ roles' = roles /\ job' = None
  BY DEF RollBack, Uncommitted
<1> QED
  BY <1>1, UncommittedInv DEF Inv, TypeOK

LEMMA OtherDatabaseInv ==
  ASSUME Inv, OtherDatabaseCreatesRoles
  PROVE  Inv'
<1>1. Uncommitted /\ ~ roles /\ roles' /\ roles' \in BOOLEAN /\ job' = job
  BY DEF OtherDatabaseCreatesRoles, Uncommitted
<1>2. ASSUME job # None PROVE job' \in Jobs /\ JobRuns'
  <2>1. job \in Jobs /\ JobRuns
    BY <1>2 DEF Inv, TypeOK
  <2>2. FileRuns(job) => FileRuns(job)'
    BY ONLY <1>1 DEF FileRuns, FileHasDone, OnTablesAt, Uncommitted
  <2>3. \A t : SecuringRuns(job, t) => SecuringRuns(job, t)'
    BY ONLY <1>1 DEF SecuringRuns, Uncommitted
  <2>4. IndexRuns(job) => IndexRuns(job)'
    BY ONLY <1>1 DEF IndexRuns, Uncommitted
  <2> QED
    BY ONLY <1>1, <2>1, <2>2, <2>3, <2>4 DEF JobRuns, Uncommitted
<1> QED
  BY <1>1, <1>2, UncommittedInv

(* What a role file that ran to its end has done to a privilege. *)
Settled(e, p) ==
  /\ e \in Effects
  /\ e = "given" => p \in job.grants
  /\ e = "taken" => p \notin job.grants
  /\ e = "kept" => (p \in job.grants <=> p \in grants)

LEMMA FileSettles ==
  ASSUME Inv, Commit, FileRuns(job)
  PROVE  \A p \in Privileges : p[2] \in TablesAt(revision) =>
           /\ job.kind = "current" => Settled(CurrentEffect(p), p)
           /\ job.kind = "old" => Settled(OldEffect(p), p)
<1>1. PICK F : F = job.statements
  OBVIOUS
<1>2. F \in Files /\ job.at - 1 = Len(F)
  <2>1. F \in Files
    BY <1>1, TheFiles DEF FileRuns
  <2>2. Len(F) \in Nat
    BY <2>1 DEF Files
  <2>3. job.at \in Nat \ {0} /\ job.at <= Len(F) + 1 /\ job.at > Len(F)
    BY <1>1 DEF Inv, TypeOK, JobRuns, Commit, Jobs
  <2> QED
    BY ONLY <2>1, <2>2, <2>3
<1> SUFFICES ASSUME NEW p \in Privileges, p[2] \in TablesAt(revision)
             PROVE  /\ job.kind = "current" => Settled(CurrentEffect(p), p)
                    /\ job.kind = "old" => Settled(OldEffect(p), p)
  OBVIOUS
<1>3. FileHasDone(job, Len(F), p)
  BY <1>2 DEF FileRuns
<1>4. \A e : Has(F, p, e) => Settled(e, p)
  BY ONLY <1>1, <1>3 DEF FileHasDone, Has, Settled, Given, Taken, Kept
<1>5. /\ job.kind = "current" => F = CurrentRoles
      /\ job.kind = "old" => F = OldRoles
  BY <1>1 DEF FileRuns
<1> QED
  BY ONLY <1>4, <1>5, CurrentRolesHas, OldRolesHas

LEMMA CommitsFile ==
  ASSUME Inv, Commit, FileRuns(job)
  PROVE  Inv'
<1>1. /\ TypeOK /\ job \in Jobs /\ JobRuns
      /\ Decided(grants) /\ OnTablesAt(grants, revision)
  BY DEF Inv, TypeOK, Commit
<1>2. PICK g : g = job.grants
  OBVIOUS
<1>3. g \in SUBSET Privileges /\ OnTablesAt(g, revision)
  BY <1>1, <1>2 DEF Jobs, FileRuns
<1>4. /\ revision' = revision /\ roles' = (roles \/ job.created)
      /\ defaults' = job.defaults /\ grants' = g /\ applied' = job.kind
      /\ job' = None /\ job.kind \in {"current", "old"}
  BY <1>2 DEF Commit, FileRuns
<1>5. /\ job.kind = "old" => oldAt' >= revision
      /\ job.kind = "current" => oldAt' = 0
      /\ oldAt' \in Revisions
  BY <1>1, <1>4 DEF Commit, TypeOK, Revisions, HeadRevision
<1>6. TypeOK'
  BY <1>1, <1>3, <1>4, <1>5 DEF TypeOK, Jobs
<1>7. (defaults => roles)'
  BY <1>1, <1>4 DEF JobRuns
<1>8. OnTablesAt(grants, revision)'
  BY <1>3, <1>4 DEF OnTablesAt
<1>9. ASSUME NEW p \in Privileges, p[2] \in TablesAt(revision)
      PROVE  /\ job.kind = "current" => Settled(CurrentEffect(p), p)
             /\ job.kind = "old" => Settled(OldEffect(p), p)
  BY <1>9, FileSettles
<1>10. ASSUME NEW p \in g PROVE CurrentEffect(p) # "kept"
  <2>1. p \in Privileges /\ p[2] \in TablesAt(revision)
    BY <1>3 DEF OnTablesAt
  <2>2. CurrentEffect(p) = "kept" => p \in grants
    BY ONLY <1>2, <1>4, <1>9, <2>1, CurrentDecidesMore DEF Settled
  <2> QED
    BY <1>1, <2>2 DEF Decided
<1>11. Decided(grants)'
  BY <1>4, <1>10 DEF Decided
<1>12. ASSUME job.kind = "current"
       PROVE  revision >= 3 /\ g = Policy
  <2>1. job.statements = CurrentRoles
    BY <1>12 DEF FileRuns
  <2>2. "auth_sessions" \in TablesAt(revision)
    <3>1. PICK k \in 1 .. Len(CurrentRoles) :
            "auth_sessions" \in CurrentRoles[k].tables
      BY CurrentNamesSessions
    <3>2. Len(CurrentRoles) \in Nat
      BY TheFiles DEF Files
    <3>3. job.at - 1 >= Len(CurrentRoles) /\ job.at \in Nat
      BY <1>1, <2>1, <3>2 DEF Commit, Jobs
    <3>4. k \in 1 .. job.at - 1
      BY <3>1, <3>2, <3>3
    <3> QED
      BY <2>1, <3>1, <3>4 DEF FileRuns
  <2>3. revision >= 3 /\ TablesAt(revision) = Tables
    <3>1. "auth_sessions" \notin BaselineTables
      BY DEF BaselineTables, NamedTables, WriteOnce, SecurityTables
    <3>2. revision \in Nat
      BY <1>1 DEF TypeOK, Revisions
    <3>3. revision >= 3
      BY <2>2, <3>1, <3>2 DEF TablesAt
    <3> QED
      BY <3>2, <3>3 DEF TablesAt, Tables, SecurityTables
  <2>4. ASSUME NEW p \in Privileges PROVE p \in g <=> p \in Policy
    <3>1. Settled(CurrentEffect(p), p)
      BY <1>9, <1>12, <2>3, <2>4 DEF Privileges
    <3>2. p \in g <=> CurrentEffect(p) = "given"
      BY ONLY <1>2, <1>10, <3>1 DEF Settled, Effects
    <3> QED
      BY <3>2, CurrentGivesPolicy
  <2>5. Policy \subseteq Privileges
    BY DEF Policy, Privileges
  <2> QED
    BY ONLY <1>3, <2>3, <2>4, <2>5
<1>13. Synced'
  BY ONLY <1>4, <1>12 DEF Synced, Policy
<1>14. SecurityTablesSealed'
  <2>1. SUFFICES ASSUME oldAt' <= 1, NEW p \in g, p[2] \in SecurityTables
                 PROVE  p[1] = "control"
    BY ONLY <1>4, <2>1 DEF SecurityTablesSealed
  <2>2. p \in Privileges /\ p[2] \in TablesAt(revision)
    BY <1>3 DEF OnTablesAt
  <2>3. CASE job.kind = "current"
    <3>1. CurrentEffect(p) # "taken"
      BY ONLY <1>2, <1>9, <2>2, <2>3 DEF Settled
    <3> QED
      BY <2>1, <2>2, <3>1, SecurityIsDecided
  <2>4. CASE job.kind = "old"
    <3>1. revision <= 1
      BY <1>1, <1>5, <2>1, <2>4 DEF TypeOK, Revisions, HeadRevision
    <3>2. p[2] \notin TablesAt(revision)
      BY <1>1, <2>1, <3>1
      DEF TypeOK, Revisions, HeadRevision, TablesAt, BaselineTables,
          NamedTables, WriteOnce, SecurityTables
    <3> QED
      BY <2>2, <3>2
  <2> QED
    BY <1>4, <2>3, <2>4
<1>15. HistoryIsWriteOnce'
  <2>1. ASSUME NEW p \in g, Historic(p) PROVE FALSE
    <3>1. p \in Privileges /\ p[2] \in TablesAt(revision)
      BY <1>3 DEF OnTablesAt
    <3>2. CurrentEffect(p) = "taken" /\ OldEffect(p) = "taken"
      BY <1>10, <2>1, <3>1, HistoryIsTaken
    <3> QED
      BY ONLY <1>2, <1>4, <1>9, <2>1, <3>1, <3>2 DEF Settled
  <2> QED
    BY ONLY <1>4, <2>1 DEF HistoryIsWriteOnce, Historic
<1> QED
  BY ONLY <1>4, <1>6, <1>7, <1>8, <1>11, <1>13, <1>14, <1>15 DEF Inv

LEMMA CommitsSecuring ==
  ASSUME Inv, Commit, NEW t \in SecurityTables, SecuringRuns(job, t),
         \/ t = "user_auth_identities" /\ revision = 1
         \/ t = "auth_sessions" /\ revision = 2
  PROVE  Inv'
<1>1. /\ TypeOK /\ job \in Jobs /\ JobRuns /\ t \in Tables
      /\ Decided(grants) /\ OnTablesAt(grants, revision)
      /\ SecurityTablesSealed /\ HistoryIsWriteOnce
  BY DEF Inv, TypeOK, Commit, Tables
<1>2. PICK g : g = job.grants
  OBVIOUS
<1>3. /\ revision' = job.target /\ roles' = (roles \/ job.created)
      /\ defaults' = defaults /\ grants' = g /\ applied' = applied
      /\ oldAt' = oldAt /\ job' = None /\ ~ job.created
  BY <1>2 DEF Commit, SecuringRuns
<1>4. g \in SUBSET Privileges /\ job.target \in Revisions
  BY <1>1, <1>2 DEF Jobs
<1>5. job.at > 6
  <2>1. Len(job.statements) = 7 /\ job.at \in Nat
    BY <1>1, SecurityTableStatements DEF SecuringRuns, Jobs
  <2> QED
    BY ONLY <2>1, Commit DEF Commit
<1>6. ASSUME NEW p \in g
      PROVE  \/ p[2] = t /\ p[1] = "control" /\ p[3] # "DELETE"
             \/ p[2] # t /\ p \in grants
  <2>1. p \in Privileges /\ job.at \in Nat
    BY <1>1, <1>4 DEF Jobs
  <2>2. ~ (job.at <= 6)
    BY <1>5, <2>1
  <2> QED
    BY <1>2, <2>1, <2>2 DEF SecuringRuns
<1>7. TypeOK'
  BY <1>1, <1>3, <1>4 DEF TypeOK
<1>8. (defaults => roles)'
  BY <1>3 DEF Inv
<1>9. OnTablesAt(grants, revision)'
  <2>1. \A p \in g : p[2] \in TablesAt(job.target)
    BY <1>1, <1>6 DEF OnTablesAt, SecuringRuns
  <2>2. TablesAt(revision)' = TablesAt(job.target)
    BY <1>3 DEF TablesAt
  <2> QED
    BY ONLY <1>3, <2>1, <2>2 DEF OnTablesAt
<1>10. Decided(grants)'
  <2>1. ASSUME NEW p \in g PROVE CurrentEffect(p) # "kept"
    <3>1. p \in Privileges
      BY <1>4
    <3> QED
      BY <1>1, <1>6, <3>1, SecurityIsDecided DEF Decided
  <2> QED
    BY <1>3, <2>1 DEF Decided
<1>11. Synced'
  <2>1. applied # "current"
    BY DEF Inv, Synced
  <2> QED
    BY <1>3, <2>1 DEF Synced
<1>12. SecurityTablesSealed'
  BY ONLY <1>1, <1>3, <1>6 DEF SecurityTablesSealed
<1>13. HistoryIsWriteOnce'
  <2>1. t \notin WriteOnce /\ t # "bindings"
    BY DEF WriteOnce, SecurityTables
  <2> QED
    BY ONLY <1>1, <1>3, <1>6, <2>1 DEF HistoryIsWriteOnce
<1> QED
  BY ONLY <1>3, <1>7, <1>8, <1>9, <1>10, <1>11, <1>12, <1>13 DEF Inv

LEMMA CommitsIndex ==
  ASSUME Inv, Commit, IndexRuns(job)
  PROVE  Inv'
<1>1. TypeOK /\ job \in Jobs /\ defaults => roles
  BY DEF Inv, TypeOK, Commit
<1>2. /\ revision' = job.target /\ roles' = (roles \/ job.created)
      /\ UNCHANGED <<defaults, grants, applied, oldAt>> /\ job' = None
      /\ ~ job.created /\ job.target \in Revisions
  BY <1>1 DEF Commit, IndexRuns, Inv, TypeOK, Jobs
<1>3. TypeOK'
  BY <1>2 DEF TypeOK, Inv
<1>4. (defaults => roles)'
  BY <1>2 DEF Inv
<1>5. OnTablesAt(grants, revision)'
  <2>1. TablesAt(revision) \subseteq TablesAt(job.target)
    BY <1>2 DEF IndexRuns, TablesAt, Inv, TypeOK, Revisions, HeadRevision
  <2>2. TablesAt(revision)' = TablesAt(job.target)
    BY <1>2 DEF TablesAt
  <2> QED
    BY <1>2, <2>1, <2>2 DEF OnTablesAt, Inv
<1>6. Decided(grants)' /\ SecurityTablesSealed' /\ HistoryIsWriteOnce'
  BY <1>2 DEF Inv, Decided, SecurityTablesSealed, HistoryIsWriteOnce
<1>7. Synced'
  <2>1. revision >= 3 => job.target >= 3
    BY DEF IndexRuns
  <2>2. Synced
    BY DEF Inv
  <2> QED
    BY ONLY <1>2, <2>1, <2>2 DEF Synced
<1> QED
  BY ONLY <1>2, <1>3, <1>4, <1>5, <1>6, <1>7 DEF Inv

LEMMA CommitInv ==
  ASSUME Inv, Commit
  PROVE  Inv'
<1>1. JobRuns
  BY DEF Inv, Commit
<1> QED
  BY <1>1, CommitsFile, CommitsSecuring, CommitsIndex
  DEF JobRuns, SecurityTables

LEMMA StutterInv ==
  ASSUME Inv, UNCHANGED vars
  PROVE  Inv'
<1>1. Uncommitted /\ roles' = roles /\ job' = job
  BY DEF vars, Uncommitted
<1>2. ASSUME job # None PROVE job' \in Jobs /\ JobRuns'
  <2>1. job \in Jobs /\ JobRuns
    BY <1>2 DEF Inv, TypeOK
  <2> QED
    BY ONLY <1>1, <2>1
    DEF JobRuns, FileRuns, FileHasDone, SecuringRuns, IndexRuns, OnTablesAt,
        TablesAt, Uncommitted
<1> QED
  BY <1>1, <1>2, UncommittedInv DEF Inv, TypeOK

THEOREM Invariance == Spec => []Inv
<1>1. ASSUME Inv, [Next]_vars PROVE Inv'
  BY <1>1, StartsInv, ExecuteInv, CommitInv, RollBackInv, OtherDatabaseInv,
     StutterInv DEF Next
<1> QED
  BY InitInv, <1>1, PTL DEF Spec

(* Whatever else the database holds, whatever has been applied in whatever *)
(* order and wherever a transaction died: only the control plane reaches   *)
(* login identities and sessions (SecurityTable, SecurityBlock), as long   *)
(* as the old role file has not been run on a database beyond revision 1   *)
(* since the current one was (oldAt).                                      *)
THEOREM SecurityTablesStaySealed == Spec => []SecurityTablesSealed
<1>1. Inv => SecurityTablesSealed
  BY DEF Inv
<1> QED
  BY Invariance, <1>1, PTL

(* The same of write-once history and of bindings (HistoryBlock, the       *)
(* revokes after each blanket grant).                                      *)
THEOREM HistoryStaysWriteOnce == Spec => []HistoryIsWriteOnce
<1>1. Inv => HistoryIsWriteOnce
  BY DEF Inv
<1> QED
  BY Invariance, <1>1, PTL

(* After the current file the privileges are exactly the policy, also on   *)
(* every table the files do not name, and serve the control plane.         *)
THEOREM SyncedGrantsAreExactlyThePolicy == Spec => []SyncedGrantsAreThePolicy
<1>1. ASSUME NEW need \in Needs
      PROVE  <<need[1], need[2][1], need[2][2]>> \in Policy
  <2> DEFINE table == need[2][1]
             action == need[2][2]
  <2>1. /\ need[1] = "control"
        /\ \/ /\ table \in {"users", "workspaces", "connections",
                            "connection_drafts", "connection_project_access",
                            "connection_revisions", "audit_events"}
              /\ action \in {"SELECT", "INSERT"}
           \/ /\ table \in SecurityTables
              /\ action \in {"SELECT", "INSERT", "COLUMNS"}
           \/ /\ table \in {"connections", "connection_drafts"}
              /\ action = "COLUMNS"
           \/ table \in {"users", "workspaces"} /\ action = "UPDATE"
           \/ table = "connection_project_access" /\ action = "DELETE"
    BY DEF Needs
  <2> HIDE DEF table, action
  <2>2. table \in Tables /\ action \in Actions
    BY <2>1 DEF Tables, BaselineTables, NamedTables, WriteOnce, Actions,
                SecurityTables
  <2>3. action \in Held("control", table)
    BY <2>1 DEF Held, WriteOnce, SecurityTables, ReadWrite
  <2>4. <<"control", table, action>> \in Policy
    BY ONLY <2>2, <2>3 DEF Policy, Roles
  <2> QED
    BY <2>1, <2>4 DEF table, action
<1>2. Inv => SyncedGrantsAreThePolicy
  BY <1>1 DEF Inv, Synced, SyncedGrantsAreThePolicy
<1> QED
  BY Invariance, <1>2, PTL
=============================================================================
