-------------------------- MODULE SessionProvisioning --------------------------
(***************************************************************************)
(* POST /v1/auth/session: a request with a verified provider token gets a  *)
(* local session, and on the first login a user and an identity.  Requests *)
(* race on three unique keys, the normalized email, (issuer, subject) and  *)
(* (identity, provider session id); INSERT ... ON CONFLICT DO NOTHING      *)
(* waits for a transaction that has inserted the key and not ended.        *)
(*                                                                         *)
(* Rows are named by their unique keys.  Nothing in the repository deletes *)
(* a row or changes a key.  Disabling, enabling and revoking are the steps *)
(* of an administration outside the repository that respects row locks.    *)
(***************************************************************************)
EXTENDS Integers, FiniteSets

CONSTANTS
  Handlers,       \* database sessions that serve requests
  Subjects,       \* external identities: (issuer, subject)
  Sids,           \* provider session identifiers
  Emails,         \* normalized emails
  KnownEmails,    \* emails of users that exist from the beginning
  EmailsOf,       \* the emails the provider may report for a subject
  Ttl,            \* absolute lifetime of a local session
  MaxTime,        \* bound: the clock stops here
  None            \* the absence of a value

ASSUME KnownEmailsAssumption == KnownEmails \subseteq Emails
ASSUME EmailsOfAssumption == EmailsOf \in [Subjects -> SUBSET Emails]
ASSUME TtlAssumption == Ttl \in Nat \ {0} /\ MaxTime \in Nat

Tokens == [subject : Subjects, sid : Sids]

ASSUME NoneAssumption ==
  /\ None \notin Emails \cup Tokens \cup {"ACTIVE", "DISABLED"}
  /\ None \notin [user : Emails, status : {"ACTIVE", "DISABLED"}]
  /\ None \notin [expires : Nat, revoked : BOOLEAN]

VARIABLES
  users,        \* app.users: status by email, or None
  identities,   \* app.user_auth_identities by subject, or None
  sessions,     \* app.auth_sessions by token, or None
  creations,    \* AUTH_SESSION_CREATED events of a session in app.audit_events
  now,          \* the database clock
  handler       \* what each handler is doing

tables == <<users, identities, sessions, creations>>
vars == <<tables, now, handler>>

-----------------------------------------------------------------------------
(* A handler: its request, the statement it runs next, the profile email,  *)
(* the user it acts for, the start of its transaction, what it has         *)
(* inserted, the rows it holds FOR SHARE, and its last answer.             *)
NoInserts == [user |-> None, identity |-> FALSE, session |-> None,
              creation |-> 0]
Idle == [token |-> None, pc |-> "idle", email |-> None, user |-> None,
         began |-> 0, inserts |-> NoInserts, shared |-> {}, answer |-> None]

UserRow(email) == <<"user", email>>
IdentityRow(subject) == <<"identity", subject>>
SessionRow(token) == <<"session", token>>

Token(h) == handler[h].token
Running(h) == handler[h].pc # "idle"
At(h, statement) == handler[h].pc = statement

(* FOR SHARE locks and the rows an administrator may update. *)
Unshared(row) == \A h \in Handlers : row \notin handler[h].shared

Step(h, changed) == handler' = [handler EXCEPT ![h] = changed]

(* The request ends and its transaction with it. *)
Answer(h, code) ==
  /\ Step(h, [Idle EXCEPT !.answer = code])
  /\ UNCHANGED <<tables, now>>

Found(h) == identities[Token(h).subject] # None
Active(subject) ==
  /\ identities[subject].status = "ACTIVE"
  /\ users[identities[subject].user] = "ACTIVE"

(* _find_exact_identity and _require_active: the identity is read without  *)
(* a lock, in the transaction that started at the given time.              *)
RequireActive(h, started) ==
  IF Active(Token(h).subject)
  THEN /\ Step(h, [handler[h] EXCEPT !.pc = "InsertSession",
                     !.began = started,
                     !.user = identities[Token(h).subject].user])
       /\ UNCHANGED <<tables, now>>
  ELSE Answer(h, "AUTH_INVALID_CREDENTIALS")

-----------------------------------------------------------------------------
Begin(h, token) ==
  /\ ~Running(h)
  /\ Step(h, [Idle EXCEPT !.token = token, !.pc = "FindIdentity"])
  /\ UNCHANGED <<tables, now>>

(* A transaction of its own; what it finds may be gone in the next one. *)
FindIdentity(h) ==
  /\ At(h, "FindIdentity")
  /\ IF Found(h) /\ ~Active(Token(h).subject)
     THEN Answer(h, "AUTH_INVALID_CREDENTIALS")
     ELSE /\ Step(h, [handler[h] EXCEPT
                        !.pc = IF Found(h) THEN "LockActiveIdentity"
                                           ELSE "FetchProfile"])
          /\ UNCHANGED <<tables, now>>

(* Fault: the identity is read without FOR SHARE. *)
LockActiveIdentityUnlocked(h) ==
  /\ At(h, "LockActiveIdentity")
  /\ IF ~Active(Token(h).subject)
     THEN Answer(h, "AUTH_INVALID_CREDENTIALS")
     ELSE /\ Step(h, [handler[h] EXCEPT
                        !.pc = "InsertSession", !.began = now,
                        !.user = identities[Token(h).subject].user])
          /\ UNCHANGED <<tables, now>>

LockActiveIdentity(h) ==
  LET subject == Token(h).subject
      user == identities[subject].user IN
  /\ At(h, "LockActiveIdentity")
  /\ IF ~Active(subject)
     THEN Answer(h, "AUTH_INVALID_CREDENTIALS")
     ELSE /\ Step(h, [handler[h] EXCEPT
                        !.pc = "InsertSession", !.began = now, !.user = user,
                        !.shared = {IdentityRow(subject), UserRow(user)}])
          /\ UNCHANGED <<tables, now>>

(* The profile is fetched from WorkOS between the two transactions. *)
FetchProfile(h) ==
  /\ At(h, "FetchProfile")
  /\ \E email \in EmailsOf[Token(h).subject] :
       Step(h, [handler[h] EXCEPT !.pc = "FindExactIdentity",
                                  !.email = email])
  /\ UNCHANGED <<tables, now>>

ProfileUnusable(h) ==
  /\ At(h, "FetchProfile")
  /\ \E code \in {"AUTH_INVALID_CREDENTIALS", "AUTH_PROVIDER_UNAVAILABLE",
                  "AUTH_EMAIL_VERIFICATION_REQUIRED"} : Answer(h, code)

(* The provisioning transaction looks the identity up again. *)
FindExactIdentity(h) ==
  /\ At(h, "FindExactIdentity")
  /\ IF Found(h)
     THEN RequireActive(h, now)
     ELSE /\ Step(h, [handler[h] EXCEPT !.pc = "InsertUser", !.began = now])
          /\ UNCHANGED <<tables, now>>

-----------------------------------------------------------------------------
(* The insertions of a first login, in a savepoint. *)

(* Fault: an email conflict is an account of somebody else at once. *)
InsertUserWithoutResolution(h) ==
  LET email == handler[h].email IN
  /\ At(h, "InsertUser")
  /\ \A other \in Handlers \ {h} : handler[other].inserts.user # email
  /\ IF users[email] # None
     THEN Answer(h, "AUTH_ACCOUNT_LINK_REQUIRED")
     ELSE /\ Step(h, [handler[h] EXCEPT !.pc = "InsertIdentity",
                                        !.inserts.user = email])
          /\ UNCHANGED <<tables, now>>

InsertUser(h) ==
  LET email == handler[h].email IN
  /\ At(h, "InsertUser")
  /\ \A other \in Handlers \ {h} : handler[other].inserts.user # email
  /\ Step(h, IF users[email] # None
             THEN [handler[h] EXCEPT !.pc = "ResolveEmailConflict"]
             ELSE [handler[h] EXCEPT !.pc = "InsertIdentity",
                                     !.inserts.user = email])
  /\ UNCHANGED <<tables, now>>

(* Fault: the insertions are tried again until the email is free. *)
ResolveEmailConflictByRetry(h) ==
  /\ At(h, "ResolveEmailConflict")
  /\ IF Found(h) THEN RequireActive(h, handler[h].began)
     ELSE /\ Step(h, [handler[h] EXCEPT !.pc = "InsertUser"])
          /\ UNCHANGED <<tables, now>>

(* The email is taken: by a request of the same identity, or by a user     *)
(* whom only an explicit link may join.                                    *)
ResolveEmailConflict(h) ==
  /\ At(h, "ResolveEmailConflict")
  /\ IF Found(h) THEN RequireActive(h, handler[h].began)
                 ELSE Answer(h, "AUTH_ACCOUNT_LINK_REQUIRED")

(* Fault: the savepoint is not rolled back when the race is lost. *)
InsertIdentityKeepingUser(h) ==
  LET subject == Token(h).subject IN
  /\ At(h, "InsertIdentity")
  /\ \A other \in Handlers \ {h} :
       handler[other].inserts.identity => Token(other).subject # subject
  /\ Step(h, IF Found(h)
             THEN [handler[h] EXCEPT !.pc = "ResolveIdentityRace"]
             ELSE [handler[h] EXCEPT !.pc = "InsertSession",
                                     !.inserts.identity = TRUE,
                                     !.user = handler[h].email])
  /\ UNCHANGED <<tables, now>>

(* When the race is lost, _IdentityRace rolls the savepoint back: the user *)
(* row goes and its email is free for others again.                        *)
InsertIdentity(h) ==
  LET subject == Token(h).subject IN
  /\ At(h, "InsertIdentity")
  /\ \A other \in Handlers \ {h} :
       handler[other].inserts.identity => Token(other).subject # subject
  /\ Step(h, IF Found(h)
             THEN [handler[h] EXCEPT !.pc = "ResolveIdentityRace",
                                     !.inserts = NoInserts]
             ELSE [handler[h] EXCEPT !.pc = "InsertSession",
                                     !.inserts.identity = TRUE,
                                     !.user = handler[h].email])
  /\ UNCHANGED <<tables, now>>

(* Fault: the loser goes on with the user of its own profile. *)
ResolveIdentityRaceByProfile(h) ==
  /\ At(h, "ResolveIdentityRace")
  /\ Step(h, [handler[h] EXCEPT !.pc = "InsertSession",
                                !.user = handler[h].email])
  /\ UNCHANGED <<tables, now>>

ResolveIdentityRace(h) ==
  /\ At(h, "ResolveIdentityRace")
  /\ IF Found(h) THEN RequireActive(h, handler[h].began)
                 ELSE Answer(h, "INTERNAL_ERROR")

-----------------------------------------------------------------------------
(* Admission: _admit_session. *)

(* Fault: the lifetime is left out. *)
NewSessionWithoutTtl(h) == [expires |-> handler[h].began, revoked |-> FALSE]

NewSession(h) == [expires |-> handler[h].began + Ttl, revoked |-> FALSE]

SessionKeyFree(h) ==
  \A other \in Handlers \ {h} :
    Token(other) = Token(h) => handler[other].inserts.session = None

(* Fault: ON CONFLICT DO UPDATE SET expires_at. *)
InsertSessionExtending(h) ==
  /\ At(h, "InsertSession")
  /\ SessionKeyFree(h)
  /\ Step(h, [handler[h] EXCEPT
                !.inserts.session = NewSession(h),
                !.pc = IF sessions[Token(h)] # None THEN "Commit"
                                                    ELSE "InsertAudit"])
  /\ UNCHANGED <<tables, now>>

InsertSession(h) ==
  /\ At(h, "InsertSession")
  /\ SessionKeyFree(h)
  /\ Step(h, IF sessions[Token(h)] # None
             THEN [handler[h] EXCEPT !.pc = "FindSession"]
             ELSE [handler[h] EXCEPT !.pc = "InsertAudit",
                                     !.inserts.session = NewSession(h)])
  /\ UNCHANGED <<tables, now>>

InsertAudit(h) ==
  /\ At(h, "InsertAudit")
  /\ Step(h, [handler[h] EXCEPT !.pc = "Commit", !.inserts.creation = 1])
  /\ UNCHANGED <<tables, now>>

(* CURRENT_TIMESTAMP is the start of the transaction. *)
Live(h) ==
  /\ ~sessions[Token(h)].revoked
  /\ sessions[Token(h)].expires > handler[h].began

(* Fault: the session is read without FOR SHARE. *)
FindSessionUnlocked(h) ==
  /\ At(h, "FindSession")
  /\ IF Live(h)
     THEN /\ Step(h, [handler[h] EXCEPT !.pc = "Commit"])
          /\ UNCHANGED <<tables, now>>
     ELSE Answer(h, "AUTH_INVALID_CREDENTIALS")

(* Fault: reusing an admission is audited as its creation. *)
FindSessionAudited(h) ==
  /\ At(h, "FindSession")
  /\ IF Live(h)
     THEN /\ Step(h, [handler[h] EXCEPT !.pc = "InsertAudit"])
          /\ UNCHANGED <<tables, now>>
     ELSE Answer(h, "AUTH_INVALID_CREDENTIALS")

FindSession(h) ==
  /\ At(h, "FindSession")
  /\ IF Live(h)
     THEN /\ Step(h, [handler[h] EXCEPT !.pc = "Commit",
                                        !.shared = @ \cup
                                          {SessionRow(Token(h))}])
          /\ UNCHANGED <<tables, now>>
     ELSE Answer(h, "AUTH_INVALID_CREDENTIALS")

Commit(h) ==
  LET token == Token(h)
      inserts == handler[h].inserts IN
  /\ At(h, "Commit")
  /\ users' = IF inserts.user = None THEN users
              ELSE [users EXCEPT ![inserts.user] = "ACTIVE"]
  /\ identities' =
       IF ~inserts.identity THEN identities
       ELSE [identities EXCEPT ![token.subject] =
               [user |-> inserts.user, status |-> "ACTIVE"]]
  /\ sessions' = IF inserts.session = None THEN sessions
                 ELSE [sessions EXCEPT ![token] = inserts.session]
  /\ creations' = [creations EXCEPT ![token] = @ + inserts.creation]
  /\ Step(h, [Idle EXCEPT !.answer = "ADMITTED"])
  /\ UNCHANGED now

(* The client or the process goes away, or the database connection drops.  *)
Abort(h) == Running(h) /\ Answer(h, "ABORTED")

-----------------------------------------------------------------------------
(* Outside the repository: kill switches, revocation and the clock. *)

SetIdentityStatus(subject) ==
  /\ identities[subject] # None
  /\ Unshared(IdentityRow(subject))
  /\ identities' = [identities EXCEPT ![subject].status =
                      IF @ = "ACTIVE" THEN "DISABLED" ELSE "ACTIVE"]
  /\ UNCHANGED <<users, sessions, creations, now, handler>>

SetUserStatus(email) ==
  /\ users[email] # None
  /\ Unshared(UserRow(email))
  /\ users' = [users EXCEPT ![email] =
                 IF @ = "ACTIVE" THEN "DISABLED" ELSE "ACTIVE"]
  /\ UNCHANGED <<identities, sessions, creations, now, handler>>

Revoke(token) ==
  /\ sessions[token] # None
  /\ ~sessions[token].revoked
  /\ Unshared(SessionRow(token))
  /\ sessions' = [sessions EXCEPT ![token].revoked = TRUE]
  /\ UNCHANGED <<users, identities, creations, now, handler>>

Tick ==
  /\ now < MaxTime
  /\ now' = now + 1
  /\ UNCHANGED <<tables, handler>>

-----------------------------------------------------------------------------
Init ==
  /\ users = [e \in Emails |-> IF e \in KnownEmails THEN "ACTIVE" ELSE None]
  /\ identities = [subject \in Subjects |-> None]
  /\ sessions = [token \in Tokens |-> None]
  /\ creations = [token \in Tokens |-> 0]
  /\ now = 0
  /\ handler = [h \in Handlers |-> Idle]

Progress(h) ==
  \/ FindIdentity(h) \/ LockActiveIdentity(h)
  \/ FetchProfile(h) \/ ProfileUnusable(h) \/ FindExactIdentity(h)
  \/ InsertUser(h) \/ ResolveEmailConflict(h)
  \/ InsertIdentity(h) \/ ResolveIdentityRace(h)
  \/ InsertSession(h) \/ InsertAudit(h) \/ FindSession(h) \/ Commit(h)

Next ==
  \/ \E h \in Handlers, token \in Tokens : Begin(h, token)
  \/ \E h \in Handlers : Progress(h) \/ Abort(h)
  \/ \E subject \in Subjects : SetIdentityStatus(subject)
  \/ \E email \in Emails : SetUserStatus(email)
  \/ \E token \in Tokens : Revoke(token)
  \/ Tick

Spec == Init /\ [][Next]_vars

(* The waiters of a unique key are woken when its holder ends. *)
FairSpec == Spec /\ \A h \in Handlers : SF_vars(Progress(h))

-----------------------------------------------------------------------------
(* The principal query of every authenticated request. *)
ResolvesPrincipal(token) ==
  /\ identities[token.subject] # None
  /\ Active(token.subject)
  /\ sessions[token] # None
  /\ ~sessions[token].revoked
  /\ sessions[token].expires > now
=============================================================================
