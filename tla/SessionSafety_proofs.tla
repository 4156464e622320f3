------------------------- MODULE SessionSafety_proofs -------------------------
(***************************************************************************)
(* Theorems about session provisioning, for every number of identities,    *)
(* emails, provider sessions and requests.                                 *)
(***************************************************************************)
EXTENDS SessionSafety, TLAPS

-----------------------------------------------------------------------------
(* The inductive invariant.  It is stated of a handler's record, so that   *)
(* one lemma serves every statement that changes only that record.         *)

Admitting == {"InsertSession", "InsertAudit", "FindSession", "Commit"}
HasEmail ==
  {"FindExactIdentity", "InsertUser", "ResolveEmailConflict",
   "InsertIdentity", "ResolveIdentityRace"}

(* From InsertSession on the handler acts for a user: one it has inserted  *)
(* together with the identity, or the user of the identity it has found.   *)
ActsForUser(x) ==
  /\ x.user \in Emails
  /\ \/ /\ x.inserts.identity
        /\ x.inserts.user = x.user
        /\ x.email = x.user
        /\ users[x.user] = None
        /\ identities[x.token.subject] = None
     \/ /\ ~x.inserts.identity
        /\ x.inserts.user = None
        /\ identities[x.token.subject] # None
        /\ identities[x.token.subject].user = x.user

(* Without a profile, the identity was found and is held FOR SHARE. *)
HoldsKnownIdentity(x) ==
  x.email = None =>
    /\ Active(x.token.subject)
    /\ {IdentityRow(x.token.subject), UserRow(x.user)} \subseteq x.shared

(* A new session comes with its audit event, an old one is held FOR SHARE. *)
AdmitsOnce(x) ==
  /\ x.pc \in {"InsertSession", "FindSession"} =>
       x.inserts.session = None /\ x.inserts.creation = 0
  /\ x.pc = "FindSession" => sessions[x.token] # None
  /\ x.pc = "InsertAudit" =>
       /\ x.inserts.session # None
       /\ x.inserts.creation = 0
       /\ sessions[x.token] = None
  /\ x.pc = "Commit" =>
       \/ /\ x.inserts.session # None
          /\ x.inserts.creation = 1
          /\ sessions[x.token] = None
          /\ ~x.inserts.session.revoked
       \/ /\ x.inserts.session = None
          /\ x.inserts.creation = 0
          /\ sessions[x.token] # None
          /\ ~sessions[x.token].revoked
          /\ SessionRow(x.token) \in x.shared

RecordOK(x) ==
  /\ x.pc # "idle" => x.token \in Tokens
  /\ x.pc \notin Admitting \cup {"InsertIdentity"} =>
       x.inserts = NoInserts
  /\ x.pc \notin Admitting => x.shared = {}
  /\ x.pc \in HasEmail => x.email \in Emails
  /\ x.pc \in {"LockActiveIdentity", "ResolveIdentityRace"} =>
       identities[x.token.subject] # None
  /\ x.pc = "ResolveEmailConflict" => users[x.email] # None
  /\ x.pc = "InsertIdentity" =>
       /\ x.inserts = [NoInserts EXCEPT !.user = x.email]
       /\ users[x.email] = None
  /\ x.pc \in Admitting =>
       ActsForUser(x) /\ HoldsKnownIdentity(x) /\ AdmitsOnce(x)
  /\ x.inserts.session # None => ~x.inserts.session.revoked

(* Two transactions never have inserted the same unique key. *)
KeysDiffer(x, y) ==
  /\ x.inserts.user # None => x.inserts.user # y.inserts.user
  /\ x.inserts.identity /\ y.inserts.identity =>
       x.token.subject # y.token.subject
  /\ x.inserts.session # None /\ y.inserts.session # None =>
       x.token # y.token

SessionsHaveIdentities ==
  \A token \in Tokens :
    sessions[token] # None => identities[token.subject] # None

Inv ==
  /\ TypeOK
  /\ \A h \in Handlers : RecordOK(handler[h])
  /\ \A h, k \in Handlers : h # k => KeysDiffer(handler[h], handler[k])
  /\ SessionsHaveIdentities
  /\ NoOrphanUsers
  /\ OneCreationEvent

USE KnownEmailsAssumption, TtlAssumption, NoneAssumption

-----------------------------------------------------------------------------
LEMMA IdleIsRecord == Idle \in HandlerRecords /\ Idle.inserts = NoInserts
<1>1. NoInserts \in Inserts
  BY DEF NoInserts, Inserts
<1> QED
  BY <1>1 DEF Idle, HandlerRecords

LEMMA Initially == Init => Inv
<1> SUFFICES ASSUME Init PROVE Inv
  OBVIOUS
<1> USE DEF Init
<1>1. Idle \in HandlerRecords
  BY IdleIsRecord
<1>2. TypeOK
  BY <1>1 DEF TypeOK, Statuses, Tokens
<1>3. \A h \in Handlers : handler[h] = Idle
  OBVIOUS
<1>4. RecordOK(Idle)
  BY DEF RecordOK, Idle, NoInserts, Admitting, HasEmail
<1>5. KeysDiffer(Idle, Idle)
  BY DEF KeysDiffer, Idle, NoInserts
<1>6. SessionsHaveIdentities /\ NoOrphanUsers /\ OneCreationEvent
  BY DEF SessionsHaveIdentities, NoOrphanUsers, OneCreationEvent
<1> QED
  BY <1>2, <1>3, <1>4, <1>5, <1>6 DEF Inv

(* A statement that changes the record of its handler only. *)
LEMMA OwnRecord ==
  ASSUME Inv, NEW h \in Handlers, NEW r \in HandlerRecords,
         Step(h, r), UNCHANGED <<tables, now>>, RecordOK(r),
         \A k \in Handlers \ {h} :
           KeysDiffer(r, handler[k]) /\ KeysDiffer(handler[k], r)
  PROVE  Inv'
<1> USE DEF Inv, tables
<1>1. handler \in [Handlers -> HandlerRecords]
  BY DEF TypeOK
<1>2. \A k \in Handlers : handler'[k] = IF k = h THEN r ELSE handler[k]
  BY <1>1 DEF Step
<1>3. TypeOK'
  BY <1>1 DEF TypeOK, Step
<1>4. \A k \in Handlers : RecordOK(handler[k])'
  <2> TAKE k \in Handlers
  <2>1. RecordOK(handler'[k])
    BY <1>2
  <2> QED
    BY <2>1 DEF RecordOK, ActsForUser, HoldsKnownIdentity, AdmitsOnce, Active
<1>5. \A j, k \in Handlers : j # k => KeysDiffer(handler[j], handler[k])'
  <2> TAKE j, k \in Handlers
  <2>1. j # k => KeysDiffer(handler'[j], handler'[k])
    BY <1>2
  <2> QED
    BY <2>1 DEF KeysDiffer
<1>6. (SessionsHaveIdentities /\ NoOrphanUsers /\ OneCreationEvent)'
  BY DEF SessionsHaveIdentities, NoOrphanUsers, OneCreationEvent
<1> QED
  BY <1>3, <1>4, <1>5, <1>6

(* A statement that inserts nothing. *)
LEMMA NothingInserted ==
  ASSUME Inv, NEW h \in Handlers, NEW r \in HandlerRecords,
         Step(h, r), UNCHANGED <<tables, now>>, RecordOK(r),
         \/ r.inserts = NoInserts
         \/ r.inserts = handler[h].inserts /\ r.token = handler[h].token
  PROVE  Inv'
<1>1. \A k \in Handlers \ {h} :
        KeysDiffer(r, handler[k]) /\ KeysDiffer(handler[k], r)
  BY DEF Inv, KeysDiffer, NoInserts
<1> QED
  BY <1>1, OwnRecord

(* A request that is answered without a commit leaves nothing behind. *)
LEMMA Answering ==
  ASSUME Inv, NEW h \in Handlers, NEW code \in Answers, Answer(h, code)
  PROVE  Inv'
<1> DEFINE r == [Idle EXCEPT !.answer = code]
<1>1. r \in HandlerRecords
  BY IdleIsRecord DEF HandlerRecords
<1>2. RecordOK(r)
  BY DEF RecordOK, Idle, NoInserts, Admitting, HasEmail
<1>3. r.inserts = NoInserts /\ Step(h, r) /\ UNCHANGED <<tables, now>>
  BY DEF Idle, Answer
<1> QED
  BY <1>1, <1>2, <1>3, NothingInserted

(* _require_active on an identity that has been found. *)
LEMMA Requiring ==
  ASSUME Inv, NEW h \in Handlers, NEW started \in 0 .. MaxTime,
         Running(h), handler[h].inserts = NoInserts, handler[h].shared = {},
         handler[h].email \in Emails, Found(h), RequireActive(h, started)
  PROVE  Inv'
<1> DEFINE x == handler[h]
           r == [x EXCEPT !.pc = "InsertSession", !.began = started,
                          !.user = identities[x.token.subject].user]
<1>0. x \in HandlerRecords /\ x.token \in Tokens /\ RecordOK(x)
  BY DEF Inv, TypeOK, RecordOK, Running
<1>1. CASE Active(x.token.subject)
  <2>1. Step(h, r) /\ UNCHANGED <<tables, now>>
    BY <1>1 DEF RequireActive, Token
  <2>2. identities[x.token.subject].user \in Emails
    BY <1>0 DEF Inv, TypeOK, Tokens, Found, Token
  <2>3. r \in HandlerRecords
    BY <1>0, <2>2 DEF HandlerRecords, Statements
  <2>4. RecordOK(r)
    BY <1>0, <2>2 DEF RecordOK, ActsForUser, HoldsKnownIdentity, AdmitsOnce,
                      NoInserts, Admitting, HasEmail, Found, Token
  <2>5. r.inserts = NoInserts
    BY <1>0 DEF HandlerRecords
  <2> QED
    BY <2>1, <2>3, <2>4, <2>5, NothingInserted
<1>2. CASE ~Active(x.token.subject)
  BY <1>2, Answering DEF RequireActive, Token, Answers
<1> QED
  BY <1>1, <1>2

-----------------------------------------------------------------------------
(* The statements of a request, one by one. *)

LEMMA BeginKeeps ==
  ASSUME Inv, NEW h \in Handlers, NEW token \in Tokens, Begin(h, token)
  PROVE  Inv'
<1> DEFINE r == [Idle EXCEPT !.token = token, !.pc = "FindIdentity"]
<1>1. r \in HandlerRecords
  BY IdleIsRecord DEF HandlerRecords, Statements
<1>2. RecordOK(r)
  BY DEF RecordOK, Idle, NoInserts, Admitting, HasEmail
<1>3. r.inserts = NoInserts
  BY DEF Idle
<1> QED
  BY <1>1, <1>2, <1>3, NothingInserted DEF Begin

LEMMA FindIdentityKeeps ==
  ASSUME Inv, NEW h \in Handlers, FindIdentity(h)
  PROVE  Inv'
<1> DEFINE x == handler[h]
           r == [x EXCEPT !.pc = IF Found(h) THEN "LockActiveIdentity"
                                             ELSE "FetchProfile"]
<1>0. x \in HandlerRecords /\ RecordOK(x) /\ x.pc = "FindIdentity"
  BY DEF Inv, TypeOK, FindIdentity, At
<1>1. CASE Found(h) /\ ~Active(Token(h).subject)
  BY <1>1, Answering DEF FindIdentity, Answers
<1>2. CASE ~ (Found(h) /\ ~Active(Token(h).subject))
  <2>1. Step(h, r) /\ UNCHANGED <<tables, now>>
    BY <1>2 DEF FindIdentity
  <2>2. r \in HandlerRecords
    BY <1>0 DEF HandlerRecords, Statements
  <2>3. RecordOK(r)
    BY <1>0 DEF RecordOK, NoInserts, Admitting, HasEmail, Found, Token
  <2>4. r.inserts = x.inserts /\ r.token = x.token
    BY <1>0 DEF HandlerRecords
  <2> QED
    BY <2>1, <2>2, <2>3, <2>4, NothingInserted
<1> QED
  BY <1>1, <1>2

LEMMA LockActiveIdentityKeeps ==
  ASSUME Inv, NEW h \in Handlers, LockActiveIdentity(h)
  PROVE  Inv'
<1> DEFINE x == handler[h]
           subject == x.token.subject
           user == identities[subject].user
           r == [x EXCEPT !.pc = "InsertSession", !.began = now,
                          !.user = user,
                          !.shared = {IdentityRow(subject), UserRow(user)}]
<1>0. /\ x \in HandlerRecords /\ RecordOK(x)
      /\ x.pc = "LockActiveIdentity" /\ x.token \in Tokens
  BY DEF Inv, TypeOK, LockActiveIdentity, At, RecordOK
<1>1. CASE ~Active(subject)
  BY <1>1, Answering DEF LockActiveIdentity, Answers, Token
<1>2. CASE Active(subject)
  <2>1. Step(h, r) /\ UNCHANGED <<tables, now>>
    BY <1>2 DEF LockActiveIdentity, Token
  <2>2. subject \in Subjects /\ user \in Emails /\ now \in 0 .. MaxTime
    BY <1>0 DEF Inv, TypeOK, Tokens, RecordOK
  <2>3. r \in HandlerRecords
    <3>1. {IdentityRow(subject), UserRow(user)} \in SUBSET Rows
      BY <2>2 DEF Rows
    <3>2. "InsertSession" \in Statements
      BY DEF Statements
    <3> QED
      BY <1>0, <2>2, <3>1, <3>2 DEF HandlerRecords
  <2>4. RecordOK(r)
    BY <1>0, <1>2, <2>2
      DEF RecordOK, ActsForUser, HoldsKnownIdentity, AdmitsOnce, NoInserts,
          Admitting, HasEmail
  <2>5. r.inserts = x.inserts /\ r.token = x.token
    BY <1>0 DEF HandlerRecords
  <2> QED
    BY <2>1, <2>3, <2>4, <2>5, NothingInserted
<1> QED
  BY <1>1, <1>2

LEMMA FetchProfileKeeps ==
  ASSUME Inv, NEW h \in Handlers, FetchProfile(h)
  PROVE  Inv'
<1> DEFINE x == handler[h]
<1>0. /\ x \in HandlerRecords /\ RecordOK(x)
      /\ x.pc = "FetchProfile" /\ x.token \in Tokens
  BY DEF Inv, TypeOK, FetchProfile, At, RecordOK
<1>1. PICK email \in EmailsOf[x.token.subject] :
        Step(h, [x EXCEPT !.pc = "FindExactIdentity", !.email = email])
  BY DEF FetchProfile, Token
<1> DEFINE r == [x EXCEPT !.pc = "FindExactIdentity", !.email = email]
<1>2. email \in Emails
  BY <1>0, EmailsOfAssumption DEF Tokens
<1>3. r \in HandlerRecords
  BY <1>0, <1>2 DEF HandlerRecords, Statements
<1>4. RecordOK(r)
  BY <1>0, <1>2 DEF RecordOK, NoInserts, Admitting, HasEmail
<1>5. r.inserts = x.inserts /\ r.token = x.token
  BY <1>0 DEF HandlerRecords
<1> QED
  BY <1>1, <1>3, <1>4, <1>5, NothingInserted DEF FetchProfile

LEMMA FindExactIdentityKeeps ==
  ASSUME Inv, NEW h \in Handlers, FindExactIdentity(h)
  PROVE  Inv'
<1> DEFINE x == handler[h]
           r == [x EXCEPT !.pc = "InsertUser", !.began = now]
<1>0. /\ x \in HandlerRecords /\ RecordOK(x) /\ now \in 0 .. MaxTime
      /\ x.pc = "FindExactIdentity"
  BY DEF Inv, TypeOK, FindExactIdentity, At
<1>1. CASE Found(h)
  BY <1>0, <1>1, Requiring
    DEF FindExactIdentity, Running, RecordOK, Admitting, HasEmail
<1>2. CASE ~Found(h)
  <2>1. Step(h, r) /\ UNCHANGED <<tables, now>>
    BY <1>2 DEF FindExactIdentity
  <2>2. r \in HandlerRecords
    BY <1>0 DEF HandlerRecords, Statements
  <2>3. RecordOK(r)
    BY <1>0 DEF RecordOK, NoInserts, Admitting, HasEmail
  <2>4. r.inserts = x.inserts /\ r.token = x.token
    BY <1>0 DEF HandlerRecords
  <2> QED
    BY <2>1, <2>2, <2>3, <2>4, NothingInserted
<1> QED
  BY <1>1, <1>2

LEMMA InsertUserKeeps ==
  ASSUME Inv, NEW h \in Handlers, InsertUser(h)
  PROVE  Inv'
<1> DEFINE x == handler[h]
           conflict == [x EXCEPT !.pc = "ResolveEmailConflict"]
           r == [x EXCEPT !.pc = "InsertIdentity", !.inserts.user = x.email]
<1>0. /\ x \in HandlerRecords /\ RecordOK(x) /\ x.pc = "InsertUser"
      /\ x.inserts = NoInserts /\ x.email \in Emails /\ x.token \in Tokens
  BY DEF Inv, TypeOK, InsertUser, At, RecordOK, Admitting, HasEmail
<1>1. CASE users[x.email] # None
  <2>1. Step(h, conflict) /\ UNCHANGED <<tables, now>>
    BY <1>1 DEF InsertUser
  <2>2. conflict \in HandlerRecords
    BY <1>0 DEF HandlerRecords, Statements
  <2>3. RecordOK(conflict)
    BY <1>0, <1>1 DEF RecordOK, NoInserts, Admitting, HasEmail
  <2>4. conflict.inserts = x.inserts /\ conflict.token = x.token
    BY <1>0 DEF HandlerRecords
  <2> QED
    BY <2>1, <2>2, <2>3, <2>4, NothingInserted
<1>2. CASE users[x.email] = None
  <2>1. Step(h, r) /\ UNCHANGED <<tables, now>>
    BY <1>2 DEF InsertUser
  <2>2. r \in HandlerRecords
    BY <1>0 DEF HandlerRecords, Statements, Inserts
  <2>3. /\ r.pc = "InsertIdentity" /\ r.token = x.token /\ r.email = x.email
        /\ r.inserts = [NoInserts EXCEPT !.user = x.email]
    BY <1>0 DEF HandlerRecords
  <2>4. RecordOK(r)
    BY <1>0, <1>2, <2>3 DEF RecordOK, NoInserts, Admitting, HasEmail
  <2>5. \A k \in Handlers \ {h} :
          KeysDiffer(r, handler[k]) /\ KeysDiffer(handler[k], r)
    <3> TAKE k \in Handlers \ {h}
    <3>1. handler[k].inserts.user # x.email
      BY DEF InsertUser
    <3> QED
      BY <3>1, <2>3 DEF KeysDiffer, NoInserts
  <2> QED
    BY <2>1, <2>2, <2>4, <2>5, OwnRecord
<1> QED
  BY <1>1, <1>2

LEMMA ResolveEmailConflictKeeps ==
  ASSUME Inv, NEW h \in Handlers, ResolveEmailConflict(h)
  PROVE  Inv'
<1>0. /\ RecordOK(handler[h]) /\ handler[h].pc = "ResolveEmailConflict"
      /\ handler[h].began \in 0 .. MaxTime
  BY DEF Inv, TypeOK, HandlerRecords, ResolveEmailConflict, At
<1>1. CASE Found(h)
  BY <1>0, <1>1, Requiring
    DEF ResolveEmailConflict, Running, RecordOK, Admitting, HasEmail
<1>2. CASE ~Found(h)
  BY <1>2, Answering DEF ResolveEmailConflict, Answers
<1> QED
  BY <1>1, <1>2

LEMMA InsertIdentityKeeps ==
  ASSUME Inv, NEW h \in Handlers, InsertIdentity(h)
  PROVE  Inv'
<1> DEFINE x == handler[h]
           lost == [x EXCEPT !.pc = "ResolveIdentityRace",
                             !.inserts = NoInserts]
           r == [x EXCEPT !.pc = "InsertSession", !.inserts.identity = TRUE,
                          !.user = x.email]
<1>0. /\ x \in HandlerRecords /\ RecordOK(x) /\ x.pc = "InsertIdentity"
      /\ x.inserts = [NoInserts EXCEPT !.user = x.email]
      /\ x.email \in Emails /\ users[x.email] = None /\ x.token \in Tokens
  BY DEF Inv, TypeOK, InsertIdentity, At, RecordOK, Admitting, HasEmail
<1>1. CASE Found(h)
  <2>1. Step(h, lost) /\ UNCHANGED <<tables, now>>
    BY <1>1 DEF InsertIdentity
  <2>2. lost \in HandlerRecords
    <3>1. NoInserts \in Inserts /\ "ResolveIdentityRace" \in Statements
      BY DEF NoInserts, Inserts, Statements
    <3> QED
      BY <1>0, <3>1 DEF HandlerRecords
  <2>3. /\ lost.pc = "ResolveIdentityRace" /\ lost.inserts = NoInserts
        /\ lost.token = x.token /\ lost.email = x.email
        /\ lost.shared = x.shared
    BY <1>0 DEF HandlerRecords
  <2>4. RecordOK(lost)
    BY <1>0, <1>1, <2>3
      DEF RecordOK, NoInserts, Admitting, HasEmail, Found, Token
  <2> QED
    BY <2>1, <2>2, <2>3, <2>4, NothingInserted
<1>2. CASE ~Found(h)
  <2>1. Step(h, r) /\ UNCHANGED <<tables, now>>
    BY <1>2 DEF InsertIdentity
  <2>2. r \in HandlerRecords
    <3>1. [x.inserts EXCEPT !.identity = TRUE] \in Inserts
      BY <1>0 DEF HandlerRecords, Inserts
    <3>2. "InsertSession" \in Statements
      BY DEF Statements
    <3> QED
      BY <1>0, <3>1, <3>2 DEF HandlerRecords
  <2>3. /\ r.pc = "InsertSession" /\ r.token = x.token
        /\ r.email = x.email /\ r.user = x.email
        /\ r.inserts = [user |-> x.email, identity |-> TRUE,
                        session |-> None, creation |-> 0]
    BY <1>0 DEF HandlerRecords, NoInserts
  <2>4. RecordOK(r)
    BY <1>0, <1>2, <2>3
      DEF RecordOK, ActsForUser, HoldsKnownIdentity, AdmitsOnce, Admitting,
          HasEmail, Found, Token
  <2>5. \A k \in Handlers \ {h} :
          KeysDiffer(r, handler[k]) /\ KeysDiffer(handler[k], r)
    <3> TAKE k \in Handlers \ {h}
    <3>1. handler[k].inserts.identity =>
            handler[k].token.subject # x.token.subject
      BY DEF InsertIdentity, Token
    <3>2. handler[k].inserts.user # x.email
      BY <1>0 DEF Inv, KeysDiffer, NoInserts
    <3> QED
      BY <3>1, <3>2, <2>3 DEF KeysDiffer
  <2> QED
    BY <2>1, <2>2, <2>4, <2>5, OwnRecord
<1> QED
  BY <1>1, <1>2

(* The race has a winner, so it never ends in the RuntimeError. *)
LEMMA ResolveIdentityRaceKeeps ==
  ASSUME Inv, NEW h \in Handlers, ResolveIdentityRace(h)
  PROVE  Inv'
<1>0. /\ RecordOK(handler[h]) /\ handler[h].pc = "ResolveIdentityRace"
      /\ handler[h].began \in 0 .. MaxTime
  BY DEF Inv, TypeOK, HandlerRecords, ResolveIdentityRace, At
<1>1. Found(h)
  BY <1>0 DEF RecordOK, Found, Token
<1> QED
  BY <1>0, <1>1, Requiring
    DEF ResolveIdentityRace, Running, RecordOK, Admitting, HasEmail

LEMMA NewSessionFits ==
  ASSUME Inv, NEW h \in Handlers
  PROVE  NewSession(h) \in SessionRows /\ NewSession(h) # None
         /\ ~NewSession(h).revoked
<1>1. handler[h].began \in 0 .. MaxTime
  BY DEF Inv, TypeOK, HandlerRecords
<1>2. handler[h].began + Ttl \in Ttl .. MaxTime + Ttl
  BY <1>1
<1>3. NewSession(h) \in [expires : Nat, revoked : BOOLEAN]
  BY <1>1 DEF NewSession
<1> QED
  BY <1>2, <1>3 DEF NewSession, SessionRows

LEMMA InsertSessionKeeps ==
  ASSUME Inv, NEW h \in Handlers, InsertSession(h)
  PROVE  Inv'
<1> DEFINE x == handler[h]
           conflict == [x EXCEPT !.pc = "FindSession"]
           r == [x EXCEPT !.pc = "InsertAudit",
                          !.inserts.session = NewSession(h)]
<1>0. /\ x \in HandlerRecords /\ RecordOK(x) /\ x.pc = "InsertSession"
      /\ x.token \in Tokens /\ x.inserts \in Inserts
      /\ ActsForUser(x) /\ HoldsKnownIdentity(x)
      /\ x.inserts.session = None /\ x.inserts.creation = 0
  BY DEF Inv, TypeOK, InsertSession, At, RecordOK, Admitting, AdmitsOnce,
         HandlerRecords
<1>1. CASE sessions[x.token] # None
  <2>1. Step(h, conflict) /\ UNCHANGED <<tables, now>>
    BY <1>1 DEF InsertSession, Token
  <2>2. conflict \in HandlerRecords
    BY <1>0 DEF HandlerRecords, Statements
  <2>3. /\ conflict.pc = "FindSession" /\ conflict.inserts = x.inserts
        /\ conflict.token = x.token /\ conflict.email = x.email
        /\ conflict.user = x.user /\ conflict.shared = x.shared
    BY <1>0 DEF HandlerRecords
  <2>4. ActsForUser(conflict) /\ HoldsKnownIdentity(conflict)
    BY <1>0, <2>3 DEF ActsForUser, HoldsKnownIdentity
  <2>5. RecordOK(conflict)
    BY <1>0, <1>1, <2>3, <2>4 DEF RecordOK, AdmitsOnce, Admitting, HasEmail
  <2> QED
    BY <2>1, <2>2, <2>3, <2>5, NothingInserted
<1>2. CASE sessions[x.token] = None
  <2>1. Step(h, r) /\ UNCHANGED <<tables, now>>
    BY <1>2 DEF InsertSession, Token
  <2>2. r \in HandlerRecords
    <3>1. [x.inserts EXCEPT !.session = NewSession(h)] \in Inserts
      BY <1>0, NewSessionFits DEF Inserts
    <3> QED
      BY <1>0, <3>1 DEF HandlerRecords, Statements
  <2>3. /\ r.pc = "InsertAudit" /\ r.token = x.token /\ r.email = x.email
        /\ r.user = x.user /\ r.shared = x.shared
        /\ r.inserts.user = x.inserts.user
        /\ r.inserts.identity = x.inserts.identity
        /\ r.inserts.session = NewSession(h) /\ r.inserts.creation = 0
    BY <1>0 DEF HandlerRecords, Inserts
  <2>4. ActsForUser(r) /\ HoldsKnownIdentity(r)
    BY <1>0, <2>3 DEF ActsForUser, HoldsKnownIdentity
  <2>5. RecordOK(r)
    BY <1>0, <1>2, <2>3, <2>4, NewSessionFits
      DEF RecordOK, AdmitsOnce, Admitting, HasEmail
  <2>6. \A k \in Handlers \ {h} :
          KeysDiffer(r, handler[k]) /\ KeysDiffer(handler[k], r)
    <3> TAKE k \in Handlers \ {h}
    <3>1. handler[k].token = x.token => handler[k].inserts.session = None
      BY DEF InsertSession, SessionKeyFree, Token
    <3>2. KeysDiffer(x, handler[k]) /\ KeysDiffer(handler[k], x)
      BY DEF Inv
    <3> QED
      BY <3>1, <3>2, <2>3 DEF KeysDiffer
  <2> QED
    BY <2>1, <2>2, <2>5, <2>6, OwnRecord
<1> QED
  BY <1>1, <1>2

LEMMA InsertAuditKeeps ==
  ASSUME Inv, NEW h \in Handlers, InsertAudit(h)
  PROVE  Inv'
<1> DEFINE x == handler[h]
           r == [x EXCEPT !.pc = "Commit", !.inserts.creation = 1]
<1>0. /\ x \in HandlerRecords /\ RecordOK(x) /\ x.pc = "InsertAudit"
      /\ x.token \in Tokens /\ x.inserts \in Inserts
      /\ ActsForUser(x) /\ HoldsKnownIdentity(x) /\ AdmitsOnce(x)
  BY DEF Inv, TypeOK, InsertAudit, At, RecordOK, Admitting, HandlerRecords
<1>1. Step(h, r) /\ UNCHANGED <<tables, now>>
  BY DEF InsertAudit
<1>2. r \in HandlerRecords
  BY <1>0 DEF HandlerRecords, Statements, Inserts
<1>3. /\ r.pc = "Commit" /\ r.token = x.token /\ r.email = x.email
      /\ r.user = x.user /\ r.shared = x.shared
      /\ r.inserts.user = x.inserts.user
      /\ r.inserts.identity = x.inserts.identity
      /\ r.inserts.session = x.inserts.session /\ r.inserts.creation = 1
  BY <1>0 DEF HandlerRecords, Inserts
<1>4. ActsForUser(r) /\ HoldsKnownIdentity(r)
  BY <1>0, <1>3 DEF ActsForUser, HoldsKnownIdentity
<1>5. RecordOK(r)
  BY <1>0, <1>3, <1>4 DEF RecordOK, AdmitsOnce, Admitting, HasEmail
<1>6. \A k \in Handlers \ {h} :
        KeysDiffer(r, handler[k]) /\ KeysDiffer(handler[k], r)
  <2> TAKE k \in Handlers \ {h}
  <2>1. KeysDiffer(x, handler[k]) /\ KeysDiffer(handler[k], x)
    BY DEF Inv
  <2> QED
    BY <2>1, <1>3 DEF KeysDiffer
<1> QED
  BY <1>1, <1>2, <1>5, <1>6, OwnRecord

LEMMA FindSessionKeeps ==
  ASSUME Inv, NEW h \in Handlers, FindSession(h)
  PROVE  Inv'
<1> DEFINE x == handler[h]
           r == [x EXCEPT !.pc = "Commit",
                          !.shared = x.shared \cup {SessionRow(x.token)}]
<1>0. /\ x \in HandlerRecords /\ RecordOK(x) /\ x.pc = "FindSession"
      /\ x.token \in Tokens
      /\ ActsForUser(x) /\ HoldsKnownIdentity(x) /\ AdmitsOnce(x)
  BY DEF Inv, TypeOK, FindSession, At, RecordOK, Admitting
<1>1. CASE Live(h)
  <2>1. Step(h, r) /\ UNCHANGED <<tables, now>>
    BY <1>1 DEF FindSession, Token
  <2>2. r \in HandlerRecords
    <3>1. SessionRow(x.token) \in Rows
      BY <1>0 DEF Rows
    <3> QED
      BY <1>0, <3>1 DEF HandlerRecords, Statements
  <2>3. /\ r.pc = "Commit" /\ r.token = x.token /\ r.email = x.email
        /\ r.user = x.user /\ r.inserts = x.inserts
        /\ r.shared = x.shared \cup {SessionRow(x.token)}
    BY <1>0 DEF HandlerRecords
  <2>4. ActsForUser(r) /\ HoldsKnownIdentity(r)
    BY <1>0, <2>3 DEF ActsForUser, HoldsKnownIdentity
  <2>5. RecordOK(r)
    BY <1>0, <1>1, <2>3, <2>4
      DEF RecordOK, AdmitsOnce, Admitting, HasEmail, Live, Token
  <2> QED
    BY <2>1, <2>2, <2>3, <2>5, NothingInserted
<1>2. CASE ~Live(h)
  BY <1>2, Answering DEF FindSession, Answers
<1> QED
  BY <1>1, <1>2

(* What a commit writes. *)
LEMMA CommitWrites ==
  ASSUME Inv, NEW h \in Handlers, Commit(h)
  PROVE  LET x == handler[h]
             t == x.token IN
         /\ x.inserts.identity =>
              /\ users[x.user] = None /\ identities[t.subject] = None
              /\ users' = [users EXCEPT ![x.user] = "ACTIVE"]
              /\ identities' = [identities EXCEPT ![t.subject] =
                                  [user |-> x.user, status |-> "ACTIVE"]]
         /\ ~x.inserts.identity => users' = users /\ identities' = identities
         /\ x.user \in Emails
         /\ x.inserts.session # None =>
              /\ sessions[t] = None
              /\ sessions' = [sessions EXCEPT ![t] = x.inserts.session]
              /\ creations' = [creations EXCEPT ![t] = creations[t] + 1]
         /\ x.inserts.session = None =>
              /\ sessions' = sessions
              /\ creations' = [creations EXCEPT ![t] = creations[t] + 0]
<1>1. ActsForUser(handler[h]) /\ AdmitsOnce(handler[h])
      /\ handler[h].pc = "Commit" /\ handler[h].inserts \in Inserts
  BY DEF Inv, TypeOK, HandlerRecords, Commit, At, RecordOK, Admitting
<1>2. /\ handler[h].inserts.identity =>
           /\ users[handler[h].user] = None
           /\ identities[handler[h].token.subject] = None
           /\ users' = [users EXCEPT ![handler[h].user] = "ACTIVE"]
           /\ identities' = [identities EXCEPT ![handler[h].token.subject] =
                [user |-> handler[h].user, status |-> "ACTIVE"]]
      /\ ~handler[h].inserts.identity =>
           users' = users /\ identities' = identities
      /\ handler[h].user \in Emails
  BY <1>1 DEF Commit, Token, ActsForUser
<1> QED
  BY <1>1, <1>2 DEF Commit, Token, AdmitsOnce

(* A commit keeps the invariant and disturbs no other handler. *)
LEMMA CommitKeeps ==
  ASSUME Inv, NEW h \in Handlers, Commit(h)
  PROVE  Inv'
<1> DEFINE x == handler[h]
           t == x.token
           r == [Idle EXCEPT !.answer = "ADMITTED"]
<1>0. /\ x \in HandlerRecords /\ x.inserts \in Inserts /\ t \in Tokens
      /\ t.subject \in Subjects
      /\ ActsForUser(x) /\ AdmitsOnce(x) /\ x.pc = "Commit"
  BY DEF Inv, TypeOK, Commit, At, RecordOK, Admitting, HandlerRecords, Tokens
<1>1. TypeOK
  BY DEF Inv
<1>2. r \in HandlerRecords /\ r.inserts = NoInserts
  BY IdleIsRecord DEF HandlerRecords, Answers
<1>3. \A k \in Handlers : handler'[k] = IF k = h THEN r ELSE handler[k]
  BY <1>1 DEF TypeOK, Commit, Step
<1>4. /\ x.inserts.identity =>
           /\ users[x.user] = None /\ identities[t.subject] = None
           /\ users' = [users EXCEPT ![x.user] = "ACTIVE"]
           /\ identities' = [identities EXCEPT ![t.subject] =
                               [user |-> x.user, status |-> "ACTIVE"]]
      /\ ~x.inserts.identity => users' = users /\ identities' = identities
      /\ x.user \in Emails
  BY CommitWrites
<1>5. /\ x.inserts.session # None =>
           /\ sessions[t] = None
           /\ sessions' = [sessions EXCEPT ![t] = x.inserts.session]
           /\ creations' = [creations EXCEPT ![t] = creations[t] + 1]
      /\ x.inserts.session = None =>
           /\ sessions' = sessions
           /\ creations' = [creations EXCEPT ![t] = creations[t] + 0]
  BY CommitWrites
<1>6. creations \in [Tokens -> Nat] /\ now' = now
  BY <1>1 DEF TypeOK, Commit
<1>7. TypeOK'
  <2>1. users' \in [Emails -> Statuses \cup {None}]
    BY <1>1, <1>4 DEF TypeOK, Statuses
  <2>2. identities' \in [Subjects -> [user : Emails, status : Statuses]
                                       \cup {None}]
    BY <1>0, <1>1, <1>4 DEF TypeOK, Statuses
  <2>3. sessions' \in [Tokens -> SessionRows \cup {None}]
    BY <1>0, <1>1, <1>5 DEF TypeOK, Inserts
  <2>4. creations' \in [Tokens -> Nat]
    BY <1>5, <1>6
  <2>5. handler' \in [Handlers -> HandlerRecords]
    BY <1>1, <1>2 DEF TypeOK, Commit, Step
  <2> QED
    BY <2>1, <2>2, <2>3, <2>4, <2>5, <1>1, <1>6 DEF TypeOK
<1>8. \A s \in Subjects : identities[s] # None => identities'[s] = identities[s]
  BY <1>1, <1>4 DEF TypeOK
<1>9. \A e \in Emails : users[e] # None => users'[e] = users[e]
  BY <1>1, <1>4 DEF TypeOK
<1>10. \A u \in Tokens : sessions[u] # None => sessions'[u] = sessions[u]
  BY <1>1, <1>5 DEF TypeOK
<1>11. \A k \in Handlers : RecordOK(handler[k])'
  <2> SUFFICES ASSUME NEW k \in Handlers PROVE RecordOK(handler[k])'
    OBVIOUS
  <2>1. CASE k = h
    <3>1. handler'[k] = r
      BY <1>3, <2>1
    <3> QED
      BY <3>1 DEF RecordOK, Idle, NoInserts, Admitting, HasEmail
  <2>2. CASE k # h
    <3> DEFINE y == handler[k]
    <3>0. handler'[k] = y
      BY <1>3, <2>2
    <3>1. /\ RecordOK(y) /\ y \in HandlerRecords /\ y.inserts \in Inserts
          /\ KeysDiffer(x, y) /\ KeysDiffer(y, x)
      BY <2>2, <1>1 DEF Inv, TypeOK, HandlerRecords
    <3>2. y.token \in Tokens => y.token.subject \in Subjects
      BY DEF Tokens
    <3>3. y.pc = "InsertIdentity" => users'[y.email] = None
      <4> SUFFICES ASSUME y.pc = "InsertIdentity" PROVE users'[y.email] = None
        OBVIOUS
      <4>1. y.email \in Emails /\ users[y.email] = None
            /\ y.inserts.user = y.email
        BY <3>1 DEF RecordOK, HasEmail, NoInserts
      <4>2. x.inserts.identity => x.user # y.email
        BY <4>1, <3>1, <1>0 DEF KeysDiffer, ActsForUser
      <4> QED
        BY <4>1, <4>2, <1>1, <1>4 DEF TypeOK
    <3>4. y.pc \in Admitting => ActsForUser(y)'
      <4> SUFFICES ASSUME y.pc \in Admitting PROVE ActsForUser(y)'
        OBVIOUS
      <4>1. ActsForUser(y) /\ y.token \in Tokens
        BY <3>1 DEF RecordOK, Admitting
      <4>2. CASE y.inserts.identity
        <5>1. x.inserts.identity => x.user # y.user /\ t.subject # y.token.subject
          BY <4>1, <4>2, <3>1, <1>0 DEF KeysDiffer, ActsForUser
        <5>2. users'[y.user] = None /\ identities'[y.token.subject] = None
          BY <4>1, <4>2, <5>1, <3>2, <1>1, <1>4 DEF TypeOK, ActsForUser
        <5> QED
          BY <4>1, <4>2, <5>2, <3>0 DEF ActsForUser
      <4>3. CASE ~y.inserts.identity
        BY <4>1, <4>3, <3>0, <3>2, <1>8 DEF ActsForUser
      <4> QED
        BY <4>2, <4>3
    <3>5. y.pc \in Admitting => HoldsKnownIdentity(y)'
      <4> SUFFICES ASSUME y.pc \in Admitting, y.email = None
                   PROVE  HoldsKnownIdentity(y)'
        BY <3>0 DEF HoldsKnownIdentity
      <4>1. /\ HoldsKnownIdentity(y) /\ ActsForUser(y) /\ y.token \in Tokens
            /\ Active(y.token.subject)
        BY <3>1 DEF RecordOK, Admitting, HoldsKnownIdentity
      <4>2. y.user \in Emails /\ ~y.inserts.identity
            /\ identities[y.token.subject] # None
            /\ identities[y.token.subject].user = y.user
        BY <4>1 DEF ActsForUser
      <4>3. users[y.user] = "ACTIVE"
        BY <4>1, <4>2 DEF Active
      <4>4. users'[y.user] = "ACTIVE"
        BY <4>2, <4>3, <1>9
      <4>5. identities'[y.token.subject] = identities[y.token.subject]
        BY <4>1, <4>2, <3>2, <1>8
      <4> QED
        BY <4>1, <4>2, <4>4, <4>5, <3>0 DEF HoldsKnownIdentity, Active
    <3>6. y.pc \in Admitting => AdmitsOnce(y)'
      <4> SUFFICES ASSUME y.pc \in Admitting PROVE AdmitsOnce(y)'
        OBVIOUS
      <4>1. AdmitsOnce(y) /\ y.token \in Tokens
        BY <3>1 DEF RecordOK, Admitting
      <4>2. y.inserts.session # None /\ x.inserts.session # None => y.token # t
        BY <3>1 DEF KeysDiffer
      <4>3. y.inserts.session # None /\ sessions[y.token] = None
              => sessions'[y.token] = None
        BY <4>1, <4>2, <1>1, <1>5 DEF TypeOK
      <4> QED
        BY <4>1, <4>3, <3>0, <1>10 DEF AdmitsOnce
    <3>7. y.pc \in {"LockActiveIdentity", "ResolveIdentityRace"} =>
            identities'[y.token.subject] # None
      BY <3>1, <3>2, <1>8 DEF RecordOK
    <3>8. y.pc = "ResolveEmailConflict" => users'[y.email] # None
      BY <3>1, <1>9 DEF RecordOK, HasEmail
    <3> QED
      BY <3>0, <3>1, <3>3, <3>4, <3>5, <3>6, <3>7, <3>8 DEF RecordOK
  <2> QED
    BY <2>1, <2>2
<1>12. \A j, k \in Handlers : j # k => KeysDiffer(handler[j], handler[k])'
  <2> TAKE j, k \in Handlers
  <2>1. j # k => KeysDiffer(handler'[j], handler'[k])
    <3>1. ASSUME NEW y PROVE KeysDiffer(r, y)
      BY <1>2 DEF KeysDiffer, NoInserts
    <3>2. ASSUME NEW y PROVE KeysDiffer(y, r)
      BY <1>2 DEF KeysDiffer, NoInserts
    <3> QED
      BY <3>1, <3>2, <1>3 DEF Inv
  <2> QED
    BY <2>1 DEF KeysDiffer
<1>13. SessionsHaveIdentities'
  <2>1. identities'[t.subject] # None
    BY <1>0, <1>1, <1>4 DEF TypeOK, ActsForUser
  <2> QED
    BY <2>1, <1>1, <1>5, <1>8 DEF Inv, SessionsHaveIdentities, TypeOK, Tokens
<1>14. NoOrphanUsers'
  <2> SUFFICES ASSUME NEW e \in Emails \ KnownEmails, users'[e] # None
               PROVE  \E s \in Subjects : /\ identities'[s] # None
                                          /\ identities'[s].user = e
    BY DEF NoOrphanUsers
  <2>1. CASE users[e] # None
    <3>1. PICK s \in Subjects :
            identities[s] # None /\ identities[s].user = e
      BY <2>1 DEF Inv, NoOrphanUsers
    <3> QED
      BY <3>1, <1>8
  <2>2. CASE users[e] = None
    <3>1. x.inserts.identity /\ e = x.user
      BY <2>2, <1>1, <1>4 DEF TypeOK
    <3>2. identities'[t.subject] = [user |-> x.user, status |-> "ACTIVE"]
      BY <3>1, <1>0, <1>1, <1>4 DEF TypeOK
    <3>3. identities'[t.subject] # None
      BY <3>2, <1>4
    <3> QED
      BY <3>1, <3>2, <3>3, <1>0
  <2> QED
    BY <2>1, <2>2
<1>15. OneCreationEvent'
  <2> SUFFICES ASSUME NEW u \in Tokens
               PROVE  creations'[u] = IF sessions'[u] = None THEN 0 ELSE 1
    BY DEF OneCreationEvent
  <2>1. creations[u] = IF sessions[u] = None THEN 0 ELSE 1
    BY DEF Inv, OneCreationEvent
  <2>2. creations[u] \in Nat
    BY <1>6
  <2> QED
    BY <2>1, <2>2, <1>0, <1>1, <1>5, <1>6 DEF TypeOK
<1> QED
  BY <1>7, <1>11, <1>12, <1>13, <1>14, <1>15 DEF Inv

LEMMA AbortKeeps ==
  ASSUME Inv, NEW h \in Handlers, Abort(h)
  PROVE  Inv'
BY Answering DEF Abort, Answers

-----------------------------------------------------------------------------
(* The steps outside the repository change statuses, never keys. *)

LEMMA SetIdentityStatusKeeps ==
  ASSUME Inv, NEW s \in Subjects, SetIdentityStatus(s)
  PROVE  Inv'
<1>1. TypeOK /\ identities[s] # None /\ handler' = handler
      /\ users' = users /\ sessions' = sessions /\ creations' = creations
      /\ now' = now
  BY DEF Inv, SetIdentityStatus
<1>2. identities[s] \in [user : Emails, status : Statuses]
  BY <1>1 DEF TypeOK
<1>3. /\ identities' \in [Subjects -> [user : Emails, status : Statuses]
                                       \cup {None}]
      /\ identities'[s].user = identities[s].user /\ identities'[s] # None
      /\ \A o \in Subjects : o # s => identities'[o] = identities[o]
  <2> DEFINE row == [identities[s] EXCEPT
                       !.status = IF identities[s].status = "ACTIVE"
                                  THEN "DISABLED" ELSE "ACTIVE"]
  <2>1. row \in [user : Emails, status : Statuses]
        /\ row.user = identities[s].user
    BY <1>2 DEF Statuses
  <2>2. identities' = [identities EXCEPT ![s] = row]
    BY DEF SetIdentityStatus
  <2>3. row # None
    BY <2>1 DEF Statuses
  <2> HIDE DEF row
  <2> QED
    BY <2>1, <2>2, <2>3, <1>1 DEF TypeOK
<1>4. TypeOK'
  BY <1>1, <1>3 DEF TypeOK
<1>5. \A o \in Subjects :
        /\ identities'[o] = None <=> identities[o] = None
        /\ identities[o] # None => identities'[o].user = identities[o].user
  BY <1>1, <1>3
<1>6. \A h \in Handlers : RecordOK(handler[h])'
  <2> SUFFICES ASSUME NEW h \in Handlers PROVE RecordOK(handler[h])'
    OBVIOUS
  <2> DEFINE x == handler[h]
  <2>1. RecordOK(x) /\ handler'[h] = x
    BY <1>1 DEF Inv
  <2>2. x.token \in Tokens => x.token.subject \in Subjects
    BY DEF Tokens
  <2>3. x.pc \in Admitting => ActsForUser(x)'
    BY <2>1, <2>2, <1>1, <1>5 DEF RecordOK, ActsForUser, Admitting
  <2>4. x.pc \in Admitting => HoldsKnownIdentity(x)'
    <3> SUFFICES ASSUME x.pc \in Admitting, x.email = None
                 PROVE  HoldsKnownIdentity(x)'
      BY <2>1 DEF HoldsKnownIdentity
    <3>1. HoldsKnownIdentity(x) /\ x.token \in Tokens
      BY <2>1 DEF RecordOK, Admitting
    <3>2. x.token.subject # s
      BY <3>1 DEF HoldsKnownIdentity, SetIdentityStatus, Unshared
    <3> QED
      BY <2>1, <2>2, <3>1, <3>2, <1>1, <1>3 DEF HoldsKnownIdentity, Active
  <2>5. x.pc \in Admitting => AdmitsOnce(x)'
    BY <2>1, <1>1 DEF RecordOK, AdmitsOnce
  <2>6. x.pc \in {"LockActiveIdentity", "ResolveIdentityRace"} =>
          identities'[x.token.subject] # None
    BY <2>1, <2>2, <1>5 DEF RecordOK
  <2> QED
    BY <2>1, <2>3, <2>4, <2>5, <2>6, <1>1 DEF RecordOK
<1>7. \A j, k \in Handlers : j # k => KeysDiffer(handler[j], handler[k])'
  BY <1>1 DEF Inv, KeysDiffer
<1>8. SessionsHaveIdentities'
  BY <1>1, <1>5 DEF Inv, SessionsHaveIdentities, Tokens
<1>9. NoOrphanUsers' /\ OneCreationEvent'
  BY <1>1, <1>5 DEF Inv, NoOrphanUsers, OneCreationEvent
<1> QED
  BY <1>4, <1>6, <1>7, <1>8, <1>9 DEF Inv

LEMMA SetUserStatusKeeps ==
  ASSUME Inv, NEW e \in Emails, SetUserStatus(e)
  PROVE  Inv'
<1>1. TypeOK /\ users[e] # None /\ handler' = handler
      /\ identities' = identities /\ sessions' = sessions
      /\ creations' = creations /\ now' = now
  BY DEF Inv, SetUserStatus
<1>2. /\ users' \in [Emails -> Statuses \cup {None}] /\ users'[e] # None
      /\ \A o \in Emails : o # e => users'[o] = users[o]
  BY <1>1 DEF TypeOK, SetUserStatus, Statuses
<1>3. \A o \in Emails : users'[o] = None <=> users[o] = None
  BY <1>1, <1>2
<1>4. TypeOK'
  BY <1>1, <1>2 DEF TypeOK
<1>5. \A h \in Handlers : RecordOK(handler[h])'
  <2> SUFFICES ASSUME NEW h \in Handlers PROVE RecordOK(handler[h])'
    OBVIOUS
  <2> DEFINE x == handler[h]
  <2>1. RecordOK(x) /\ handler'[h] = x
    BY <1>1 DEF Inv
  <2>2. x.pc \in Admitting => ActsForUser(x)'
    BY <2>1, <1>1, <1>3 DEF RecordOK, ActsForUser
  <2>3. x.pc \in Admitting => HoldsKnownIdentity(x)'
    <3> SUFFICES ASSUME x.pc \in Admitting, x.email = None
                 PROVE  HoldsKnownIdentity(x)'
      BY <2>1 DEF HoldsKnownIdentity
    <3>1. HoldsKnownIdentity(x) /\ ActsForUser(x)
      BY <2>1 DEF RecordOK
    <3>2. x.user # e
      BY <3>1 DEF HoldsKnownIdentity, SetUserStatus, Unshared
    <3>3. identities[x.token.subject].user = x.user /\ x.user \in Emails
      BY <3>1 DEF ActsForUser, HoldsKnownIdentity
    <3> QED
      BY <2>1, <3>1, <3>2, <3>3, <1>1, <1>2 DEF HoldsKnownIdentity, Active
  <2>4. x.pc \in Admitting => AdmitsOnce(x)'
    BY <2>1, <1>1 DEF RecordOK, AdmitsOnce
  <2>5. /\ x.pc = "ResolveEmailConflict" => users'[x.email] # None
        /\ x.pc = "InsertIdentity" => users'[x.email] = None
    BY <2>1, <1>3 DEF RecordOK, HasEmail
  <2> QED
    BY <2>1, <2>2, <2>3, <2>4, <2>5, <1>1 DEF RecordOK
<1>6. \A j, k \in Handlers : j # k => KeysDiffer(handler[j], handler[k])'
  BY <1>1 DEF Inv, KeysDiffer
<1>7. (SessionsHaveIdentities /\ NoOrphanUsers /\ OneCreationEvent)'
  BY <1>1, <1>3 DEF Inv, SessionsHaveIdentities, NoOrphanUsers,
                    OneCreationEvent
<1> QED
  BY <1>4, <1>5, <1>6, <1>7 DEF Inv

LEMMA RevokeKeeps ==
  ASSUME Inv, NEW t \in Tokens, Revoke(t)
  PROVE  Inv'
<1>1. TypeOK /\ sessions[t] # None /\ handler' = handler
      /\ identities' = identities /\ users' = users
      /\ creations' = creations /\ now' = now
  BY DEF Inv, Revoke
<1>2. sessions[t] \in SessionRows
  BY <1>1 DEF TypeOK
<1>3. /\ sessions' \in [Tokens -> SessionRows \cup {None}]
      /\ sessions'[t] # None
      /\ \A o \in Tokens : o # t => sessions'[o] = sessions[o]
  <2> DEFINE row == [sessions[t] EXCEPT !.revoked = TRUE]
  <2>1. row \in SessionRows
    BY <1>2 DEF SessionRows
  <2>2. row \in [expires : Nat, revoked : BOOLEAN]
    BY <2>1 DEF SessionRows
  <2>3. sessions' = [sessions EXCEPT ![t] = row]
    BY DEF Revoke
  <2> HIDE DEF row
  <2> QED
    BY <2>1, <2>2, <2>3, <1>1 DEF TypeOK
<1>4. TypeOK'
  BY <1>1, <1>3 DEF TypeOK
<1>5. \A o \in Tokens : sessions'[o] = None <=> sessions[o] = None
  BY <1>1, <1>3
<1>6. \A h \in Handlers : RecordOK(handler[h])'
  <2> SUFFICES ASSUME NEW h \in Handlers PROVE RecordOK(handler[h])'
    OBVIOUS
  <2> DEFINE x == handler[h]
  <2>1. RecordOK(x) /\ handler'[h] = x
    BY <1>1 DEF Inv
  <2>2. x.pc \in Admitting => AdmitsOnce(x)'
    <3> SUFFICES ASSUME x.pc \in Admitting PROVE AdmitsOnce(x)'
      OBVIOUS
    <3>1. AdmitsOnce(x) /\ x.token \in Tokens
      BY <2>1 DEF RecordOK, Admitting
    <3>2. SessionRow(x.token) \in x.shared => x.token # t
      BY DEF Revoke, Unshared
    <3> QED
      BY <2>1, <3>1, <3>2, <1>3, <1>5 DEF AdmitsOnce
  <2>3. x.pc \in Admitting => ActsForUser(x)' /\ HoldsKnownIdentity(x)'
    BY <2>1, <1>1 DEF RecordOK, ActsForUser, HoldsKnownIdentity, Active
  <2> QED
    BY <2>1, <2>2, <2>3, <1>1 DEF RecordOK
<1>7. \A j, k \in Handlers : j # k => KeysDiffer(handler[j], handler[k])'
  BY <1>1 DEF Inv, KeysDiffer
<1>8. (SessionsHaveIdentities /\ NoOrphanUsers /\ OneCreationEvent)'
  BY <1>1, <1>5 DEF Inv, SessionsHaveIdentities, NoOrphanUsers,
                    OneCreationEvent
<1> QED
  BY <1>4, <1>6, <1>7, <1>8 DEF Inv

LEMMA TablesUnchanged ==
  ASSUME Inv, UNCHANGED <<tables, handler>>, now' \in 0 .. MaxTime
  PROVE  Inv'
<1> USE DEF tables
<1>1. TypeOK'
  BY DEF Inv, TypeOK
<1>2. ASSUME NEW h \in Handlers PROVE RecordOK(handler[h])'
  <2>1. RecordOK(handler[h])
    BY DEF Inv
  <2>2. AdmitsOnce(handler[h])' <=> AdmitsOnce(handler[h])
    BY DEF AdmitsOnce
  <2>3. /\ ActsForUser(handler[h])' <=> ActsForUser(handler[h])
        /\ HoldsKnownIdentity(handler[h])' <=> HoldsKnownIdentity(handler[h])
    BY DEF ActsForUser, HoldsKnownIdentity, Active
  <2> QED
    BY <2>1, <2>2, <2>3 DEF RecordOK
<1>3. \A j, k \in Handlers : j # k => KeysDiffer(handler[j], handler[k])'
  BY DEF Inv, KeysDiffer
<1>4. (SessionsHaveIdentities /\ NoOrphanUsers /\ OneCreationEvent)'
  BY DEF Inv, SessionsHaveIdentities, NoOrphanUsers, OneCreationEvent
<1> QED
  BY <1>1, <1>2, <1>3, <1>4 DEF Inv

-----------------------------------------------------------------------------
LEMMA NextKeeps == Inv /\ [Next]_vars => Inv'
<1> SUFFICES ASSUME Inv, [Next]_vars PROVE Inv'
  OBVIOUS
<1>1. ASSUME NEW h \in Handlers, NEW token \in Tokens, Begin(h, token)
      PROVE  Inv'
  BY <1>1, BeginKeeps
<1>2. ASSUME NEW h \in Handlers, Progress(h) PROVE Inv'
  <2>1. CASE FindIdentity(h)
    BY <2>1, FindIdentityKeeps
  <2>2. CASE LockActiveIdentity(h)
    BY <2>2, LockActiveIdentityKeeps
  <2>3. CASE FetchProfile(h)
    BY <2>3, FetchProfileKeeps
  <2>4. CASE ProfileUnusable(h)
    BY <2>4, Answering DEF ProfileUnusable, Answers
  <2>5. CASE FindExactIdentity(h)
    BY <2>5, FindExactIdentityKeeps
  <2>6. CASE InsertUser(h)
    BY <2>6, InsertUserKeeps
  <2>7. CASE ResolveEmailConflict(h)
    BY <2>7, ResolveEmailConflictKeeps
  <2>8. CASE InsertIdentity(h)
    BY <2>8, InsertIdentityKeeps
  <2>9. CASE ResolveIdentityRace(h)
    BY <2>9, ResolveIdentityRaceKeeps
  <2>10. CASE InsertSession(h)
    BY <2>10, InsertSessionKeeps
  <2>11. CASE InsertAudit(h)
    BY <2>11, InsertAuditKeeps
  <2>12. CASE FindSession(h)
    BY <2>12, FindSessionKeeps
  <2>13. CASE Commit(h)
    BY <2>13, CommitKeeps
  <2> QED
    BY <1>2, <2>1, <2>2, <2>3, <2>4, <2>5, <2>6, <2>7, <2>8, <2>9, <2>10,
       <2>11, <2>12, <2>13 DEF Progress
<1>3. ASSUME NEW h \in Handlers, Abort(h) PROVE Inv'
  BY <1>3, AbortKeeps
<1>4. ASSUME NEW s \in Subjects, SetIdentityStatus(s) PROVE Inv'
  BY <1>4, SetIdentityStatusKeeps
<1>5. ASSUME NEW e \in Emails, SetUserStatus(e) PROVE Inv'
  BY <1>5, SetUserStatusKeeps
<1>6. ASSUME NEW t \in Tokens, Revoke(t) PROVE Inv'
  BY <1>6, RevokeKeeps
<1>7. CASE Tick
  BY <1>7, TablesUnchanged DEF Tick, Inv, TypeOK
<1>8. CASE UNCHANGED vars
  BY <1>8, TablesUnchanged DEF vars, tables, Inv, TypeOK
<1> QED
  BY <1>1, <1>2, <1>3, <1>4, <1>5, <1>6, <1>7, <1>8 DEF Next

(* The invariant holds in every reachable state of provisioning. *)
THEOREM Invariance == Spec => []Inv
<1> QED
  BY Initially, NextKeeps, PTL DEF Spec

(* Every variable keeps its type; in particular no request ends in the     *)
(* RuntimeError of _create_identity_or_resolve_race.                       *)
THEOREM TypeCorrectness == Spec => []TypeOK
<1>1. Inv => TypeOK
  BY DEF Inv
<1> QED
  BY <1>1, Invariance, PTL

(* A lost identity race, a conflict or a crash leaves no user behind. *)
THEOREM FirstLoginsLeaveNoOrphans == Spec => []NoOrphanUsers
<1>1. Inv => NoOrphanUsers
  BY DEF Inv
<1> QED
  BY <1>1, Invariance, PTL

(* However many requests admit a session, it is audited exactly once. *)
THEOREM AdmissionIsAuditedOnce == Spec => []OneCreationEvent
<1>1. Inv => OneCreationEvent
  BY DEF Inv
<1> QED
  BY <1>1, Invariance, PTL

-----------------------------------------------------------------------------
(* Who answers what. *)

(* A statement changes the record of its own handler only. *)
LEMMA OnlyItsOwn ==
  ASSUME Inv, NEW h \in Handlers, NEW k \in Handlers, NEW r, Step(k, r)
  PROVE  handler'[h] = IF h = k THEN r ELSE handler[h]
BY DEF Step, Inv, TypeOK

(* The answers of everything but a commit. *)
LEMMA AnswerOf ==
  ASSUME Inv, NEW h \in Handlers, NEW k \in Handlers, NEW code, NEW other,
         Answer(k, other), Answered(h, code)
  PROVE  h = k /\ code = other
<1> DEFINE r == [Idle EXCEPT !.answer = other]
<1>1. handler'[h] = IF h = k THEN r ELSE handler[h]
  BY OnlyItsOwn DEF Answer
<1>2. r.answer = other
  BY DEF Idle
<1> QED
  BY <1>1, <1>2 DEF Answered, Running

(* A statement after which its handler still runs answers nobody. *)
LEMMA StillRunning ==
  ASSUME Inv, NEW h \in Handlers, NEW k \in Handlers, NEW code, NEW r,
         Step(k, r), r.pc # "idle", Answered(h, code)
  PROVE  FALSE
BY OnlyItsOwn DEF Answered, Running

LEMMA RequiringAnswers ==
  ASSUME Inv, NEW h \in Handlers, NEW k \in Handlers, NEW code, NEW started,
         RequireActive(k, started), Answered(h, code)
  PROVE  code = "AUTH_INVALID_CREDENTIALS"
<1> DEFINE r == [handler[k] EXCEPT
                   !.pc = "InsertSession", !.began = started,
                   !.user = identities[Token(k).subject].user]
<1>1. r.pc # "idle"
  BY DEF Inv, TypeOK, HandlerRecords
<1>2. Step(k, r) \/ Answer(k, "AUTH_INVALID_CREDENTIALS")
  BY DEF RequireActive
<1> QED
  BY <1>1, <1>2, StillRunning, AnswerOf

(* The only statement that admits is a commit, and the only one that asks  *)
(* for a link is the resolution of an email conflict without an identity.  *)
LEMMA WhoAnswers ==
  ASSUME Inv, [Next]_vars, NEW h \in Handlers, NEW code,
         code \in {"ADMITTED", "AUTH_ACCOUNT_LINK_REQUIRED"},
         Answered(h, code)
  PROVE  \/ code = "ADMITTED" /\ Commit(h)
         \/ /\ code = "AUTH_ACCOUNT_LINK_REQUIRED"
            /\ ResolveEmailConflict(h) /\ ~Found(h)
            /\ UNCHANGED <<tables, now>>
<1> DEFINE Goal == \/ code = "ADMITTED" /\ Commit(h)
                   \/ /\ code = "AUTH_ACCOUNT_LINK_REQUIRED"
                      /\ ResolveEmailConflict(h) /\ ~Found(h)
                      /\ UNCHANGED <<tables, now>>
<1>0. \A k \in Handlers : handler[k] \in HandlerRecords
  BY DEF Inv, TypeOK
<1>1. ASSUME NEW k \in Handlers, NEW t \in Tokens, Begin(k, t) PROVE Goal
  <2> DEFINE r == [Idle EXCEPT !.token = t, !.pc = "FindIdentity"]
  <2>1. r.pc # "idle" /\ Step(k, r)
    BY <1>1 DEF Idle, Begin
  <2> QED
    BY <2>1, StillRunning
<1>2. ASSUME NEW k \in Handlers, Progress(k) PROVE Goal
  <2>0. handler[k] \in HandlerRecords
    BY <1>0
  <2>1. CASE FindIdentity(k)
    <3> DEFINE r == [handler[k] EXCEPT
                       !.pc = IF Found(k) THEN "LockActiveIdentity"
                                          ELSE "FetchProfile"]
    <3>1. r.pc # "idle"
      BY <2>0 DEF HandlerRecords
    <3>2. Step(k, r) \/ Answer(k, "AUTH_INVALID_CREDENTIALS")
      BY <2>1 DEF FindIdentity
    <3> HIDE DEF r
    <3> QED
      BY <3>1, <3>2, StillRunning, AnswerOf
  <2>2. CASE LockActiveIdentity(k)
    <3> DEFINE subject == Token(k).subject
               user == identities[subject].user
               r == [handler[k] EXCEPT
                       !.pc = "InsertSession", !.began = now, !.user = user,
                       !.shared = {IdentityRow(subject), UserRow(user)}]
    <3>1. r.pc # "idle"
      BY <2>0 DEF HandlerRecords
    <3>2. Step(k, r) \/ Answer(k, "AUTH_INVALID_CREDENTIALS")
      BY <2>2 DEF LockActiveIdentity
    <3> HIDE DEF r
    <3> QED
      BY <3>1, <3>2, StillRunning, AnswerOf
  <2>3. CASE FetchProfile(k)
    <3>1. PICK email \in EmailsOf[Token(k).subject] :
            Step(k, [handler[k] EXCEPT !.pc = "FindExactIdentity",
                                       !.email = email])
      BY <2>3 DEF FetchProfile
    <3> DEFINE r == [handler[k] EXCEPT !.pc = "FindExactIdentity",
                                       !.email = email]
    <3>2. r.pc # "idle"
      BY <2>0 DEF HandlerRecords
    <3> QED
      BY <3>1, <3>2, StillRunning
  <2>4. CASE ProfileUnusable(k)
    BY <2>4, AnswerOf DEF ProfileUnusable
  <2>5. CASE FindExactIdentity(k)
    <3> DEFINE r == [handler[k] EXCEPT !.pc = "InsertUser", !.began = now]
    <3>1. r.pc # "idle"
      BY <2>0 DEF HandlerRecords
    <3>2. Step(k, r) \/ RequireActive(k, now)
      BY <2>5 DEF FindExactIdentity
    <3> QED
      BY <3>1, <3>2, StillRunning, RequiringAnswers
  <2>6. CASE InsertUser(k)
    <3> DEFINE conflict == [handler[k] EXCEPT !.pc = "ResolveEmailConflict"]
               r == [handler[k] EXCEPT !.pc = "InsertIdentity",
                                       !.inserts.user = handler[k].email]
    <3>1. conflict.pc # "idle" /\ r.pc # "idle"
      BY <2>0 DEF HandlerRecords
    <3>2. Step(k, conflict) \/ Step(k, r)
      BY <2>6 DEF InsertUser
    <3> QED
      BY <3>1, <3>2, StillRunning
  <2>7. CASE ResolveEmailConflict(k)
    <3>1. CASE Found(k)
      BY <2>7, <3>1, RequiringAnswers DEF ResolveEmailConflict
    <3>2. CASE ~Found(k)
      <4>1. Answer(k, "AUTH_ACCOUNT_LINK_REQUIRED")
        BY <2>7, <3>2 DEF ResolveEmailConflict
      <4>2. h = k /\ code = "AUTH_ACCOUNT_LINK_REQUIRED"
        BY <4>1, AnswerOf
      <4> QED
        BY <2>7, <3>2, <4>1, <4>2 DEF Answer
    <3> QED
      BY <3>1, <3>2
  <2>8. CASE InsertIdentity(k)
    <3> DEFINE lost == [handler[k] EXCEPT !.pc = "ResolveIdentityRace",
                                          !.inserts = NoInserts]
               r == [handler[k] EXCEPT !.pc = "InsertSession",
                                       !.inserts.identity = TRUE,
                                       !.user = handler[k].email]
    <3>1. lost.pc # "idle" /\ r.pc # "idle"
      BY <2>0 DEF HandlerRecords
    <3>2. Step(k, lost) \/ Step(k, r)
      BY <2>8 DEF InsertIdentity
    <3> QED
      BY <3>1, <3>2, StillRunning
  <2>9. CASE ResolveIdentityRace(k)
    <3>1. RequireActive(k, handler[k].began) \/ Answer(k, "INTERNAL_ERROR")
      BY <2>9 DEF ResolveIdentityRace
    <3> QED
      BY <3>1, RequiringAnswers, AnswerOf
  <2>10. CASE InsertSession(k)
    <3> DEFINE conflict == [handler[k] EXCEPT !.pc = "FindSession"]
               r == [handler[k] EXCEPT !.pc = "InsertAudit",
                                       !.inserts.session = NewSession(k)]
    <3>1. conflict.pc # "idle" /\ r.pc # "idle"
      BY <2>0 DEF HandlerRecords
    <3>2. Step(k, conflict) \/ Step(k, r)
      BY <2>10 DEF InsertSession
    <3> QED
      BY <3>1, <3>2, StillRunning
  <2>11. CASE InsertAudit(k)
    <3> DEFINE r == [handler[k] EXCEPT !.pc = "Commit",
                                       !.inserts.creation = 1]
    <3>1. r.pc # "idle" /\ Step(k, r)
      BY <2>0, <2>11 DEF HandlerRecords, InsertAudit
    <3> QED
      BY <3>1, StillRunning
  <2>12. CASE FindSession(k)
    <3> DEFINE r == [handler[k] EXCEPT
                       !.pc = "Commit",
                       !.shared = handler[k].shared
                                    \cup {SessionRow(Token(k))}]
    <3>1. r.pc # "idle"
      BY <2>0 DEF HandlerRecords
    <3>2. Step(k, r) \/ Answer(k, "AUTH_INVALID_CREDENTIALS")
      BY <2>12 DEF FindSession
    <3> HIDE DEF r
    <3>3. ~ Step(k, r)
      BY <1>2, <3>1, StillRunning
    <3> QED
      BY <1>2, <3>2, <3>3, AnswerOf
  <2>13. CASE Commit(k)
    <3> DEFINE r == [Idle EXCEPT !.answer = "ADMITTED"]
    <3>1. handler'[h] = IF h = k THEN r ELSE handler[h]
      BY <2>13, OnlyItsOwn DEF Commit
    <3>2. r.answer = "ADMITTED"
      BY DEF Idle
    <3> QED
      BY <2>13, <3>1, <3>2 DEF Answered, Running
  <2> QED
    BY <1>2, <2>1, <2>2, <2>3, <2>4, <2>5, <2>6, <2>7, <2>8, <2>9, <2>10,
       <2>11, <2>12, <2>13 DEF Progress
<1>3. ASSUME NEW k \in Handlers, Abort(k) PROVE Goal
  BY <1>3, AnswerOf DEF Abort
<1>4. CASE UNCHANGED handler
  BY <1>4 DEF Answered, Running
<1> QED
  BY <1>1, <1>2, <1>3, <1>4
    DEF Next, SetIdentityStatus, SetUserStatus, Revoke, Tick, vars

-----------------------------------------------------------------------------
(* The promises of an admission. *)

(* Only a commit and a revocation write sessions. *)
LEMMA WhoWritesSessions ==
  ASSUME [Next]_vars
  PROVE  \/ sessions' = sessions
         \/ \E h \in Handlers : Commit(h)
         \/ \E t \in Tokens : Revoke(t)
<1>1. ASSUME NEW h \in Handlers, Progress(h), ~Commit(h)
      PROVE  sessions' = sessions
  BY <1>1 DEF Progress, FindIdentity, LockActiveIdentity, FetchProfile,
       ProfileUnusable, FindExactIdentity, InsertUser, ResolveEmailConflict,
       InsertIdentity, ResolveIdentityRace, InsertSession, InsertAudit,
       FindSession, RequireActive, Answer, tables
<1> QED
  BY <1>1 DEF Next, Begin, Abort, Answer, SetIdentityStatus, SetUserStatus,
       Tick, vars, tables

(* No request ever extends an admission or brings it back. *)
THEOREM AdmissionsAreFinal == Spec => AdmissionIsFinal
<1>1. Inv /\ [Next]_vars =>
        [\A token \in Tokens :
           sessions[token] # None =>
             /\ sessions'[token].expires = sessions[token].expires
             /\ sessions[token].revoked => sessions'[token].revoked]_vars
  <2> SUFFICES ASSUME Inv, [Next]_vars, NEW t \in Tokens, sessions[t] # None
               PROVE  /\ sessions'[t].expires = sessions[t].expires
                      /\ sessions[t].revoked => sessions'[t].revoked
    OBVIOUS
  <2>1. sessions \in [Tokens -> SessionRows \cup {None}]
    BY DEF Inv, TypeOK
  <2>2. ASSUME NEW h \in Handlers, Commit(h) PROVE sessions'[t] = sessions[t]
    <3>1. handler[h].token \in Tokens
      BY <2>2 DEF Inv, RecordOK, Commit, At
    <3> QED
      BY <2>1, <2>2, <3>1, CommitWrites
  <2>3. ASSUME NEW u \in Tokens, Revoke(u)
        PROVE  /\ sessions'[t].expires = sessions[t].expires
               /\ sessions[t].revoked => sessions'[t].revoked
    <3>1. sessions[u] \in SessionRows
      BY <2>1, <2>3 DEF Revoke
    <3>2. sessions' = [sessions EXCEPT ![u] =
                         [sessions[u] EXCEPT !.revoked = TRUE]]
      BY <2>3 DEF Revoke
    <3>3. CASE t = u
      BY <2>1, <3>1, <3>2, <3>3 DEF SessionRows
    <3>4. CASE t # u
      BY <2>1, <3>2, <3>4
    <3> QED
      BY <3>3, <3>4
  <2> QED
    BY <2>2, <2>3, WhoWritesSessions
<1> QED
  BY <1>1, Invariance, PTL DEF Spec, AdmissionIsFinal

(* Whatever a race did, the answer names the user of the identity. *)
THEOREM AnswersNameTheIdentitysUser == Spec => AnswersConverge
<1>1. Inv /\ [Next]_vars =>
        [\A h \in Handlers, token \in Tokens :
           Admitted(h, token) =>
             identities'[token.subject].user = handler[h].user]_vars
  <2> SUFFICES ASSUME Inv, [Next]_vars, NEW h \in Handlers,
                      NEW t \in Tokens, Admitted(h, t)
               PROVE  identities'[t.subject].user = handler[h].user
    OBVIOUS
  <2>1. Commit(h) /\ handler[h].token = t
    BY WhoAnswers DEF Admitted, Token
  <2>2. ActsForUser(handler[h]) /\ t.subject \in Subjects
    BY <2>1 DEF Inv, RecordOK, Commit, At, Admitting, Tokens
  <2>3. identities \in [Subjects -> [user : Emails, status : Statuses]
                                      \cup {None}]
    BY DEF Inv, TypeOK
  <2>4. CASE handler[h].inserts.identity
    <3>1. identities' = [identities EXCEPT ![t.subject] =
                           [user |-> handler[h].user, status |-> "ACTIVE"]]
      BY <2>1, <2>4, CommitWrites
    <3> QED
      BY <2>2, <2>3, <3>1
  <2>5. CASE ~handler[h].inserts.identity
    BY <2>1, <2>2, <2>5, CommitWrites DEF ActsForUser
  <2> QED
    BY <2>4, <2>5
<1> QED
  BY <1>1, Invariance, PTL DEF Spec, AnswersConverge

(* Account linking is only ever asked for with somebody else's account. *)
THEOREM LinksAreForStrangers == Spec => LinkRequiredOnlyForStrangers
<1>1. Inv /\ [Next]_vars =>
        [\A h \in Handlers :
           Answered(h, "AUTH_ACCOUNT_LINK_REQUIRED") =>
             /\ users[handler[h].email] # None
             /\ ~ (/\ Found(h)
                   /\ identities[Token(h).subject].user
                        = handler[h].email)]_vars
  <2> SUFFICES ASSUME Inv, [Next]_vars, NEW h \in Handlers,
                      Answered(h, "AUTH_ACCOUNT_LINK_REQUIRED")
               PROVE  users[handler[h].email] # None /\ ~Found(h)
    OBVIOUS
  <2>1. ResolveEmailConflict(h) /\ ~Found(h)
    BY WhoAnswers
  <2> QED
    BY <2>1 DEF Inv, RecordOK, ResolveEmailConflict, At
<1> QED
  BY <1>1, Invariance, PTL DEF Spec, LinkRequiredOnlyForStrangers

(* A reused or new session is not revoked when its answer goes out. *)
THEOREM AnsweredSessionsAreLive == Spec => ReusedSessionIsLive
<1>1. Inv /\ [Next]_vars =>
        [\A h \in Handlers, token \in Tokens :
           Admitted(h, token) => ~sessions'[token].revoked]_vars
  <2> SUFFICES ASSUME Inv, [Next]_vars, NEW h \in Handlers,
                      NEW t \in Tokens, Admitted(h, t)
               PROVE  ~sessions'[t].revoked
    OBVIOUS
  <2>1. Commit(h) /\ handler[h].token = t
    BY WhoAnswers DEF Admitted, Token
  <2>2. AdmitsOnce(handler[h]) /\ handler[h].pc = "Commit"
    BY <2>1 DEF Inv, RecordOK, Commit, At, Admitting
  <2>3. sessions \in [Tokens -> SessionRows \cup {None}]
    BY DEF Inv, TypeOK
  <2>4. t \in DOMAIN sessions
    BY <2>3
  <2>5. /\ handler[h].inserts.session # None =>
             sessions' = [sessions EXCEPT ![t] = handler[h].inserts.session]
        /\ handler[h].inserts.session = None => sessions' = sessions
    BY <2>1, CommitWrites
  <2>6. \/ /\ handler[h].inserts.session # None
           /\ ~handler[h].inserts.session.revoked
        \/ handler[h].inserts.session = None /\ ~sessions[t].revoked
    BY <2>1, <2>2 DEF AdmitsOnce
  <2> QED
    BY <2>4, <2>5, <2>6
<1> QED
  BY <1>1, Invariance, PTL DEF Spec, ReusedSessionIsLive

(* A known identity that is answered can act at once: nothing it rests on  *)
(* was switched off while the request was under way.                       *)
THEOREM KnownIdentitiesCanAct == Spec => KnownIdentityCanAct
<1>1. Inv /\ [Next]_vars =>
        [\A h \in Handlers, token \in Tokens :
           Admitted(h, token) /\ handler[h].email = None =>
             \/ ResolvesPrincipal(token)'
             \/ sessions'[token].expires <= now]_vars
  <2> SUFFICES ASSUME Inv, [Next]_vars, NEW h \in Handlers,
                      NEW t \in Tokens, Admitted(h, t),
                      handler[h].email = None
               PROVE  \/ ResolvesPrincipal(t)'
                      \/ sessions'[t].expires <= now
    OBVIOUS
  <2>1. Commit(h) /\ handler[h].token = t /\ now' = now
    BY WhoAnswers DEF Admitted, Token, Commit
  <2>2. /\ AdmitsOnce(handler[h]) /\ handler[h].pc = "Commit"
        /\ ActsForUser(handler[h]) /\ HoldsKnownIdentity(handler[h])
    BY <2>1 DEF Inv, RecordOK, Commit, At, Admitting
  <2>3. users' = users /\ identities' = identities
        /\ identities[t.subject] # None
    <3>1. ~handler[h].inserts.identity
      BY <2>2 DEF ActsForUser
    <3> QED
      BY <2>1, <2>2, <3>1, CommitWrites DEF ActsForUser
  <2>4. Active(t.subject)'
    BY <2>1, <2>2, <2>3 DEF HoldsKnownIdentity, Active
  <2>5. sessions'[t] # None /\ ~sessions'[t].revoked
    <3>1. sessions \in [Tokens -> SessionRows \cup {None}]
      BY DEF Inv, TypeOK
    <3> QED
      BY <2>1, <2>2, <3>1, CommitWrites DEF AdmitsOnce
  <2>6. sessions'[t].expires \in Int /\ now \in Int
    <3>1. TypeOK /\ TypeOK'
      BY NextKeeps DEF Inv
    <3> QED
      BY <3>1, <2>5 DEF TypeOK, SessionRows
  <2> QED
    BY <2>1, <2>3, <2>4, <2>5, <2>6 DEF ResolvesPrincipal
<1> QED
  BY <1>1, Invariance, PTL DEF Spec, KnownIdentityCanAct

-----------------------------------------------------------------------------
(* The safety half of ProvisioningEnds. *)

(* The next statement of h waits until g has ended: g has inserted the     *)
(* unique key that h is about to insert.                                   *)
WaitsFor(h, g) ==
  /\ h # g
  /\ \/ At(h, "InsertUser") /\ handler[g].inserts.user = handler[h].email
     \/ /\ At(h, "InsertIdentity")
        /\ handler[g].inserts.identity
        /\ Token(g).subject = Token(h).subject
     \/ /\ At(h, "InsertSession")
        /\ Token(g) = Token(h)
        /\ handler[g].inserts.session # None

(* Among requests that run there is always one that waits for none of the  *)
(* others.                                                                 *)
NoCircularWait ==
  \A S \in SUBSET Handlers : S # {} =>
    \E h \in S : \A g \in S : ~ WaitsFor(h, g)

(* The order in which every request inserts its unique keys. *)
KeyStage(statement) ==
  IF statement = "InsertUser" THEN 1
  ELSE IF statement = "InsertIdentity" THEN 2
  ELSE IF statement = "InsertSession" THEN 3
  ELSE 4

LEMMA WaitersAreBehind ==
  ASSUME Inv, NEW h \in Handlers, NEW g \in Handlers, WaitsFor(h, g)
  PROVE  /\ KeyStage(handler[h].pc) < KeyStage(handler[g].pc)
         /\ KeyStage(handler[h].pc) \in {1, 2, 3}
<1> DEFINE x == handler[h]
           y == handler[g]
<1>1. /\ x \in HandlerRecords /\ RecordOK(x)
      /\ y \in HandlerRecords /\ RecordOK(y)
  BY DEF Inv, TypeOK
<1>2. /\ y.inserts # NoInserts => y.pc \in Admitting \cup {"InsertIdentity"}
      /\ y.inserts.identity => y.pc \in Admitting
      /\ y.inserts.session # None => y.pc \in {"InsertAudit", "Commit"}
  BY <1>1 DEF RecordOK, AdmitsOnce, NoInserts, Admitting
<1>3. CASE x.pc = "InsertUser" /\ y.inserts.user = x.email
  <2>1. y.inserts.user # None
    BY <1>1, <1>3 DEF RecordOK, HasEmail
  <2>2. y.pc \in Admitting \cup {"InsertIdentity"}
    BY <1>2, <2>1 DEF NoInserts
  <2> QED
    BY ONLY <1>3, <2>2 DEF KeyStage, Admitting
<1>4. CASE x.pc = "InsertIdentity" /\ y.inserts.identity
  BY ONLY <1>2, <1>4 DEF KeyStage, Admitting
<1>5. CASE x.pc = "InsertSession" /\ y.inserts.session # None
  BY ONLY <1>2, <1>5 DEF KeyStage
<1> QED
  BY <1>3, <1>4, <1>5 DEF WaitsFor, At

(* Every request inserts the user, the identity and the session in this    *)
(* order, so whoever is waited for is at a later key and the requests that *)
(* race on three unique keys cannot deadlock (_create_identity_or_resolve_ *)
(* race, _admit_session).                                                  *)
THEOREM NobodyWaitsInACircle == Spec => []NoCircularWait
<1>1. ASSUME Inv, NEW S \in SUBSET Handlers, S # {},
             \A h \in S : \E g \in S : WaitsFor(h, g)
      PROVE  FALSE
  <2> DEFINE stage(h) == KeyStage(handler[h].pc)
  <2>1. \A h \in S : \E g \in S : stage(h) < stage(g) /\ stage(h) \in {1, 2, 3}
    BY <1>1, WaitersAreBehind
  <2> HIDE DEF stage
  <2>2. PICK a \in S : TRUE
    BY <1>1
  <2>3. PICK b \in S : stage(a) < stage(b)
    BY <2>1
  <2>4. PICK c \in S : stage(b) < stage(c)
    BY <2>1
  <2>5. PICK d \in S : stage(c) < stage(d)
    BY <2>1
  <2>6. /\ stage(a) \in {1, 2, 3} /\ stage(b) \in {1, 2, 3}
        /\ stage(c) \in {1, 2, 3} /\ stage(d) \in {1, 2, 3}
    BY <2>1
  <2> QED
    BY ONLY <2>3, <2>4, <2>5, <2>6
<1>2. Inv => NoCircularWait
  BY <1>1 DEF NoCircularWait
<1> QED
  BY <1>2, Invariance, PTL

(* How far a request has come. *)
Stage(statement) ==
  IF statement = "FindIdentity" THEN 1
  ELSE IF statement \in {"LockActiveIdentity", "FetchProfile"} THEN 2
  ELSE IF statement = "FindExactIdentity" THEN 3
  ELSE IF statement = "InsertUser" THEN 4
  ELSE IF statement \in {"ResolveEmailConflict", "InsertIdentity"} THEN 5
  ELSE IF statement = "ResolveIdentityRace" THEN 6
  ELSE IF statement = "InsertSession" THEN 7
  ELSE IF statement \in {"InsertAudit", "FindSession"} THEN 8
  ELSE 9

(* Whatever changes for a running request either ends it or takes it to a  *)
(* later statement: no conflict is retried, and nothing another request or *)
(* an administrator does takes a request back.                             *)
RequestsOnlyAdvance ==
  [][\A h \in Handlers :
       Running(h) /\ handler'[h] # handler[h] /\ Running(h)' =>
         Stage(handler[h].pc) < Stage(handler'[h].pc)]_vars

LEMMA StepAdvances ==
  ASSUME Inv, NEW h \in Handlers, NEW k \in Handlers, NEW r, Step(k, r),
         \/ ~ Running(k) \/ r.pc = "idle"
         \/ Stage(handler[k].pc) < Stage(r.pc),
         Running(h), handler'[h] # handler[h], Running(h)'
  PROVE  Stage(handler[h].pc) < Stage(handler'[h].pc)
BY OnlyItsOwn DEF Running

LEMMA AnswerAdvances ==
  ASSUME Inv, NEW h \in Handlers, NEW k \in Handlers, NEW code,
         Answer(k, code),
         Running(h), handler'[h] # handler[h], Running(h)'
  PROVE  FALSE
<1> DEFINE r == [Idle EXCEPT !.answer = code]
<1>1. r.pc = "idle"
  BY DEF Idle
<1>2. handler'[h] = IF h = k THEN r ELSE handler[h]
  BY OnlyItsOwn DEF Answer
<1> QED
  BY <1>1, <1>2 DEF Running

LEMMA RequiringAdvances ==
  ASSUME Inv, NEW h \in Handlers, NEW k \in Handlers, NEW started,
         RequireActive(k, started),
         handler[k].pc \in {"FindExactIdentity", "ResolveEmailConflict",
                            "ResolveIdentityRace"},
         Running(h), handler'[h] # handler[h], Running(h)'
  PROVE  Stage(handler[h].pc) < Stage(handler'[h].pc)
<1> DEFINE r == [handler[k] EXCEPT
                   !.pc = "InsertSession", !.began = started,
                   !.user = identities[Token(k).subject].user]
<1>1. r.pc = "InsertSession"
  BY DEF Inv, TypeOK, HandlerRecords
<1>2. Stage(handler[k].pc) < Stage(r.pc)
  BY <1>1 DEF Stage
<1>3. Step(k, r) \/ Answer(k, "AUTH_INVALID_CREDENTIALS")
  BY DEF RequireActive
<1> HIDE DEF r
<1> QED
  BY <1>2, <1>3, StepAdvances, AnswerAdvances

LEMMA ProgressAdvances ==
  ASSUME Inv, NEW h \in Handlers, NEW k \in Handlers, Progress(k),
         Running(h), handler'[h] # handler[h], Running(h)'
  PROVE  Stage(handler[h].pc) < Stage(handler'[h].pc)
<1>0. handler[k] \in HandlerRecords
  BY DEF Inv, TypeOK
<1>1. ASSUME NEW r, NEW to, Step(k, r), r.pc = to,
             Stage(handler[k].pc) < Stage(to)
      PROVE  Stage(handler[h].pc) < Stage(handler'[h].pc)
  BY <1>1, StepAdvances
<1>2. CASE FindIdentity(k)
  <2> DEFINE r == [handler[k] EXCEPT
                     !.pc = IF Found(k) THEN "LockActiveIdentity"
                                        ELSE "FetchProfile"]
  <2>1. r.pc \in {"LockActiveIdentity", "FetchProfile"}
    BY <1>0 DEF HandlerRecords
  <2>2. Step(k, r) \/ Answer(k, "AUTH_INVALID_CREDENTIALS")
    BY <1>2 DEF FindIdentity
  <2> HIDE DEF r
  <2>3. Stage(handler[k].pc) < Stage(r.pc)
    BY <1>2, <2>1 DEF Stage, FindIdentity, At
  <2> QED
    BY <1>1, <2>2, <2>3, AnswerAdvances
<1>3. CASE LockActiveIdentity(k)
  <2> DEFINE subject == Token(k).subject
             user == identities[subject].user
             r == [handler[k] EXCEPT
                     !.pc = "InsertSession", !.began = now, !.user = user,
                     !.shared = {IdentityRow(subject), UserRow(user)}]
  <2>1. r.pc = "InsertSession"
    BY <1>0 DEF HandlerRecords
  <2>2. Step(k, r) \/ Answer(k, "AUTH_INVALID_CREDENTIALS")
    BY <1>3 DEF LockActiveIdentity
  <2> HIDE DEF r
  <2>3. Stage(handler[k].pc) < Stage(r.pc)
    BY <1>3, <2>1 DEF Stage, LockActiveIdentity, At
  <2> QED
    BY <1>1, <2>2, <2>3, AnswerAdvances
<1>4. CASE FetchProfile(k)
  <2>1. PICK email \in EmailsOf[Token(k).subject] :
          Step(k, [handler[k] EXCEPT !.pc = "FindExactIdentity",
                                     !.email = email])
    BY <1>4 DEF FetchProfile
  <2> DEFINE r == [handler[k] EXCEPT !.pc = "FindExactIdentity",
                                     !.email = email]
  <2>2. r.pc = "FindExactIdentity"
    BY <1>0 DEF HandlerRecords
  <2>3. Step(k, r)
    BY <2>1
  <2> HIDE DEF r
  <2>4. Stage(handler[k].pc) < Stage(r.pc)
    BY <1>4, <2>2 DEF Stage, FetchProfile, At
  <2> QED
    BY <1>1, <2>3, <2>4
<1>5. CASE ProfileUnusable(k)
  BY <1>5, AnswerAdvances DEF ProfileUnusable
<1>6. CASE FindExactIdentity(k)
  <2> DEFINE r == [handler[k] EXCEPT !.pc = "InsertUser", !.began = now]
  <2>1. r.pc = "InsertUser"
    BY <1>0 DEF HandlerRecords
  <2>2. Step(k, r) \/ RequireActive(k, now)
    BY <1>6 DEF FindExactIdentity
  <2> HIDE DEF r
  <2>3. handler[k].pc = "FindExactIdentity"
    BY <1>6 DEF FindExactIdentity, At
  <2>4. Stage(handler[k].pc) < Stage(r.pc)
    BY <2>1, <2>3 DEF Stage
  <2> QED
    BY <1>1, <2>2, <2>3, <2>4, RequiringAdvances
<1>7. CASE InsertUser(k)
  <2> DEFINE conflict == [handler[k] EXCEPT !.pc = "ResolveEmailConflict"]
             r == [handler[k] EXCEPT !.pc = "InsertIdentity",
                                     !.inserts.user = handler[k].email]
  <2>1. conflict.pc = "ResolveEmailConflict" /\ r.pc = "InsertIdentity"
    BY <1>0 DEF HandlerRecords
  <2>2. Step(k, conflict) \/ Step(k, r)
    BY <1>7 DEF InsertUser
  <2> HIDE DEF conflict, r
  <2>3. /\ Stage(handler[k].pc) < Stage(conflict.pc)
        /\ Stage(handler[k].pc) < Stage(r.pc)
    BY <1>7, <2>1 DEF Stage, InsertUser, At
  <2> QED
    BY <1>1, <2>2, <2>3
<1>8. CASE ResolveEmailConflict(k)
  <2>1. \/ RequireActive(k, handler[k].began)
        \/ Answer(k, "AUTH_ACCOUNT_LINK_REQUIRED")
    BY <1>8 DEF ResolveEmailConflict
  <2> QED
    BY <1>8, <2>1, RequiringAdvances, AnswerAdvances
    DEF ResolveEmailConflict, At
<1>9. CASE InsertIdentity(k)
  <2> DEFINE lost == [handler[k] EXCEPT !.pc = "ResolveIdentityRace",
                                        !.inserts = NoInserts]
             r == [handler[k] EXCEPT !.pc = "InsertSession",
                                     !.inserts.identity = TRUE,
                                     !.user = handler[k].email]
  <2>1. lost.pc = "ResolveIdentityRace" /\ r.pc = "InsertSession"
    BY <1>0 DEF HandlerRecords
  <2>2. Step(k, lost) \/ Step(k, r)
    BY <1>9 DEF InsertIdentity
  <2> HIDE DEF lost, r
  <2>3. /\ Stage(handler[k].pc) < Stage(lost.pc)
        /\ Stage(handler[k].pc) < Stage(r.pc)
    BY <1>9, <2>1 DEF Stage, InsertIdentity, At
  <2> QED
    BY <1>1, <2>2, <2>3
<1>10. CASE ResolveIdentityRace(k)
  <2>1. RequireActive(k, handler[k].began) \/ Answer(k, "INTERNAL_ERROR")
    BY <1>10 DEF ResolveIdentityRace
  <2> QED
    BY <1>10, <2>1, RequiringAdvances, AnswerAdvances
    DEF ResolveIdentityRace, At
<1>11. CASE InsertSession(k)
  <2> DEFINE conflict == [handler[k] EXCEPT !.pc = "FindSession"]
             r == [handler[k] EXCEPT !.pc = "InsertAudit",
                                     !.inserts.session = NewSession(k)]
  <2>1. conflict.pc = "FindSession" /\ r.pc = "InsertAudit"
    BY <1>0 DEF HandlerRecords
  <2>2. Step(k, conflict) \/ Step(k, r)
    BY <1>11 DEF InsertSession
  <2> HIDE DEF conflict, r
  <2>3. /\ Stage(handler[k].pc) < Stage(conflict.pc)
        /\ Stage(handler[k].pc) < Stage(r.pc)
    BY <1>11, <2>1 DEF Stage, InsertSession, At
  <2> QED
    BY <1>1, <2>2, <2>3
<1>12. CASE InsertAudit(k)
  <2> DEFINE r == [handler[k] EXCEPT !.pc = "Commit", !.inserts.creation = 1]
  <2>1. r.pc = "Commit" /\ Step(k, r)
    BY <1>0, <1>12 DEF HandlerRecords, InsertAudit
  <2> HIDE DEF r
  <2>2. Stage(handler[k].pc) < Stage(r.pc)
    BY <1>12, <2>1 DEF Stage, InsertAudit, At
  <2> QED
    BY <1>1, <2>1, <2>2
<1>13. CASE FindSession(k)
  <2> DEFINE r == [handler[k] EXCEPT
                     !.pc = "Commit",
                     !.shared = handler[k].shared \cup {SessionRow(Token(k))}]
  <2>1. r.pc = "Commit"
    BY <1>0 DEF HandlerRecords
  <2>2. Step(k, r) \/ Answer(k, "AUTH_INVALID_CREDENTIALS")
    BY <1>13 DEF FindSession
  <2> HIDE DEF r
  <2>3. Stage(handler[k].pc) < Stage(r.pc)
    BY <1>13, <2>1 DEF Stage, FindSession, At
  <2> QED
    BY <1>1, <2>2, <2>3, AnswerAdvances
<1>14. CASE Commit(k)
  <2> DEFINE r == [Idle EXCEPT !.answer = "ADMITTED"]
  <2>1. r.pc = "idle" /\ Step(k, r)
    BY <1>14 DEF Idle, Commit
  <2> HIDE DEF r
  <2> QED
    BY <2>1, StepAdvances
<1> QED
  BY <1>2, <1>3, <1>4, <1>5, <1>6, <1>7, <1>8, <1>9, <1>10, <1>11, <1>12,
     <1>13, <1>14 DEF Progress

(* A request runs at most nine statements and never returns to one.  With  *)
(* NoCircularWait, a request can only be kept from its end by a            *)
(* transaction that itself stands still.                                   *)
THEOREM ProvisioningOnlyAdvances == Spec => RequestsOnlyAdvance
<1>1. Inv /\ [Next]_vars =>
        [\A h \in Handlers :
           Running(h) /\ handler'[h] # handler[h] /\ Running(h)' =>
             Stage(handler[h].pc) < Stage(handler'[h].pc)]_vars
  <2> SUFFICES ASSUME Inv, [Next]_vars, NEW h \in Handlers, Running(h),
                      handler'[h] # handler[h], Running(h)'
               PROVE  Stage(handler[h].pc) < Stage(handler'[h].pc)
    OBVIOUS
  <2>1. ASSUME NEW k \in Handlers, NEW t \in Tokens, Begin(k, t)
        PROVE  Stage(handler[h].pc) < Stage(handler'[h].pc)
    BY <2>1, StepAdvances DEF Begin
  <2>2. ASSUME NEW k \in Handlers, Abort(k) PROVE FALSE
    BY <2>2, AnswerAdvances DEF Abort
  <2>3. ~ UNCHANGED handler
    OBVIOUS
  <2> QED
    BY <2>1, <2>2, <2>3, ProgressAdvances
      DEF Next, SetIdentityStatus, SetUserStatus, Revoke, Tick, vars
<1> QED
  BY <1>1, Invariance, PTL DEF Spec, RequestsOnlyAdvance
=============================================================================
