----------------------------- MODULE SessionSafety -----------------------------
(* What session provisioning promises (ADR 0017 and its contract). *)
EXTENDS SessionProvisioning

Statuses == {"ACTIVE", "DISABLED"}
Statements ==
  {"FindIdentity", "LockActiveIdentity", "FetchProfile", "FindExactIdentity",
   "InsertUser", "ResolveEmailConflict", "InsertIdentity",
   "ResolveIdentityRace", "InsertSession", "InsertAudit", "FindSession",
   "Commit"}
Answers ==
  {"ADMITTED", "ABORTED", "AUTH_INVALID_CREDENTIALS",
   "AUTH_PROVIDER_UNAVAILABLE", "AUTH_EMAIL_VERIFICATION_REQUIRED",
   "AUTH_ACCOUNT_LINK_REQUIRED"}
SessionRows == [expires : Ttl .. MaxTime + Ttl, revoked : BOOLEAN]
Rows ==
  {UserRow(e) : e \in Emails} \cup {IdentityRow(s) : s \in Subjects}
  \cup {SessionRow(t) : t \in Tokens}

Inserts ==
  [user : Emails \cup {None}, identity : BOOLEAN,
   session : SessionRows \cup {None}, creation : {0, 1}]
HandlerRecords ==
  [token : Tokens \cup {None}, pc : Statements \cup {"idle"},
   email : Emails \cup {None}, user : Emails \cup {None},
   began : 0 .. MaxTime, inserts : Inserts, shared : SUBSET Rows,
   answer : Answers \cup {None}]

(* The tables and the handlers hold values the code can store; a session   *)
(* lives for the whole lifetime from the start of its transaction, and no  *)
(* request ends in the RuntimeError of an identity race without a winner.  *)
TypeOK ==
  /\ users \in [Emails -> Statuses \cup {None}]
  /\ identities \in [Subjects ->
       [user : Emails, status : Statuses] \cup {None}]
  /\ sessions \in [Tokens -> SessionRows \cup {None}]
  /\ creations \in [Tokens -> Nat]
  /\ now \in 0 .. MaxTime
  /\ handler \in [Handlers -> HandlerRecords]

(* The request of a handler is answered in this step. *)
Answered(h, code) == Running(h) /\ ~Running(h)' /\ handler'[h].answer = code
Admitted(h, token) == Token(h) = token /\ Answered(h, "ADMITTED")

-----------------------------------------------------------------------------
(* A user made by a first login belongs to an identity: the loser of an    *)
(* identity race, and a request that ends half way, leave no user behind   *)
(* (_create_identity_or_resolve_race rolls its savepoint back).            *)
NoOrphanUsers ==
  \A email \in Emails \ KnownEmails :
    users[email] # None =>
      \E subject \in Subjects :
        identities[subject] # None /\ identities[subject].user = email

(* One AUTH_SESSION_CREATED event per session and none without a session,  *)
(* however many requests race to admit it or repeat it (_admit_session).   *)
OneCreationEvent ==
  \A token \in Tokens :
    creations[token] = IF sessions[token] = None THEN 0 ELSE 1

(* Provisioning never moves the absolute expiry of a session and never     *)
(* clears its revocation (ON CONFLICT DO NOTHING).                         *)
AdmissionIsFinal ==
  [][\A token \in Tokens :
       sessions[token] # None =>
         /\ sessions'[token].expires = sessions[token].expires
         /\ sessions[token].revoked => sessions'[token].revoked]_vars

(* Every admitted request acts for the user its external identity belongs  *)
(* to, also when another request of the identity created that user from    *)
(* another profile meanwhile.                                              *)
AnswersConverge ==
  [][\A h \in Handlers, token \in Tokens :
       Admitted(h, token) =>
         identities'[token.subject].user = handler[h].user]_vars

(* Nobody is asked to link an account with itself: the email that stopped  *)
(* the first login belongs to a user that is not the requester's own, even *)
(* when the requester's identity has just been created by a racing request.*)
LinkRequiredOnlyForStrangers ==
  [][\A h \in Handlers :
       Answered(h, "AUTH_ACCOUNT_LINK_REQUIRED") =>
         /\ users[handler[h].email] # None
         /\ ~ (/\ Found(h)
               /\ identities[Token(h).subject].user = handler[h].email)]_vars

(* The session of a known identity that provisioning answers with can act  *)
(* at the very moment of the answer, unless its lifetime has just run out: *)
(* neither identity nor user nor session was switched off on the way       *)
(* (admit_existing_identity holds all three FOR SHARE).                    *)
KnownIdentityCanAct ==
  [][\A h \in Handlers, token \in Tokens :
       Admitted(h, token) /\ handler[h].email = None =>
         \/ ResolvesPrincipal(token)'
         \/ sessions'[token].expires <= now]_vars

(* A session that is reused is not revoked when the answer goes out, on    *)
(* whichever path it was found (_FIND_SESSION ... FOR SHARE).              *)
ReusedSessionIsLive ==
  [][\A h \in Handlers, token \in Tokens :
       Admitted(h, token) => ~sessions'[token].revoked]_vars

(* Every request is answered: waiting for the unique keys of others closes *)
(* no cycle, and no conflict is retried for ever.                          *)
ProvisioningEnds == \A h \in Handlers : Running(h) ~> ~Running(h)

(* docs/contracts/control-plane-authentication.md:87-89: a DISABLED        *)
(* identity, or one of a DISABLED user, does not authenticate.             *)
DisabledMustNotAuthenticate ==
  [][\A h \in Handlers, token \in Tokens :
       Admitted(h, token) => Active(token.subject)']_vars
=============================================================================
