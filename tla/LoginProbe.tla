------------------------------ MODULE LoginProbe ------------------------------
(***************************************************************************)
(* scripts/auth/workos_live_probe.py: a developer logs in at WorkOS in a   *)
(* browser, the probe receives the authorization code on a loopback port,  *)
(* exchanges it, and drives the BFF through provisioning, reuse and        *)
(* GET /v1/me.  Its verdict is taken as proof that a deployment works.     *)
(*                                                                         *)
(* The single-threaded callback server is open to whatever the browser     *)
(* sends: the redirect of this login, any number of times, the redirect of *)
(* an earlier run whose tab is still open, copies that lost parameters,    *)
(* requests for other paths, and connections that stay silent.  Meanwhile  *)
(* the clock runs, and the BFF may end the session between two calls.      *)
(***************************************************************************)
EXTENDS Integers, Sequences

CONSTANTS
  Timeout,   \* bound: ticks of the clock until --callback-timeout-seconds
  None       \* a parameter that is absent

ASSUME TimeoutAssumption == Timeout \in Nat

(* Two authorization requests: each has a state and, granted, a code.      *)
Logins == {"own", "earlier"}

ASSUME NoneAssumption == None \notin Logins

Callbacks ==
  [code : Logins \cup {None}, state : Logins \cup {None}, error : BOOLEAN]
Nothing == [code |-> None, state |-> None, error |-> FALSE]

(* What the probe is there to find out about a deployment.  bff is how the *)
(* BFF behaves: as it should, not ready, extending the expiry of a reused  *)
(* session, provisioning a second user, or resolving somebody else.        *)
Deployments ==
  [client : BOOLEAN, issuer : BOOLEAN, key : BOOLEAN, browser : BOOLEAN,
   bff : {"right", "unready", "extending", "splitting", "confusing"}]

VARIABLES
  deployment,  \* the configuration and the servers under test
  login,       \* the answer of WorkOS to each authorization request
  ended,       \* the session was revoked, or the BFF is gone
  pc,          \* where run_probe is
  clock,       \* time since the deadline was set
  capture,     \* CallbackCapture: the parameters of the last callback
  exchanged,   \* codes sent to the token endpoint
  answers,     \* what the BFF has answered: users and expiries
  disturbed    \* a callback was not the complete redirect of this login

environment == <<deployment, login, ended, disturbed>>
vars == <<environment, pc, clock, capture, exchanged, answers>>

-----------------------------------------------------------------------------
(* The browser and the servers. *)

(* The redirect of a login carries its state with a code or an error.      *)
Redirect(of) ==
  CASE login[of] = "granted" -> [code |-> of, state |-> of, error |-> FALSE]
    [] login[of] = "denied" -> [code |-> None, state |-> of, error |-> TRUE]
    [] OTHER -> Nothing

(* Copies of a redirect, some of which have lost parameters. *)
Copies(redirect) ==
  {[code |-> IF kept[1] THEN redirect.code ELSE None,
    state |-> IF kept[2] THEN redirect.state ELSE None,
    error |-> kept[3] /\ redirect.error] :
     kept \in BOOLEAN \X BOOLEAN \X BOOLEAN}

Decide ==
  /\ pc \notin {"ready", "open"} /\ login["own"] = "open"
  /\ \E outcome \in {"granted", "denied"} :
       login' = [login EXCEPT !["own"] = outcome]
  /\ UNCHANGED <<deployment, ended, disturbed, pc, clock, capture, exchanged,
                 answers>>

EndSession ==
  /\ ~ended
  /\ ended' = TRUE
  /\ UNCHANGED <<deployment, login, disturbed, pc, clock, capture, exchanged,
                 answers>>

(* Answer number n of the BFF about the session of this login. *)
BffUser(n) ==
  CASE deployment.bff = "splitting" /\ n = 2 -> "second"
    [] deployment.bff = "confusing" /\ n = 3 -> "another"
    [] OTHER -> "user"
BffExpiry(n) == IF deployment.bff = "extending" THEN n ELSE 1

-----------------------------------------------------------------------------
(* The probe. *)

Waiting == pc \in {"wait", "handle", "stalled"}
Captured == capture.code # None \/ capture.error

Goto(label) ==
  /\ pc' = label
  /\ UNCHANGED <<environment, clock, capture, exchanged, answers>>

(* verify_bff_readiness runs before the browser is opened. *)
VerifyReadiness ==
  /\ pc = "ready"
  /\ IF deployment.bff = "unready" \/ ended THEN Goto("fail")
     ELSE Goto("open")

(* The server listens before the browser is asked to open the URL; with    *)
(* --print-authorization-url there is nothing that can fail.               *)
OpenBrowser ==
  /\ pc = "open"
  /\ IF deployment.browser THEN Goto("wait") ELSE Goto("fail")

Tick ==
  /\ Waiting /\ clock < Timeout
  /\ clock' = clock + 1
  /\ UNCHANGED <<environment, pc, capture, exchanged, answers>>

(* Fault: the loop never looks at the clock. *)
ListenForever == pc = "wait" /\ ~Captured /\ Goto("handle")

(* The head of the loop: handle_request waits for at most a second.        *)
Listen ==
  /\ pc = "wait" /\ ~Captured
  /\ IF clock >= Timeout THEN Goto("fail") ELSE Goto("handle")

NoRequest == pc = "handle" /\ Goto("wait")

(* A request for another path is answered 404 and captures nothing.        *)
WrongPath == pc = "handle" /\ Goto("wait")

(* Fault: a parameter the callback lacks keeps the value it had. *)
ReadKeepingOthers(callback) ==
  [code |-> IF callback.code = None THEN capture.code ELSE callback.code,
   state |-> IF callback.state = None THEN capture.state ELSE callback.state,
   error |-> callback.error \/ capture.error]

(* do_GET overwrites all three fields of the capture. *)
Read(callback) ==
  [code |-> callback.code, state |-> callback.state, error |-> callback.error]

Callback(of, callback) ==
  /\ pc = "handle"
  /\ callback \in Copies(Redirect(of))
  /\ capture' = Read(callback)
  /\ disturbed' = (disturbed \/ callback # Redirect("own"))
  /\ pc' = "wait"
  /\ UNCHANGED <<deployment, login, ended, clock, exchanged, answers>>

(* The handler has no timeout of its own: a connection that sends nothing  *)
(* keeps the server until the other side closes it.                        *)
Stall == pc = "handle" /\ Goto("stalled")
CloseSilently == pc = "stalled" /\ Goto("wait")

AcceptCallback ==
  /\ pc = "wait" /\ Captured
  /\ ~capture.error /\ capture.state = "own"
  /\ Goto("exchange")

RefuseCallback ==
  /\ pc = "wait" /\ Captured
  /\ capture.error \/ capture.state # "own"
  /\ Goto("fail")

(* WorkOS gives a token for a code and the verifier of its own login. *)
ExchangeCode ==
  /\ pc = "exchange"
  /\ exchanged' = exchanged \cup {capture.code}
  /\ pc' = IF capture.code = "own" THEN "claims" ELSE "fail"
  /\ UNCHANGED <<environment, clock, capture, answers>>

VerifyClaims ==
  /\ pc = "claims"
  /\ IF deployment.client /\ deployment.issuer THEN Goto("lookup")
     ELSE Goto("fail")

LookUpUser ==
  /\ pc = "lookup"
  /\ IF deployment.key THEN Goto("provision") ELSE Goto("fail")

(* A call of the BFF that a session which has ended does not survive.      *)
Call(next) ==
  \/ ended /\ Goto("fail")
  \/ /\ ~ended
     /\ answers' = Append(answers, [user |-> BffUser(Len(answers) + 1),
                                    expires |-> BffExpiry(Len(answers) + 1)])
     /\ pc' = next
     /\ UNCHANGED <<environment, clock, capture, exchanged>>

(* POST /v1/auth/session, twice. *)
PostSession ==
  /\ pc = "provision" /\ Len(answers) < 2
  /\ Call(IF Len(answers) = 1 THEN "reuse" ELSE "provision")

(* The two sessions are compared before anything else is asked.            *)
CompareSessions ==
  /\ pc = "reuse"
  /\ IF answers[2] = answers[1] THEN Goto("me") ELSE Goto("fail")

GetMe == pc = "me" /\ Call("resolve")

(* GET /v1/me answers a user without an expiry.                            *)
CompareUser ==
  /\ pc = "resolve"
  /\ IF answers[3].user = answers[1].user THEN Goto("pass") ELSE Goto("fail")

(* A port in use, or an error of the HTTP client after the readiness       *)
(* check, is not a ProbeError: the run ends with a traceback.              *)
Raise ==
  pc \in {"open", "exchange", "lookup", "provision", "me"} /\ Goto("raised")

Finished == pc \in {"pass", "fail", "raised"}

Probe ==
  \/ VerifyReadiness \/ OpenBrowser \/ Listen \/ NoRequest \/ WrongPath \/ Stall
  \/ \E of \in Logins, callback \in Callbacks : Callback(of, callback)
  \/ AcceptCallback \/ RefuseCallback
  \/ ExchangeCode \/ VerifyClaims \/ LookUpUser
  \/ PostSession \/ CompareSessions \/ GetMe \/ CompareUser \/ Raise

Init ==
  /\ deployment \in Deployments
  /\ login \in [Logins -> {"open", "granted", "denied"}]
  /\ login["own"] = "open"
  /\ ended = FALSE /\ disturbed = FALSE
  /\ pc = "ready" /\ clock = 0 /\ capture = Nothing
  /\ exchanged = {} /\ answers = <<>>

Next == Decide \/ EndSession \/ Tick \/ CloseSilently \/ Probe

(* Time passes, and the script is never stopped for good: each wait for a  *)
(* request and each call ends, with an answer or a timeout.  Nobody has to *)
(* log in, and nobody has to close a connection.                           *)
Spec == Init /\ [][Next]_vars /\ WF_vars(Tick) /\ WF_vars(Probe)

-----------------------------------------------------------------------------
(* Properties. *)

Sound ==
  /\ deployment.client /\ deployment.issuer /\ deployment.key
  /\ deployment.browser /\ deployment.bff = "right"

(* The verdict can be relied on.  PASS is printed only for a deployment    *)
(* that is right in every respect the probe claims to prove, and only for  *)
(* a login of this run; the code of another login is never spent.  FAIL    *)
(* always has a cause outside the probe: repeated redirects and requests   *)
(* for other paths do no harm.                                             *)
VerdictIsJustified ==
  /\ exchanged \subseteq {"own"}
  /\ pc = "pass" => Sound /\ login["own"] = "granted" /\ exchanged = {"own"}
  /\ pc = "fail" =>
       \/ ~Sound \/ ended \/ disturbed
       \/ login["own"] = "denied" \/ clock = Timeout

(* Whatever the browser sends, and if nobody logs in at all, the run comes *)
(* to an end, unless a silent connection is held open for ever.            *)
ProbeEnds == <>Finished \/ <>[](pc = "stalled")
=============================================================================
