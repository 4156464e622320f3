--------------------------- MODULE LoginProbe_proofs ---------------------------
(***************************************************************************)
(* The verdict of the probe, for every timeout: what each place of the     *)
(* script may rely on.                                                     *)
(***************************************************************************)
EXTENDS LoginProbe, TLAPS

USE NoneAssumption, TimeoutAssumption

-----------------------------------------------------------------------------
Verified ==
  {"claims", "lookup", "provision", "reuse", "me", "resolve", "pass"}
Labels ==
  {"ready", "open", "wait", "handle", "stalled", "exchange", "fail", "raised"}
    \cup Verified

Answer == [user : {"user", "second", "another"}, expires : 1..3]

Types ==
  /\ deployment \in Deployments
  /\ login \in [Logins -> {"open", "granted", "denied"}]
  /\ ended \in BOOLEAN /\ disturbed \in BOOLEAN
  /\ pc \in Labels
  /\ clock \in 0..Timeout
  /\ capture \in Callbacks
  /\ answers \in Seq(Answer) /\ Len(answers) <= 3

(* A code comes with the state of its own login or with none, and only     *)
(* from a login that was granted; undisturbed, the capture is the redirect *)
(* of this login.                                                          *)
CaptureOK ==
  /\ capture.code # None =>
       /\ login[capture.code] = "granted"
       /\ capture.state \in {capture.code, None}
  /\ Captured /\ ~disturbed => capture = Redirect("own")

(* What the checks before each place have established. *)
PassedReadiness == pc \notin {"ready", "fail"} => deployment.bff # "unready"

PassedBrowser == pc \notin {"ready", "open", "fail", "raised"} => deployment.browser

PassedExchange ==
  /\ pc = "exchange" => capture.code = "own"
  /\ exchanged \subseteq {"own"}
  /\ pc \in Verified => exchanged = {"own"} /\ login["own"] = "granted"

PassedClaims ==
  pc \in Verified \ {"claims"} => deployment.client /\ deployment.issuer

PassedLookUp ==
  pc \in Verified \ {"claims", "lookup"} => deployment.key

PassedReuse ==
  pc \in {"me", "resolve", "pass"} =>
    deployment.bff \notin {"extending", "splitting"}

Answered ==
  /\ \A n \in 1..Len(answers) :
       answers[n] = [user |-> BffUser(n), expires |-> BffExpiry(n)]
  /\ pc \in {"reuse", "me"} => Len(answers) = 2
  /\ pc \in {"resolve", "pass"} => Len(answers) = 3

Inv ==
  /\ Types /\ CaptureOK
  /\ PassedReadiness /\ PassedBrowser /\ PassedExchange
  /\ PassedClaims /\ PassedLookUp /\ PassedReuse /\ Answered
  /\ VerdictIsJustified

-----------------------------------------------------------------------------
LEMMA Initially == Init => Inv
<1> SUFFICES ASSUME Init PROVE Inv
  OBVIOUS
<1> USE DEF Init
<1>1. Types
  <2>1. Nothing \in Callbacks
    BY DEF Callbacks, Nothing
  <2>2. answers \in Seq(Answer) /\ Len(answers) <= 3
    OBVIOUS
  <2>3. clock \in 0..Timeout /\ pc \in Labels
    BY DEF Labels
  <2> QED
    BY <2>1, <2>2, <2>3 DEF Types
<1>2. CaptureOK
  BY DEF CaptureOK, Captured, Nothing
<1>3. /\ PassedReadiness /\ PassedBrowser /\ PassedExchange /\ PassedClaims
      /\ PassedLookUp /\ PassedReuse /\ Answered
  BY DEF PassedReadiness, PassedBrowser, PassedExchange, PassedClaims,
     PassedLookUp, PassedReuse, Answered, Verified
<1>4. VerdictIsJustified
  BY DEF VerdictIsJustified
<1> QED
  BY <1>1, <1>2, <1>3, <1>4 DEF Inv

(* A step of the probe that only moves on. *)
LEMMA Moves ==
  ASSUME Inv, NEW label \in Labels, Goto(label),
         PassedReadiness', PassedBrowser', PassedExchange', PassedClaims',
         PassedLookUp',
         label \in {"reuse", "me"} => Len(answers) = 2,
         label \in {"resolve", "pass"} => Len(answers) = 3,
         label \in {"me", "resolve", "pass"} =>
           deployment.bff \notin {"extending", "splitting"},
         label = "pass" => Sound,
         label = "fail" =>
           \/ ~Sound \/ ended \/ disturbed
           \/ login["own"] = "denied" \/ clock = Timeout
  PROVE  Inv'
<1> USE DEF Goto, environment, Inv
<1>1. Types'
  BY DEF Types
<1>2. CaptureOK'
  BY DEF CaptureOK, Captured, Redirect
<1>3. Answered' /\ PassedReuse'
  BY DEF Answered, PassedReuse, BffUser, BffExpiry
<1>4. VerdictIsJustified'
  BY DEF VerdictIsJustified, PassedExchange, Verified, Sound
<1> QED
  BY <1>1, <1>2, <1>3, <1>4

LEMMA Redirects ==
  ASSUME Types, NEW of \in Logins, NEW callback \in Copies(Redirect(of))
  PROVE  /\ callback \in Callbacks
         /\ callback.code # None =>
              /\ callback.code = of /\ login[of] = "granted"
              /\ callback.state \in {of, None}
<1>1. \/ Redirect(of) = [code |-> of, state |-> of, error |-> FALSE]
           /\ login[of] = "granted"
      \/ Redirect(of) = [code |-> None, state |-> of, error |-> TRUE]
      \/ Redirect(of) = [code |-> None, state |-> None, error |-> FALSE]
  BY DEF Redirect, Nothing, Types
<1>2. \E keptCode, keptState, keptError \in BOOLEAN :
        callback = [code |-> IF keptCode THEN Redirect(of).code ELSE None,
                    state |-> IF keptState THEN Redirect(of).state ELSE None,
                    error |-> keptError /\ Redirect(of).error]
  BY DEF Copies
<1> QED
  BY <1>1, <1>2 DEF Callbacks

LEMMA Calls ==
  ASSUME Inv, NEW of \in Logins, NEW callback \in Callbacks, Callback(of, callback)
  PROVE  Inv'
<1> USE DEF Callback, Inv
<1>1. capture' = callback /\ pc = "handle" /\ pc' = "wait"
  BY DEF Read, Callbacks
<1>2. /\ callback.code # None =>
           /\ login[callback.code] = "granted"
           /\ callback.state \in {callback.code, None}
  BY Redirects
<1>3. Types'
  BY <1>1 DEF Types, Labels
<1>4. CaptureOK'
  BY <1>1, <1>2 DEF CaptureOK, Captured, Redirect
<1>5. /\ PassedReadiness' /\ PassedBrowser' /\ PassedExchange' /\ PassedClaims'
      /\ PassedLookUp' /\ VerdictIsJustified'
  BY <1>1 DEF PassedReadiness, PassedBrowser, PassedExchange, PassedClaims,
     PassedLookUp, VerdictIsJustified, Verified, Sound
<1>6. Answered' /\ PassedReuse'
  BY <1>1 DEF Answered, PassedReuse, BffUser, BffExpiry
<1> QED
  BY <1>3, <1>4, <1>5, <1>6

LEMMA Exchanges ==
  ASSUME Inv, ExchangeCode
  PROVE  Inv'
<1> USE DEF ExchangeCode, Inv, environment
<1>1. capture.code = "own" /\ login["own"] = "granted" /\ pc' = "claims"
      /\ exchanged' = {"own"}
  BY DEF PassedExchange, CaptureOK, Logins
<1>2. Types' /\ CaptureOK'
  BY <1>1 DEF Types, Labels, Verified, CaptureOK, Captured, Redirect
<1>3. /\ PassedReadiness' /\ PassedBrowser' /\ PassedExchange' /\ PassedClaims'
      /\ PassedLookUp' /\ VerdictIsJustified'
  BY <1>1 DEF PassedReadiness, PassedBrowser, PassedExchange, PassedClaims,
     PassedLookUp, VerdictIsJustified, Verified, Sound
<1>4. Answered' /\ PassedReuse'
  BY <1>1 DEF Answered, PassedReuse, BffUser, BffExpiry
<1> QED
  BY <1>2, <1>3, <1>4

(* One more answer of the BFF is the one that Answered expects.            *)
LEMMA Answers ==
  ASSUME Inv, NEW next \in {"provision", "reuse", "resolve"}, Call(next),
         pc \in {"provision", "me"}, Len(answers) < 3,
         next = "reuse" => Len(answers) = 1,
         next = "resolve" => pc = "me" /\ Len(answers) = 2
  PROVE  Inv'
<1> USE DEF Inv
<1>1. CASE ended /\ Goto("fail")
  <2>1. /\ PassedReadiness' /\ PassedBrowser' /\ PassedExchange' /\ PassedClaims'
        /\ PassedLookUp'
    BY <1>1 DEF Goto, environment, PassedReadiness, PassedBrowser, PassedExchange,
       PassedClaims, PassedLookUp, Verified
  <2> QED
    BY <1>1, <2>1, Moves DEF Labels
<1>2. CASE ~(ended /\ Goto("fail"))
  <2> DEFINE n == Len(answers) + 1
             answer == [user |-> BffUser(n), expires |-> BffExpiry(n)]
  <2>1. /\ answers' = Append(answers, answer) /\ pc' = next
        /\ UNCHANGED <<environment, clock, capture, exchanged>>
        /\ answers \in Seq(Answer) /\ n \in 1..3
    BY <1>2 DEF Call, Types
  <2>2. answer \in Answer
    <3>1. /\ BffUser(n) \in {"user", "second", "another"}
          /\ BffExpiry(n) \in 1..3
      BY <2>1 DEF BffUser, BffExpiry
    <3> QED
      BY <3>1 DEF Answer
  <2>3. /\ answers' \in Seq(Answer) /\ Len(answers') = n
        /\ \A i \in 1..n : answers'[i] = IF i = n THEN answer ELSE answers[i]
    BY <2>1, <2>2
  <2>4. Types' /\ CaptureOK'
    BY <2>1, <2>3 DEF Types, Labels, Verified, environment, CaptureOK, Captured,
       Redirect
  <2>5. /\ PassedReadiness' /\ PassedBrowser' /\ PassedExchange' /\ PassedClaims'
        /\ PassedLookUp' /\ PassedReuse' /\ VerdictIsJustified'
    BY <2>1 DEF environment, PassedReadiness, PassedBrowser, PassedExchange,
       PassedClaims, PassedLookUp, PassedReuse, VerdictIsJustified, Verified, Sound
  <2>6. Answered'
    BY <2>1, <2>3 DEF Answered, environment, BffUser, BffExpiry
  <2> QED
    BY <2>4, <2>5, <2>6
<1> QED
  BY <1>1, <1>2

LEMMA Provisions ==
  ASSUME Inv, PostSession
  PROVE  Inv'
<1>1. Len(answers) \in Nat
  BY DEF Inv, Types
<1> QED
  BY <1>1, Answers DEF PostSession

LEMMA Resolves ==
  ASSUME Inv, GetMe
  PROVE  Inv'
<1>1. Len(answers) = 2
  BY DEF Inv, Answered, GetMe
<1> QED
  BY <1>1, Answers DEF GetMe

(* Two sessions agree unless the BFF extends the first or provisions a     *)
(* second user.                                                            *)
LEMMA ComparesSessions ==
  ASSUME Inv, CompareSessions
  PROVE  Inv'
<1> USE DEF Inv
<1>1. pc = "reuse" /\ Len(answers) = 2
  BY DEF CompareSessions, Answered
<1>2. /\ answers[1] = [user |-> BffUser(1), expires |-> BffExpiry(1)]
      /\ answers[2] = [user |-> BffUser(2), expires |-> BffExpiry(2)]
  BY <1>1 DEF Answered
<1>3. answers[2] = answers[1]
        <=> BffUser(2) = BffUser(1) /\ BffExpiry(2) = BffExpiry(1)
  BY <1>2
<1>4. answers[2] = answers[1] <=> deployment.bff \notin {"extending", "splitting"}
  BY <1>3 DEF BffUser, BffExpiry
<1>5. ASSUME NEW label \in {"me", "fail"}, Goto(label)
      PROVE  /\ PassedReadiness' /\ PassedBrowser' /\ PassedExchange'
             /\ PassedClaims' /\ PassedLookUp'
  BY <1>1, <1>5 DEF Goto, environment, PassedReadiness, PassedBrowser,
     PassedExchange, PassedClaims, PassedLookUp, Verified
<1>6. CASE Goto("me") /\ answers[2] = answers[1]
  BY <1>1, <1>4, <1>5, <1>6, Moves DEF Labels, Verified
<1>7. CASE Goto("fail") /\ answers[2] # answers[1]
  <2>1. ~Sound
    BY <1>4, <1>7 DEF Sound
  <2> QED
    BY <1>1, <1>5, <1>7, <2>1, Moves DEF Labels
<1> QED
  BY <1>6, <1>7 DEF CompareSessions

(* The three answers agree only if the BFF is right. *)
LEMMA ComparesUser ==
  ASSUME Inv, CompareUser
  PROVE  Inv'
<1> USE DEF Inv
<1>1. pc = "resolve" /\ Len(answers) = 3
  BY DEF CompareUser, Answered
<1>2. answers[3].user = answers[1].user <=> BffUser(3) = BffUser(1)
  BY <1>1 DEF Answered
<1>3. answers[3].user = answers[1].user <=> deployment.bff = "right"
  <2>1. deployment.bff \in {"right", "confusing"}
    BY <1>1 DEF Types, Deployments, PassedReadiness, PassedReuse
  <2>2. CASE deployment.bff = "right"
    BY <1>2, <2>2 DEF BffUser
  <2>3. CASE deployment.bff = "confusing"
    <3>1. BffUser(1) = "user" /\ BffUser(3) = "another"
      BY <2>3 DEF BffUser
    <3> QED
      BY <1>2, <2>3, <3>1
  <2> QED
    BY <2>1, <2>2, <2>3
<1>4. deployment.client /\ deployment.issuer /\ deployment.key /\ deployment.browser
  BY <1>1 DEF PassedClaims, PassedLookUp, PassedBrowser, Verified
<1>5. ASSUME NEW label \in {"pass", "fail"}, Goto(label)
      PROVE  /\ PassedReadiness' /\ PassedBrowser' /\ PassedExchange'
             /\ PassedClaims' /\ PassedLookUp'
  BY <1>1, <1>5 DEF Goto, environment, PassedReadiness, PassedBrowser,
     PassedExchange, PassedClaims, PassedLookUp, Verified
<1>6. CASE Goto("pass") /\ answers[3].user = answers[1].user
  <2>1. Sound
    BY <1>3, <1>4, <1>6 DEF Sound
  <2> QED
    BY <1>1, <1>3, <1>5, <1>6, <2>1, Moves DEF Labels, Verified
<1>7. CASE Goto("fail") /\ answers[3].user # answers[1].user
  <2>1. ~Sound
    BY <1>3, <1>7 DEF Sound
  <2> QED
    BY <1>1, <1>5, <1>7, <2>1, Moves DEF Labels
<1> QED
  BY <1>6, <1>7 DEF CompareUser

(* The remaining steps of the probe. *)
LEMMA MovesOn ==
  ASSUME Inv,
         \/ VerifyReadiness \/ OpenBrowser \/ Listen \/ NoRequest \/ WrongPath
         \/ Stall \/ CloseSilently \/ AcceptCallback \/ RefuseCallback
         \/ VerifyClaims \/ LookUpUser \/ Raise
  PROVE  Inv'
<1> DEFINE Passed ==
             /\ PassedReadiness /\ PassedBrowser /\ PassedExchange
             /\ PassedClaims /\ PassedLookUp
<1> USE DEF Inv, Goto, environment, PassedReadiness, PassedBrowser,
            PassedExchange, PassedClaims, PassedLookUp, Verified
<1>1. CASE VerifyReadiness
  <2>1. Passed'
    BY <1>1 DEF VerifyReadiness
  <2> QED
    BY <1>1, <2>1, Moves DEF VerifyReadiness, Labels, Sound
<1>2. CASE OpenBrowser
  <2>1. Passed'
    BY <1>2 DEF OpenBrowser
  <2> QED
    BY <1>2, <2>1, Moves DEF OpenBrowser, Labels, Sound
<1>3. CASE Listen
  <2>1. Passed' /\ clock \in 0..Timeout
    BY <1>3 DEF Listen, Types
  <2>2. \/ Goto("fail") /\ clock = Timeout
        \/ Goto("handle")
    BY <1>3, <2>1 DEF Listen
  <2> HIDE DEF Goto
  <2> QED
    BY <2>1, <2>2, Moves DEF Labels
<1>4. CASE NoRequest \/ WrongPath \/ Stall \/ CloseSilently
  <2>1. Passed'
    BY <1>4 DEF NoRequest, WrongPath, Stall, CloseSilently
  <2> QED
    BY <1>4, <2>1, Moves DEF NoRequest, WrongPath, Stall, CloseSilently, Labels
<1>5. CASE AcceptCallback
  <2>1. capture.code = "own"
    BY <1>5 DEF AcceptCallback, CaptureOK, Captured, Types, Callbacks, Logins
  <2>2. Passed'
    BY <1>5, <2>1 DEF AcceptCallback
  <2>3. Goto("exchange")
    BY <1>5 DEF AcceptCallback
  <2> HIDE DEF Goto
  <2> QED
    BY <2>2, <2>3, Moves DEF Labels
<1>6. CASE RefuseCallback
  <2>1. Passed'
    BY <1>6 DEF RefuseCallback
  <2>2. disturbed \/ login["own"] = "denied"
    <3>1. CASE ~disturbed
      <4>1. capture = Redirect("own") /\ "own" \in Logins
        BY <1>6, <3>1 DEF RefuseCallback, CaptureOK, Logins
      <4> QED
        BY <1>6, <4>1 DEF RefuseCallback, Redirect, Captured, Nothing, Types
    <3> QED
      BY <3>1
  <2>3. Goto("fail")
    BY <1>6 DEF RefuseCallback
  <2> HIDE DEF Goto
  <2> QED
    BY <2>1, <2>2, <2>3, Moves DEF Labels
<1>7. CASE VerifyClaims
  <2>1. Passed'
    BY <1>7 DEF VerifyClaims
  <2> QED
    BY <1>7, <2>1, Moves DEF VerifyClaims, Labels, Sound
<1>8. CASE LookUpUser
  <2>1. Passed'
    BY <1>8 DEF LookUpUser
  <2> QED
    BY <1>8, <2>1, Moves DEF LookUpUser, Labels, Sound
<1>9. CASE Raise
  <2>1. Passed'
    BY <1>9 DEF Raise
  <2> QED
    BY <1>9, <2>1, Moves DEF Raise, Labels
<1> QED
  BY <1>1, <1>2, <1>3, <1>4, <1>5, <1>6, <1>7, <1>8, <1>9

(* The login, the session, the clock, and a step that changes nothing.     *)
LEMMA Surroundings ==
  ASSUME Inv, Decide \/ EndSession \/ Tick \/ UNCHANGED vars
  PROVE  Inv'
<1> USE DEF Inv
<1>1. /\ UNCHANGED <<deployment, disturbed, pc, capture, exchanged, answers>>
      /\ ended => ended'
      /\ clock' = clock \/ pc # "fail"
  BY DEF Decide, EndSession, Tick, vars, environment, Waiting
<1>2. /\ Types'
      /\ \A of \in Logins : login[of] # "open" => login'[of] = login[of]
  <2>1. CASE Decide
    <3> PICK outcome \in {"granted", "denied"} :
          login' = [login EXCEPT !["own"] = outcome]
      BY <2>1 DEF Decide
    <3> QED
      BY <2>1 DEF Decide, Types, Logins
  <2>2. CASE EndSession
    BY <2>2 DEF Types, EndSession
  <2>3. CASE Tick
    BY <2>3 DEF Types, Tick, environment
  <2>4. CASE UNCHANGED vars
    BY <2>4 DEF Types, vars, environment
  <2> QED
    BY <2>1, <2>2, <2>3, <2>4
<1>3. CaptureOK'
  <2>1. capture.code # None => capture.code \in Logins
    BY DEF Types, Callbacks
  <2>2. "own" \in Logins
    BY DEF Logins
  <2>3. Captured /\ ~disturbed => login["own"] # "open"
    BY <2>2 DEF CaptureOK, Captured, Redirect, Nothing, Types
  <2> QED
    BY <1>1, <1>2, <2>1, <2>2, <2>3 DEF CaptureOK, Captured, Redirect
<1>4. /\ PassedReadiness' /\ PassedBrowser' /\ PassedExchange' /\ PassedClaims'
      /\ PassedLookUp' /\ VerdictIsJustified'
  BY <1>1, <1>2 DEF PassedReadiness, PassedBrowser, PassedExchange, PassedClaims,
     PassedLookUp, VerdictIsJustified, Sound, Logins
<1>5. Answered' /\ PassedReuse'
  BY <1>1 DEF Answered, PassedReuse, BffUser, BffExpiry
<1> QED
  BY <1>2, <1>3, <1>4, <1>5

-----------------------------------------------------------------------------
(* PASS means that the deployment is right and the login was this run's,   *)
(* FAIL has a cause outside the probe, and no foreign code is spent: for   *)
(* any timeout and any sequence of callbacks.                              *)
THEOREM VerdictsAreJustified == Spec => []VerdictIsJustified
<1>1. Inv /\ [Next]_vars => Inv'
  BY Calls, Exchanges, Provisions, ComparesSessions, Resolves, ComparesUser,
     MovesOn, Surroundings DEF Next, Probe
<1>2. Inv => VerdictIsJustified
  BY DEF Inv
<1> QED
  BY Initially, <1>1, <1>2, PTL DEF Spec
=============================================================================
