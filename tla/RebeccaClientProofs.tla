------------------------ MODULE RebeccaClientProofs ------------------------
(***************************************************************************)
(* The client of one panel, for any number of concurrent requests, any     *)
(* limits and any number of reconfigurations.                              *)
(***************************************************************************)
EXTENDS RebeccaClient, TLAPS

(* The types, by the groups of variables that change together.             *)
BreakerType ==
  /\ circuit \in {"CLOSED", "OPEN", "HALF_OPEN"}
  /\ failures \in 0..MaxFailures
AuthType ==
  /\ conn \in Nat /\ token \in Nat \cup {-1} /\ generation \in Nat
  /\ authReq \in Requests \cup {"none"}
  /\ loginGen \in [Requests -> Nat \cup {-1}]
  /\ loginConn \in [Requests -> Nat]

(* A login in flight belongs to the generation and the configuration of    *)
(* its start; the shared one, and only it, to the current ones.            *)
LoginsKnown ==
  /\ \A r \in Requests :
       /\ loginGen[r] <= generation
       /\ loginGen[r] = generation => authReq = r /\ loginConn[r] = conn
  /\ authReq # "none" => loginGen[authReq] = generation

AuthInv == AuthType /\ LoginsKnown /\ TokenIsCurrent

-----------------------------------------------------------------------------
(* The breaker: every step treats it in one of five ways.                  *)

BreakerStep ==
  \/ Reset \/ RecordFailure \/ LetThrough \/ UNCHANGED breaker
  \/ cooled' = TRUE /\ UNCHANGED <<circuit, failures>>

LEMMA BreakerKept == BreakerType /\ BreakerCounts /\ BreakerStep => BreakerType' /\ BreakerCounts'
<1> SUFFICES ASSUME BreakerType, BreakerCounts, BreakerStep PROVE BreakerType' /\ BreakerCounts'
  OBVIOUS
<1> USE ClientAssumption DEF BreakerType, BreakerCounts
<1>0. Threshold \in Nat /\ Threshold > 0 /\ MaxFailures \in Nat /\ MaxFailures >= Threshold
  OBVIOUS
<1>1. CASE Reset
  BY <1>0, <1>1 DEF Reset
<1>2. CASE RecordFailure BY <1>0, <1>2 DEF RecordFailure
<1>3. CASE LetThrough BY <1>3 DEF LetThrough
<1>4. CASE UNCHANGED breaker BY <1>4 DEF breaker
<1>5. CASE cooled' = TRUE /\ UNCHANGED <<circuit, failures>> BY <1>5
<1> QED BY <1>1, <1>2, <1>3, <1>4, <1>5 DEF BreakerStep

LEMMA NextBreaker == Next => BreakerStep
<1> SUFFICES ASSUME Next PROVE BreakerStep
  OBVIOUS
<1> USE DEF BreakerStep
<1>1. ASSUME NEW r \in Requests, Step(r) PROVE BreakerStep
  <2>1. CASE Begin(r) BY <2>1 DEF Begin
  <2>2. CASE Resume(r) BY <2>2 DEF Resume, GetAuthToken
  <2>3. CASE Ok(r) BY <2>3 DEF Ok
  <2>4. CASE Refuse(r) BY <2>4 DEF Refuse
  <2>5. CASE Unauthorized(r) BY <2>5 DEF Unauthorized
  <2>6. CASE Fail(r, TRUE) \/ Fail(r, FALSE) BY <2>6 DEF Fail
  <2>7. CASE LoginOk(r) BY <2>7 DEF LoginOk
  <2>8. CASE LoginFails(r) BY <2>8 DEF LoginFails
  <2> QED BY <1>1, <2>1, <2>2, <2>3, <2>4, <2>5, <2>6, <2>7, <2>8 DEF Step
<1>2. CASE Configure BY <1>2 DEF Configure
<1>3. CASE TokenExpires BY <1>3 DEF TokenExpires
<1>4. CASE CoolDown BY <1>4 DEF CoolDown
<1>5. CASE CheckHealth BY <1>5 DEF CheckHealth
<1> QED BY <1>1, <1>2, <1>3, <1>4, <1>5 DEF Next

(* The breaker is closed exactly while the failures stay below the         *)
(* threshold, in every order of answers, probes and reconfigurations.      *)
THEOREM BreakerNeverStuck == Spec => []BreakerCounts
<1>1. Init => BreakerType /\ BreakerCounts
  BY ClientAssumption DEF Init, BreakerType, BreakerCounts
<1>2. BreakerType /\ BreakerCounts /\ [Next]_vars => BreakerType' /\ BreakerCounts'
  <2>1. UNCHANGED vars => BreakerStep BY DEF vars, BreakerStep
  <2> QED BY <2>1, NextBreaker, BreakerKept
<1> QED BY <1>1, <1>2, PTL DEF Spec

-----------------------------------------------------------------------------
(* Tokens.                                                                 *)

LEMMA SendKept ==
  ASSUME NEW W, Send(W, conn)
  PROVE  crossed' = crossed
  BY DEF Send

(* Who leads a login in flight waits for it.                               *)
LeaderWaits ==
  \A r \in Requests : loginGen[r] # -1 => stage[r] = "auth" /\ waitOn[r] = r

TokenInv == AuthInv /\ LeaderWaits

LEMMA AuthSame == AuthInv /\ UNCHANGED <<auth, crossed>> => AuthInv'
  BY DEF AuthInv, AuthType, LoginsKnown, TokenIsCurrent, auth

LEMMA AuthorizeKept ==
  ASSUME TokenInv, NEW r \in Requests, NEW W, r \in W, loginGen[r] # generation,
         \A x \in W \ {r} : loginGen[x] = -1, Authorize(W, r)
  PROVE  TokenInv'
<1> USE ClientAssumption DEF TokenInv, AuthInv, AuthType, LoginsKnown, TokenIsCurrent
<1>1. CASE ApiKey \/ token # -1
  <2>1. /\ \E t : Send(W, t) /\ (t = conn \/ (t = token /\ token # -1))
        /\ loginGen' = [loginGen EXCEPT ![r] = -1]
        /\ UNCHANGED <<conn, token, generation, authReq, loginConn>>
    BY <1>1 DEF Authorize
  <2>2. Send(W, conn) BY <1>1, <2>1
  <2>3. AuthInv' BY <2>1, <2>2, SendKept
  <2>4. LeaderWaits' BY <2>1, <2>2 DEF Send, Move, LeaderWaits
  <2> QED BY <2>3, <2>4
<1>2. CASE ~ApiKey /\ token = -1
  <2>1. AuthInv' BY <1>2 DEF Authorize, ghosts
  <2>2. LeaderWaits' BY <1>2 DEF Authorize, Move, LeaderWaits
  <2> QED BY <2>1, <2>2
<1> QED BY <1>1, <1>2

LEMMA Invalidated ==
  ASSUME AuthInv, InvalidateToken, conn' \in Nat, UNCHANGED <<loginGen, loginConn, crossed>>
  PROVE  AuthInv'
  BY DEF AuthInv, AuthType, LoginsKnown, TokenIsCurrent, InvalidateToken

LEMMA LoginDoneKept ==
  ASSUME AuthInv, NEW r \in Requests, LoginDone(r), token' \in {-1, conn}, crossed' = crossed
  PROVE  AuthInv'
  BY ClientAssumption DEF AuthInv, AuthType, LoginsKnown, TokenIsCurrent, LoginDone

(* Moving a request that leads no login disturbs nobody who does.          *)
LEMMA MoveKept ==
  ASSUME LeaderWaits, NEW r \in Requests, loginGen[r] = -1, NEW place, NEW leader,
         Move({r}, place, leader), UNCHANGED loginGen
  PROVE  LeaderWaits'
  BY DEF LeaderWaits, Move

LEMMA StepTokens ==
  ASSUME TokenInv, NEW r \in Requests, Step(r)
  PROVE  TokenInv'
<1> USE ClientAssumption DEF TokenInv
<1>a. stage[r] # "auth" => loginGen[r] = -1 /\ loginGen[r] # generation
  BY DEF LeaderWaits, AuthInv, AuthType
<1>b. ASSUME stage[r] # "auth", NEW what, Throw({r}, what), UNCHANGED auth PROVE TokenInv'
  BY <1>a, <1>b, AuthSame, MoveKept DEF Throw, ghosts, auth
<1>c. stage[r] # "auth" /\ Authorize({r}, r) => TokenInv'
  BY <1>a, AuthorizeKept
<1>1. CASE Begin(r) BY <1>1, <1>b, <1>c DEF Begin
<1>2. CASE Resume(r) BY <1>2, <1>b, <1>c DEF Resume, GetAuthToken
<1>3. CASE Ok(r) \/ Refuse(r) BY <1>3, <1>b DEF Ok, Refuse
<1>4. CASE Unauthorized(r)
  <2>1. stage[r] = "sent" BY <1>4 DEF Unauthorized
  <2>2. CASE Throw({r}, "unauthorized") /\ UNCHANGED auth BY <1>b, <2>1, <2>2
  <2>3. CASE InvalidateToken /\ Throw({r}, "loginDown") /\ UNCHANGED <<conn, loginGen, loginConn>>
    BY <1>a, <2>1, <2>3, Invalidated, MoveKept DEF Throw, ghosts, AuthInv, AuthType
  <2>4. CASE ~ApiKey /\ Relogin(r)
    <3>1. AuthInv'
      BY <2>4 DEF Relogin, ghosts, AuthInv, AuthType, LoginsKnown, TokenIsCurrent
    <3>2. LeaderWaits' BY <2>4 DEF Relogin, Move, LeaderWaits, AuthInv, AuthType
    <3> QED BY <3>1, <3>2
  <2> QED BY <1>4, <2>2, <2>3, <2>4 DEF Unauthorized
<1>5. CASE Fail(r, TRUE) \/ Fail(r, FALSE)
  <2>1. stage[r] = "sent" /\ UNCHANGED <<auth, crossed>> BY <1>5 DEF Fail
  <2>2. \E place : Move({r}, place, "none") BY <1>5 DEF Fail
  <2> QED BY <1>a, <2>1, <2>2, AuthSame, MoveKept DEF auth
<1>6. CASE LoginOk(r)
  <2>1. stage[r] = "auth" /\ waitOn[r] = r BY <1>6 DEF LoginOk, LeaderWaits
  <2>2. r \in Waiters(r) /\ \A x \in Waiters(r) \ {r} : loginGen[x] = -1
    BY <2>1 DEF Waiters, LeaderWaits
  <2>3. CASE loginGen[r] # generation
    BY <1>6, <2>2, <2>3, AuthorizeKept DEF LoginOk
  <2>4. CASE loginGen[r] = generation
    <3>1. loginConn[r] = conn BY <2>4 DEF AuthInv, LoginsKnown
    <3>2. token' = conn /\ Send(Waiters(r), conn) /\ LoginDone(r)
      BY <1>6, <2>4, <3>1 DEF LoginOk
    <3>3. AuthInv' BY <3>2, SendKept, LoginDoneKept
    <3>4. LeaderWaits'
      BY <2>2, <3>2 DEF Send, Move, LoginDone, LeaderWaits, AuthInv, AuthType
    <3> QED BY <3>3, <3>4
  <2> QED BY <2>3, <2>4
<1>7. CASE LoginFails(r)
  <2>1. stage[r] = "auth" /\ waitOn[r] = r BY <1>7 DEF LoginFails, LeaderWaits
  <2>2. r \in Waiters(r) /\ \A x \in Waiters(r) \ {r} : loginGen[x] = -1
    BY <2>1 DEF Waiters, LeaderWaits
  <2>3. LoginDone(r) /\ UNCHANGED <<token, crossed>> /\ Move(Waiters(r), "done", "none")
    BY <1>7 DEF LoginFails, Throw, ghosts
  <2>4. AuthInv' BY <2>3, LoginDoneKept DEF AuthInv, TokenIsCurrent
  <2>5. LeaderWaits' BY <2>2, <2>3 DEF Move, LoginDone, LeaderWaits, AuthInv, AuthType
  <2> QED BY <2>4, <2>5
<1> QED BY <1>1, <1>2, <1>3, <1>4, <1>5, <1>6, <1>7 DEF Step

LEMMA InitTokens == Init => TokenInv
  BY ClientAssumption
     DEF Init, TokenInv, AuthInv, AuthType, LoginsKnown, TokenIsCurrent, LeaderWaits

LEMMA NextTokens == TokenInv /\ [Next]_vars => TokenInv'
<1> SUFFICES ASSUME TokenInv, [Next]_vars PROVE TokenInv'
  OBVIOUS
<1> USE DEF TokenInv
<1>a. UNCHANGED <<auth, calls, ghosts>> => TokenInv'
  BY AuthSame DEF auth, calls, ghosts, LeaderWaits
<1>1. CASE UNCHANGED vars BY <1>1, <1>a DEF vars
<1>2. ASSUME NEW r \in Requests, Step(r) PROVE TokenInv' BY <1>2, StepTokens
<1>3. CASE Configure
  <2>1. AuthInv' BY <1>3, Invalidated DEF Configure, ghosts, AuthInv, AuthType
  <2> QED BY <1>3, <2>1 DEF Configure, LeaderWaits, calls
<1>4. CASE TokenExpires
  <2>1. AuthInv'
    BY <1>4 DEF TokenExpires, ghosts, AuthInv, AuthType, LoginsKnown, TokenIsCurrent
  <2> QED BY <1>4, <2>1 DEF TokenExpires, LeaderWaits, calls
<1>5. CASE CoolDown BY <1>5, <1>a DEF CoolDown
<1>6. CASE CheckHealth BY <1>6, <1>a DEF CheckHealth
<1> QED BY <1>1, <1>2, <1>3, <1>4, <1>5, <1>6 DEF Next

(* No request ever carries the token of another configuration.             *)
THEOREM TokensNeverCross == Spec => []TokenIsCurrent
<1>1. TokenInv => TokenIsCurrent BY DEF TokenInv, AuthInv
<1> QED BY <1>1, InitTokens, NextTokens, PTL DEF Spec

(* Concurrent requests share the login of their generation.                *)
THEOREM LoginsShared == Spec => []OneLogin
<1>1. TokenInv => OneLogin BY DEF TokenInv, AuthInv, LoginsKnown, OneLogin
<1> QED BY <1>1, InitTokens, NextTokens, PTL DEF Spec

-----------------------------------------------------------------------------
(* The open breaker.                                                       *)

(* A step that throws, waits or stands back sends nobody.                  *)
LEMMA StayHome ==
  ASSUME NEW W, NEW place, place # "sent", NEW leader, Move(W, place, leader),
         NEW r \in Requests, stage[r] # "sent"
  PROVE  stage'[r] # "sent"
  BY DEF Move

Sends(r) == stage[r] # "sent" /\ stage'[r] = "sent"

LEMMA NextSends ==
  ASSUME Next, ~ApiKey, NEW r \in Requests, Sends(r)
  PROVE  circuit' # "OPEN"
<1>a. LetThrough => circuit' # "OPEN" BY DEF LetThrough
<1>b. Reset => circuit' # "OPEN" BY DEF Reset
<1>c. ASSUME NEW W, NEW what, Throw(W, what) PROVE FALSE
  BY <1>c, StayHome DEF Throw, Sends
<1>d. stage' # stage BY DEF Sends
<1>1. ASSUME NEW s \in Requests, Step(s) PROVE circuit' # "OPEN"
  <2>1. CASE Begin(s) BY <2>1, <1>a, <1>c DEF Begin
  <2>2. CASE Resume(s) BY <2>2, <1>a, <1>c DEF Resume, GetAuthToken
  <2>3. CASE Ok(s) \/ Refuse(s) BY <2>3, <1>c DEF Ok, Refuse
  <2>4. CASE Unauthorized(s) BY <2>4, <1>a, <1>c DEF Unauthorized
  <2>5. CASE Fail(s, TRUE) \/ Fail(s, FALSE)
    <3>1. Move({s}, "done", "none") \/ Move({s}, "backoff", "none") BY <2>5 DEF Fail
    <3> QED BY <3>1, StayHome DEF Sends
  <2>6. CASE LoginOk(s) BY <2>6, <1>b DEF LoginOk
  <2>7. CASE LoginFails(s) BY <2>7, <1>c DEF LoginFails
  <2> QED BY <1>1, <2>1, <2>2, <2>3, <2>4, <2>5, <2>6, <2>7 DEF Step
<1>2. CASE Configure BY <1>2, <1>d DEF Configure, calls
<1>3. CASE TokenExpires BY <1>3, <1>d DEF TokenExpires, calls
<1>4. CASE CoolDown BY <1>4, <1>d DEF CoolDown, calls
<1>5. CASE CheckHealth BY <1>5, <1>d DEF CheckHealth, calls
<1> QED BY <1>1, <1>2, <1>3, <1>4, <1>5 DEF Next

(* An open breaker lets nothing out but retries under a static key.        *)
THEOREM OpenMeansSilent == Spec => NothingSentWhileOpen
<1>1. [Next]_vars =>
        [\A r \in Requests :
           ~ApiKey /\ stage[r] # "sent" /\ stage'[r] = "sent" => circuit' # "OPEN"]_vars
  BY NextSends DEF Sends
<1> QED BY <1>1, PTL DEF Spec, NothingSentWhileOpen

-----------------------------------------------------------------------------
(* The requests.                                                           *)

Stages == {"idle", "auth", "sent", "backoff", "done"}
StageType ==
  /\ stage \in [Requests -> Stages]
  /\ waitOn \in [Requests -> Requests \cup {"none"}]
  /\ outcome \in [Requests -> Outcomes]
  /\ uncertain \subseteq Requests /\ crossed \subseteq Requests
AttemptType == attempt \in [Requests -> 0..MaxRetries + 1] /\ flag \in [Requests -> BOOLEAN]
SettingType == cooled \in BOOLEAN /\ credential \in {"key", "login"}
RequestType == StageType /\ AttemptType /\ SettingType

LEMMA MoveTyped ==
  ASSUME StageType, NEW W, NEW place \in Stages, NEW leader \in Requests \cup {"none"},
         Move(W, place, leader)
  PROVE  /\ stage' \in [Requests -> Stages]
         /\ waitOn' \in [Requests -> Requests \cup {"none"}]
  BY DEF StageType, Move

LEMMA SendTyped ==
  ASSUME StageType, NEW W \in SUBSET Requests, NEW t, Send(W, t)
  PROVE  StageType'
<1>1. Move(W, "sent", "none") BY DEF Send
<1>2. stage' \in [Requests -> Stages] /\ waitOn' \in [Requests -> Requests \cup {"none"}]
  BY <1>1, MoveTyped DEF Stages
<1> QED BY <1>2 DEF StageType, Send

LEMMA ThrowTyped ==
  ASSUME StageType, NEW W, NEW what \in Outcomes, Throw(W, what)
  PROVE  StageType'
<1>1. Move(W, "done", "none") BY DEF Throw
<1>2. stage' \in [Requests -> Stages] /\ waitOn' \in [Requests -> Requests \cup {"none"}]
  BY <1>1, MoveTyped DEF Stages
<1> QED BY <1>2 DEF StageType, Throw, ghosts

LEMMA AuthorizeTyped ==
  ASSUME StageType, AuthType, NEW r \in Requests, NEW W \in SUBSET Requests, Authorize(W, r)
  PROVE  StageType' /\ credential' = credential
<1>1. ASSUME NEW t, Send(W, t) PROVE StageType' BY <1>1, SendTyped
<1>2. ASSUME NEW leader \in Requests, Move(W, "auth", leader), UNCHANGED <<outcome, ghosts>>
      PROVE  StageType'
  <2>1. stage' \in [Requests -> Stages] /\ waitOn' \in [Requests -> Requests \cup {"none"}]
    BY <1>2, MoveTyped DEF Stages
  <2> QED BY <1>2, <2>1 DEF StageType, ghosts
<1> QED BY <1>1, <1>2 DEF Authorize, AuthType

LEMMA FewAttempts == 0 \in 0..MaxRetries + 1 /\ 1 \in 0..MaxRetries + 1
  BY ClientAssumption

LEMMA StepTyped ==
  ASSUME RequestType, AuthType, NEW r \in Requests, Step(r)
  PROVE  RequestType'
<1> USE DEF RequestType, Outcomes
<1>0. {r} \in SUBSET Requests /\ Waiters(r) \in SUBSET Requests BY DEF Waiters
<1>a. \/ Reset \/ RecordFailure \/ LetThrough \/ UNCHANGED breaker => cooled' \in BOOLEAN
  BY DEF Reset, RecordFailure, LetThrough, breaker, SettingType
<1>b. credential' = credential => credential' \in {"key", "login"} BY DEF SettingType
<1>c. UNCHANGED <<attempt, flag>> => AttemptType' BY DEF AttemptType
<1>1. CASE Begin(r)
  <2>1. StageType' /\ credential' = credential
    BY <1>0, <1>1, ThrowTyped, AuthorizeTyped DEF Begin, auth
  <2>2. cooled' \in BOOLEAN BY <1>a, <1>1 DEF Begin
  <2> QED BY <1>1, <1>b, <1>c, <2>1, <2>2 DEF Begin, SettingType
<1>2. CASE Resume(r)
  <2>1. StageType' /\ credential' = credential
    BY <1>0, <1>2, ThrowTyped, AuthorizeTyped DEF Resume, GetAuthToken, auth
  <2>2. cooled' \in BOOLEAN BY <1>a, <1>2 DEF Resume, GetAuthToken
  <2> QED BY <1>2, <1>b, <1>c, <2>1, <2>2 DEF Resume, SettingType
<1>3. CASE Ok(r)
  <2>1. StageType' BY <1>3, ThrowTyped DEF Ok
  <2> QED BY <1>3, <1>a, <1>b, <1>c, <2>1 DEF Ok, auth, SettingType
<1>4. CASE Refuse(r)
  <2>1. StageType' BY <1>4, ThrowTyped DEF Refuse
  <2> QED BY <1>4, <1>a, <1>b, <1>c, <2>1 DEF Refuse, auth, SettingType
<1>5. CASE Unauthorized(r)
  <2>1. StageType' /\ credential' = credential
    <3>1. CASE \E what \in {"loginDown", "unauthorized"} : Throw({r}, what)
      BY <1>5, <3>1, ThrowTyped DEF Unauthorized, Relogin, auth
    <3>2. CASE Relogin(r)
      <4>1. Move({r}, "auth", r) /\ UNCHANGED <<outcome, ghosts, credential>>
        BY <3>2 DEF Relogin
      <4>2. stage' \in [Requests -> Stages] /\ waitOn' \in [Requests -> Requests \cup {"none"}]
        BY <4>1, MoveTyped DEF Stages
      <4> QED BY <4>1, <4>2 DEF StageType, ghosts
    <3> QED BY <1>5, <3>1, <3>2 DEF Unauthorized
  <2>2. cooled' \in BOOLEAN BY <1>a, <1>5 DEF Unauthorized
  <2>3. AttemptType'
    <3>1. CASE UNCHANGED <<attempt, flag>> BY <1>c, <3>1
    <3>2. CASE /\ attempt' = [attempt EXCEPT ![r] = 1]
               /\ flag' = [flag EXCEPT ![r] = FALSE]
      BY <3>2, FewAttempts DEF AttemptType
    <3> QED BY <1>5, <3>1, <3>2 DEF Unauthorized
  <2> QED BY <1>b, <2>1, <2>2, <2>3 DEF SettingType
<1>6. ASSUME NEW left \in BOOLEAN, Fail(r, left) PROVE RequestType'
  <2>1. StageType'
    <3>1. \E place \in {"done", "backoff"} : Move({r}, place, "none") BY <1>6 DEF Fail
    <3>2. stage' \in [Requests -> Stages] /\ waitOn' \in [Requests -> Requests \cup {"none"}]
      BY <3>1, MoveTyped DEF Stages
    <3>3. uncertain' \subseteq Requests /\ crossed' \subseteq Requests
      BY <1>6 DEF Fail, StageType
    <3>4. outcome' \in [Requests -> Outcomes] BY <1>6 DEF Fail, StageType
    <3> QED BY <3>2, <3>3, <3>4 DEF StageType
  <2>2. cooled' \in BOOLEAN /\ credential' = credential BY <1>a, <1>6 DEF Fail, auth
  <2>3. AttemptType'
    <3>1. flag' \in [Requests -> BOOLEAN] BY <1>6 DEF Fail, AttemptType
    <3>2. \/ attempt' = attempt
          \/ ~(attempt[r] >= MaxRetries) /\ attempt' = [attempt EXCEPT ![r] = @ + 1]
      BY <1>6 DEF Fail
    <3> QED BY <3>1, <3>2, ClientAssumption DEF AttemptType
  <2> QED BY <1>b, <2>1, <2>2, <2>3 DEF SettingType
<1>7. CASE LoginOk(r)
  <2>1. StageType' /\ credential' = credential
    BY <1>0, <1>7, SendTyped, AuthorizeTyped DEF LoginOk, LoginDone
  <2> QED BY <1>7, <1>a, <1>b, <1>c, <2>1 DEF LoginOk, SettingType
<1>8. CASE LoginFails(r)
  <2>1. StageType' /\ credential' = credential
    BY <1>8, ThrowTyped DEF LoginFails, LoginDone
  <2>2. cooled' \in BOOLEAN BY <1>a, <1>8 DEF LoginFails
  <2> QED BY <1>8, <1>b, <1>c, <2>1, <2>2 DEF LoginFails, SettingType
<1> QED BY <1>1, <1>2, <1>3, <1>4, <1>5, <1>6, <1>7, <1>8 DEF Step

LEMMA InitTyped == Init => RequestType
<1> SUFFICES ASSUME Init PROVE RequestType OBVIOUS
<1>1. StageType BY DEF Init, StageType, Stages, Outcomes
<1>2. AttemptType BY FewAttempts DEF Init, AttemptType
<1>3. SettingType BY DEF Init, SettingType
<1> QED BY <1>1, <1>2, <1>3 DEF RequestType

LEMMA NextTyped == RequestType /\ TokenInv /\ [Next]_vars => RequestType'
<1> SUFFICES ASSUME RequestType, AuthType, [Next]_vars PROVE RequestType'
  BY DEF TokenInv, AuthInv
<1> USE DEF RequestType, StageType, AttemptType, SettingType, calls, ghosts
<1>1. CASE UNCHANGED vars BY <1>1 DEF vars, breaker, auth
<1>2. CASE Configure BY <1>2 DEF Configure, Reset
<1>3. CASE TokenExpires BY <1>3 DEF TokenExpires, breaker
<1>4. CASE CoolDown BY <1>4 DEF CoolDown, auth
<1>5. CASE CheckHealth BY <1>5 DEF CheckHealth, Reset, RecordFailure, auth
<1> QED BY <1>1, <1>2, <1>3, <1>4, <1>5, StepTyped DEF Next

(* Types, for any number of requests, retries and reconfigurations.        *)
THEOREM ClientTyped == Spec => []TypeOK
<1>1. Init => BreakerType /\ BreakerCounts
  BY ClientAssumption DEF Init, BreakerType, BreakerCounts
<1>2. BreakerType /\ BreakerCounts /\ [Next]_vars => BreakerType' /\ BreakerCounts'
  <2>1. UNCHANGED vars => BreakerStep BY DEF vars, BreakerStep
  <2> QED BY <2>1, NextBreaker, BreakerKept
<1>3. RequestType /\ TokenInv /\ BreakerType => TypeOK
  BY DEF RequestType, StageType, AttemptType, SettingType, Stages, TokenInv, AuthInv,
         AuthType, BreakerType, TypeOK
<1> QED BY <1>1, <1>2, <1>3, InitTyped, NextTyped, InitTokens, NextTokens, PTL DEF Spec

(* The requestDispatched flag is the truth about every attempt so far, and *)
(* the first attempt, which may drop it, has nothing to forget.            *)
FlagTrue ==
  \A r \in Requests :
    /\ flag[r] <=> r \in uncertain
    /\ attempt[r] = 0 /\ stage[r] # "done" => ~flag[r]

LEMMA FlagStays ==
  ASSUME FlagTrue, UNCHANGED <<attempt, flag, uncertain>>,
         \A r \in Requests : stage[r] = "done" => stage'[r] = "done"
  PROVE  FlagTrue'
  BY DEF FlagTrue

LEMMA MoveForward ==
  ASSUME NEW W, NEW place, NEW leader, Move(W, place, leader),
         \A x \in W : x \in Requests => stage[x] # "done"
  PROVE  \A r \in Requests : stage[r] = "done" => stage'[r] = "done"
  BY DEF Move

LEMMA StepFlags ==
  ASSUME RequestType, FlagTrue, NEW r \in Requests, Step(r)
  PROVE  FlagTrue'
<1>a. ASSUME NEW W, NEW place, NEW leader, Move(W, place, leader),
             \A x \in W : x \in Requests => stage[x] # "done",
             UNCHANGED <<attempt, flag, uncertain>>
      PROVE  FlagTrue'
  BY <1>a, MoveForward, FlagStays
<1>b. ASSUME NEW W, \A x \in W : x \in Requests => stage[x] # "done", Authorize(W, r),
             UNCHANGED <<attempt, flag>>
      PROVE  FlagTrue'
  BY <1>a, <1>b DEF Authorize, Send, ghosts
<1>c. ASSUME NEW W, \A x \in W : x \in Requests => stage[x] # "done", NEW what,
             Throw(W, what), UNCHANGED <<attempt, flag>>
      PROVE  FlagTrue'
  BY <1>a, <1>c DEF Throw, ghosts
<1>d. \A x \in Waiters(r) : x \in Requests => stage[x] # "done" BY DEF Waiters
<1>1. CASE Begin(r) BY <1>1, <1>b, <1>c DEF Begin
<1>2. CASE Resume(r) BY <1>2, <1>b, <1>c DEF Resume, GetAuthToken
<1>3. CASE Ok(r) \/ Refuse(r) BY <1>3, <1>c DEF Ok, Refuse
<1>4. CASE Unauthorized(r)
  <2>1. stage[r] = "sent" BY <1>4 DEF Unauthorized
  <2>2. CASE Throw({r}, "unauthorized") /\ UNCHANGED <<attempt, flag>>
    BY <1>c, <2>1, <2>2
  <2>3. CASE /\ attempt[r] = 0 /\ attempt' = [attempt EXCEPT ![r] = 1]
             /\ flag' = [flag EXCEPT ![r] = FALSE]
    <3>1. ~flag[r] BY <2>1, <2>3 DEF FlagTrue
    <3>2. \E W, place, leader : W = {r} /\ Move(W, place, leader)
      BY <1>4 DEF Unauthorized, Throw, Relogin
    <3>3. \A x \in Requests : stage[x] = "done" => stage'[x] = "done"
      BY <2>1, <3>2, MoveForward
    <3>4. uncertain' = uncertain BY <1>4 DEF Unauthorized, Throw, Relogin, ghosts
    <3>5. \A x \in Requests : flag'[x] <=> flag[x]
      BY <2>3, <3>1 DEF RequestType, AttemptType
    <3>6. \A x \in Requests : attempt'[x] = 0 => attempt[x] = 0
      BY <2>3 DEF RequestType, AttemptType
    <3> QED BY <3>3, <3>4, <3>5, <3>6 DEF FlagTrue
  <2> QED BY <1>4, <2>2, <2>3 DEF Unauthorized
<1>5. ASSUME NEW left \in BOOLEAN, Fail(r, left) PROVE FlagTrue'
  <2>1. /\ uncertain' = IF left THEN uncertain \cup {r} ELSE uncertain
        /\ flag' = [flag EXCEPT ![r] = flag[r] \/ left]
        /\ stage[r] = "sent"
    BY <1>5 DEF Fail
  <2>2. \A x \in Requests : flag'[x] <=> x \in uncertain'
    BY <2>1 DEF FlagTrue, RequestType, AttemptType
  <2>3. stage'[r] = "done" \/ attempt'[r] # 0
    <3>1. \/ Move({r}, "done", "none")
          \/ attempt' = [attempt EXCEPT ![r] = @ + 1]
      BY <1>5 DEF Fail
    <3> QED BY <3>1, ClientAssumption DEF Move, RequestType, AttemptType
  <2>4. \A x \in Requests \ {r} :
          attempt'[x] = attempt[x] /\ stage'[x] = stage[x] /\ (flag'[x] <=> flag[x])
    <3>1. \A x \in Requests \ {r} : attempt'[x] = attempt[x] /\ (flag'[x] <=> flag[x])
      BY <1>5 DEF Fail, RequestType, AttemptType
    <3>2. \A x \in Requests \ {r} : stage'[x] = stage[x] BY <1>5 DEF Fail, Move
    <3> QED BY <3>1, <3>2
  <2> QED BY <2>2, <2>3, <2>4 DEF FlagTrue
<1>6. CASE LoginOk(r)
  <2>1. \/ \E t : Send(Waiters(r), t)
        \/ Authorize(Waiters(r), r)
    BY <1>6 DEF LoginOk
  <2>2. UNCHANGED <<attempt, flag>> BY <1>6 DEF LoginOk
  <2> QED BY <1>a, <1>b, <1>d, <2>1, <2>2 DEF Send
<1>7. CASE LoginFails(r) BY <1>7, <1>c, <1>d DEF LoginFails
<1> QED BY <1>1, <1>2, <1>3, <1>4, <1>5, <1>6, <1>7 DEF Step

(* "down" tells the caller exactly whether the request may have reached    *)
(* the panel, in whichever of its attempts and across re-logins.           *)
THEOREM DownIsHonest == Spec => []DownTellsDispatch
<1>1. Init => FlagTrue BY DEF Init, FlagTrue
<1>2. RequestType /\ FlagTrue /\ [Next]_vars => FlagTrue'
  <2> SUFFICES ASSUME RequestType, FlagTrue, [Next]_vars PROVE FlagTrue' OBVIOUS
  <2>1. UNCHANGED <<calls, ghosts>> => FlagTrue' BY FlagStays DEF calls, ghosts
  <2>2. CASE UNCHANGED vars \/ Configure \/ TokenExpires \/ CoolDown \/ CheckHealth
    BY <2>1, <2>2 DEF vars, Configure, TokenExpires, CoolDown, CheckHealth
  <2> QED BY <2>2, StepFlags DEF Next
<1>3. FlagTrue => DownTellsDispatch BY DEF FlagTrue, DownTellsDispatch
<1> QED BY <1>1, <1>2, <1>3, InitTyped, NextTyped, InitTokens, NextTokens, PTL DEF Spec
=============================================================================
