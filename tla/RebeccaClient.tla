---------------------------- MODULE RebeccaClient ----------------------------
(***************************************************************************)
(* RebeccaApiClient: the HTTP client through which every operation reaches *)
(* one panel.  Concurrent requests share a circuit breaker, a bearer token *)
(* and the login that fetches it; each retries on its own and finally      *)
(* tells its caller whether it may have reached the panel.                 *)
(*                                                                         *)
(* A request is one call of request() with all its attempts.  A step runs  *)
(* from one await to the next; promise continuations run with the step     *)
(* that settles the promise.                                               *)
(***************************************************************************)
EXTENDS Integers, FiniteSets

CONSTANTS
  Requests,    \* request ids, each used once
  MaxRetries,  \* MAX_RETRIES
  Threshold,   \* CIRCUIT_FAILURE_THRESHOLD
  MaxFailures, \* bound: where the counter of consecutive failures saturates
  MaxConfigs   \* bound: how often live settings reconfigure the client

ASSUME ClientAssumption ==
  /\ MaxRetries \in Nat /\ Threshold \in Nat \ {0}
  /\ MaxFailures \in Nat /\ MaxFailures >= Threshold
  /\ MaxConfigs \in Nat
  /\ "none" \notin Requests

VARIABLES
  circuit,     \* circuitState
  failures,    \* consecutiveFailures
  cooled,      \* have 15 seconds passed since circuitOpenedAt?
  conn,        \* which configuration baseUrl and credentials come from ...
  credential,  \* ... and whether they hold a static apiKey or a login
  token,       \* accessToken: the configuration it was issued for, or -1
  generation,  \* authGeneration
  authReq,     \* authTokenRequest: the request whose login is shared
  loginGen,    \* login in flight: the generation it started in, or -1 ...
  loginConn,   \* ... and the configuration it talks to
  stage,       \* where a request stands
  waitOn,      \* the login a request awaits
  attempt,     \* its attempt number
  flag,        \* its requestDispatched argument
  outcome,     \* what its caller got
  uncertain,   \* history: requests with an attempt that nothing settled
  crossed      \* history: requests sent with another configuration's token

breaker == <<circuit, failures, cooled>>
auth    == <<conn, credential, token, generation, authReq, loginGen, loginConn>>
calls   == <<stage, waitOn, attempt, flag, outcome>>
ghosts  == <<uncertain, crossed>>
vars    == <<breaker, auth, calls, ghosts>>

Outcomes ==
  {"none", "ok", "refused", "unauthorized", "down", "loginDown", "loginRefused"}

TypeOK ==
  /\ circuit \in {"CLOSED", "OPEN", "HALF_OPEN"}
  /\ failures \in 0..MaxFailures /\ cooled \in BOOLEAN
  /\ conn \in Nat /\ credential \in {"key", "login"}
  /\ token \in Nat \cup {-1} /\ generation \in Nat
  /\ authReq \in Requests \cup {"none"}
  /\ loginGen \in [Requests -> Nat \cup {-1}]
  /\ loginConn \in [Requests -> Nat]
  /\ stage \in [Requests -> {"idle", "auth", "sent", "backoff", "done"}]
  /\ waitOn \in [Requests -> Requests \cup {"none"}]
  /\ attempt \in [Requests -> 0..MaxRetries + 1]
  /\ flag \in [Requests -> BOOLEAN]
  /\ outcome \in [Requests -> Outcomes]
  /\ uncertain \subseteq Requests /\ crossed \subseteq Requests

Init ==
  /\ circuit = "CLOSED" /\ failures = 0 /\ cooled = FALSE
  /\ conn = 0 /\ credential \in {"key", "login"}
  /\ token = -1 /\ generation = 0 /\ authReq = "none"
  /\ loginGen = [r \in Requests |-> -1]
  /\ loginConn = [r \in Requests |-> 0]
  /\ stage = [r \in Requests |-> "idle"]
  /\ waitOn = [r \in Requests |-> "none"]
  /\ attempt = [r \in Requests |-> 0]
  /\ flag = [r \in Requests |-> FALSE]
  /\ outcome = [r \in Requests |-> "none"]
  /\ uncertain = {} /\ crossed = {}

-----------------------------------------------------------------------------
(* The circuit breaker.                                                    *)

ApiKey == credential = "key"

Reset == circuit' = "CLOSED" /\ failures' = 0 /\ cooled' = FALSE

RecordFailure ==
  LET n == IF failures < MaxFailures THEN failures + 1 ELSE failures IN
  /\ failures' = n
  /\ IF n >= Threshold \/ circuit = "HALF_OPEN"
       THEN circuit' = "OPEN" /\ cooled' = FALSE
       ELSE UNCHANGED <<circuit, cooled>>

FastFail == circuit = "OPEN" /\ ~cooled

(* checkCircuit, when it does not throw.                                   *)
LetThrough ==
  /\ circuit' = IF circuit = "OPEN" THEN "HALF_OPEN" ELSE circuit
  /\ UNCHANGED <<failures, cooled>>

-----------------------------------------------------------------------------
(* What happens to the requests W when their token is settled.             *)

Move(W, place, leader) ==
  /\ stage' = [x \in Requests |-> IF x \in W THEN place ELSE stage[x]]
  /\ waitOn' = [x \in Requests |-> IF x \in W THEN leader ELSE waitOn[x]]

(* fetch() goes out to the configured origin with the token t.             *)
Send(W, t) ==
  /\ Move(W, "sent", "none")
  /\ crossed' = IF t = conn THEN crossed ELSE crossed \cup W
  /\ UNCHANGED <<outcome, uncertain>>

Throw(W, what) ==
  /\ Move(W, "done", "none")
  /\ outcome' = [x \in Requests |-> IF x \in W THEN what ELSE outcome[x]]
  /\ UNCHANGED ghosts

(* getAuthToken past its circuit check: a cached token, the login in       *)
(* flight, or a login of r's own.                                          *)
Authorize(W, r) ==
  \/ /\ ApiKey
     /\ Send(W, conn)
     /\ loginGen' = [loginGen EXCEPT ![r] = -1]
     /\ UNCHANGED <<conn, credential, token, generation, authReq, loginConn>>
  \/ /\ ~ApiKey /\ token # -1
     /\ Send(W, token)
     /\ loginGen' = [loginGen EXCEPT ![r] = -1]
     /\ UNCHANGED <<conn, credential, token, generation, authReq, loginConn>>
  \/ /\ ~ApiKey /\ token = -1 /\ authReq # "none"
     /\ Move(W, "auth", authReq)
     /\ loginGen' = [loginGen EXCEPT ![r] = -1]
     /\ UNCHANGED <<conn, credential, token, generation, authReq, loginConn, outcome,
                    ghosts>>
  \/ /\ ~ApiKey /\ token = -1 /\ authReq = "none"
     /\ Move(W, "auth", r)
     /\ authReq' = r
     /\ loginGen' = [loginGen EXCEPT ![r] = generation]
     /\ loginConn' = [loginConn EXCEPT ![r] = conn]
     /\ UNCHANGED <<conn, credential, token, generation, outcome, ghosts>>

(* Mutant: a retry does not look at the breaker.                           *)
GetAuthTokenUnchecked(r) == Authorize({r}, r) /\ UNCHANGED breaker

(* getAuthToken on behalf of one request.                                  *)
GetAuthToken(r) ==
  \/ /\ ~ApiKey /\ FastFail
     /\ Throw({r}, "loginDown")
     /\ UNCHANGED <<breaker, auth>>
  \/ /\ ~ApiKey /\ ~FastFail
     /\ LetThrough
     /\ Authorize({r}, r)
  \/ ApiKey /\ Authorize({r}, r) /\ UNCHANGED breaker

-----------------------------------------------------------------------------
(* request()                                                               *)

Begin(r) ==
  /\ stage[r] = "idle"
  /\ UNCHANGED <<attempt, flag>>
  /\ \/ FastFail /\ Throw({r}, "down") /\ UNCHANGED <<breaker, auth>>
     \/ ~FastFail /\ LetThrough /\ Authorize({r}, r)

Resume(r) ==
  /\ stage[r] = "backoff"
  /\ GetAuthToken(r)
  /\ UNCHANGED <<attempt, flag>>

Ok(r) ==
  /\ stage[r] = "sent"
  /\ Throw({r}, "ok")
  /\ Reset
  /\ UNCHANGED <<auth, attempt, flag>>

(* A 4xx other than 401: final, whatever earlier attempts did.             *)
Refuse(r) ==
  /\ stage[r] = "sent"
  /\ Throw({r}, "refused")
  /\ UNCHANGED <<breaker, auth, attempt, flag>>

(* invalidateToken, and the login r then starts in the new generation.     *)
Relogin(r) ==
  /\ Move({r}, "auth", r)
  /\ token' = -1 /\ authReq' = r
  /\ generation' = generation + 1
  /\ loginGen' = [loginGen EXCEPT ![r] = generation + 1]
  /\ loginConn' = [loginConn EXCEPT ![r] = conn]
  /\ UNCHANGED <<conn, credential, outcome, ghosts>>

InvalidateToken ==
  /\ token' = -1 /\ authReq' = "none"
  /\ generation' = generation + 1

(* 401: the first attempt drops the token and goes round once more.        *)
Unauthorized(r) ==
  /\ stage[r] = "sent"
  /\ \/ /\ ~ApiKey /\ attempt[r] = 0
        /\ \/ FastFail /\ InvalidateToken /\ Throw({r}, "loginDown")
              /\ UNCHANGED <<breaker, conn, credential, loginGen, loginConn>>
           \/ ~FastFail /\ LetThrough /\ Relogin(r)
        /\ attempt' = [attempt EXCEPT ![r] = 1]
        /\ flag' = [flag EXCEPT ![r] = FALSE]
     \/ /\ ApiKey \/ attempt[r] > 0
        /\ Throw({r}, "unauthorized")
        /\ UNCHANGED <<breaker, auth, attempt, flag>>

(* Mutant: only the last attempt decides whether the request went out.     *)
FailForgetful(r, left) ==
  /\ stage[r] = "sent"
  /\ uncertain' = IF left THEN uncertain \cup {r} ELSE uncertain
  /\ flag' = [flag EXCEPT ![r] = left]
  /\ UNCHANGED <<auth, crossed>>
  /\ IF attempt[r] >= MaxRetries \/ (~left /\ attempt[r] >= 1)
       THEN /\ RecordFailure
            /\ Move({r}, "done", "none")
            /\ outcome' = [outcome EXCEPT ![r] = "down"]
            /\ UNCHANGED attempt
       ELSE /\ Move({r}, "backoff", "none")
            /\ attempt' = [attempt EXCEPT ![r] = @ + 1]
            /\ UNCHANGED <<breaker, outcome>>

(* Mutant: the limit on attempts is off by two.                            *)
FailLate(r, left) ==
  /\ stage[r] = "sent" /\ attempt[r] <= MaxRetries + 1
  /\ uncertain' = IF left THEN uncertain \cup {r} ELSE uncertain
  /\ flag' = [flag EXCEPT ![r] = @ \/ left]
  /\ UNCHANGED <<auth, crossed, breaker, outcome>>
  /\ Move({r}, "backoff", "none")
  /\ attempt' = [attempt EXCEPT ![r] = @ + 1]

(* A network failure or a retryable 5xx; left: it may have gone out.       *)
Fail(r, left) ==
  LET sent == flag[r] \/ left IN
  /\ stage[r] = "sent"
  /\ uncertain' = IF left THEN uncertain \cup {r} ELSE uncertain
  /\ flag' = [flag EXCEPT ![r] = sent]
  /\ UNCHANGED <<auth, crossed>>
  /\ IF attempt[r] >= MaxRetries \/ (~sent /\ attempt[r] >= 1)
       THEN /\ RecordFailure
            /\ Move({r}, "done", "none")
            /\ outcome' = [outcome EXCEPT ![r] = "down"]
            /\ UNCHANGED attempt
       ELSE /\ Move({r}, "backoff", "none")
            /\ attempt' = [attempt EXCEPT ![r] = @ + 1]
            /\ UNCHANGED <<breaker, outcome>>

-----------------------------------------------------------------------------
(* fetchAuthToken, led by r for everyone who awaits it.                    *)

Waiters(r) == {x \in Requests : stage[x] = "auth" /\ waitOn[x] = r}

LoginDone(r) ==
  /\ loginGen' = [loginGen EXCEPT ![r] = -1]
  /\ authReq' = IF authReq = r THEN "none" ELSE authReq
  /\ UNCHANGED <<conn, credential, generation, loginConn>>

(* Mutant: whatever token arrives is cached and used.                      *)
LoginOkStale(r) ==
  /\ loginGen[r] # -1
  /\ Reset
  /\ token' = loginConn[r]
  /\ Send(Waiters(r), loginConn[r])
  /\ LoginDone(r)
  /\ UNCHANGED <<attempt, flag>>

(* Mutant: a failed login answers only the request that started it.        *)
LoginFailsAlone(r) ==
  /\ loginGen[r] # -1
  /\ RecordFailure /\ Throw({r}, "loginDown")
  /\ LoginDone(r)
  /\ UNCHANGED <<token, attempt, flag>>

(* A token of an earlier generation is thrown away: ask again.             *)
LoginOk(r) ==
  /\ loginGen[r] # -1
  /\ Reset
  /\ UNCHANGED <<attempt, flag>>
  /\ \/ /\ loginGen[r] = generation
        /\ token' = loginConn[r]
        /\ Send(Waiters(r), loginConn[r])
        /\ LoginDone(r)
     \/ /\ loginGen[r] # generation
        /\ Authorize(Waiters(r), r)

LoginFails(r) ==
  /\ loginGen[r] # -1
  /\ \/ RecordFailure /\ Throw(Waiters(r), "loginDown")
     \/ UNCHANGED breaker /\ Throw(Waiters(r), "loginRefused")
  /\ LoginDone(r)
  /\ UNCHANGED <<token, attempt, flag>>

-----------------------------------------------------------------------------
(* Live settings, the passage of time and the health probe.                *)

Configure ==
  /\ conn < MaxConfigs
  /\ conn' = conn + 1
  /\ credential' \in {"key", "login"}
  /\ InvalidateToken
  /\ Reset
  /\ UNCHANGED <<loginGen, loginConn, calls, ghosts>>

TokenExpires ==
  /\ token # -1
  /\ token' = -1
  /\ UNCHANGED <<breaker, conn, credential, generation, authReq, loginGen, loginConn, calls, ghosts>>

CoolDown ==
  /\ FastFail
  /\ cooled' = TRUE
  /\ UNCHANGED <<circuit, failures, auth, calls, ghosts>>

CheckHealth ==
  /\ Reset \/ RecordFailure
  /\ UNCHANGED <<auth, calls, ghosts>>

Step(r) ==
  \/ Begin(r) \/ Resume(r)
  \/ Ok(r) \/ Refuse(r) \/ Unauthorized(r) \/ Fail(r, TRUE) \/ Fail(r, FALSE)
  \/ LoginOk(r) \/ LoginFails(r)

Next ==
  \/ \E r \in Requests : Step(r)
  \/ Configure \/ TokenExpires \/ CoolDown \/ CheckHealth

Spec == Init /\ [][Next]_vars
FairSpec == Spec /\ \A r \in Requests : WF_vars(Step(r))

-----------------------------------------------------------------------------
(* The counter and the state of the breaker never disagree: it is closed   *)
(* exactly while fewer failures than the threshold came in a row, so no    *)
(* order of late answers, probes and reconfigurations leaves it stuck.     *)
BreakerCounts == circuit = "CLOSED" <=> failures < Threshold

(* While the breaker is open nothing is sent, except retries under a       *)
(* static key: not after a login that started before it opened either.     *)
NothingSentWhileOpen ==
  [][\A r \in Requests :
       ~ApiKey /\ stage[r] # "sent" /\ stage'[r] = "sent" => circuit' # "OPEN"]_vars

(* No request carries the token of another configuration, however logins,  *)
(* 401s and changes of the live settings interleave.                       *)
TokenIsCurrent == crossed = {} /\ token \in {-1, conn}

(* Concurrent requests of one generation share a single login.             *)
OneLogin ==
  \A r, s \in Requests :
    loginGen[r] = generation /\ loginGen[s] = generation => r = s

(* "down" on the request's own endpoint says exactly whether some attempt  *)
(* may have reached the panel, an earlier one included.                    *)
DownTellsDispatch ==
  \A r \in Requests : outcome[r] = "down" => (flag[r] <=> r \in uncertain)

(* Every request answers its caller, with a login shared or restarted.     *)
Answers == \A r \in Requests : stage[r] # "idle" ~> stage[r] = "done"

=============================================================================
