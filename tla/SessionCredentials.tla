------------------------- MODULE SessionCredentials -------------------------
(***************************************************************************)
(* The signed-in session: the three tokens of a sign-in and the temporary  *)
(* AWS credentials in storage, and everything that reads or writes them    *)
(* with awaits in between: signed requests (ESPSigV4APIManager), fetches   *)
(* of credentials, token refreshes, getLoggedInUser, sign-in and logout.   *)
(*                                                                         *)
(* A token or a set of credentials is the number of the sign-in it comes   *)
(* from: a refresh gives tokens of the sign-in of its refresh token.       *)
(* Whether something has expired is decided by a clock, so either answer   *)
(* is possible.  The storage adapter carries out calls in the order they   *)
(* are made: calls made without an await between them are one step.        *)
(***************************************************************************)
EXTENDS Naturals, FiniteSets

CONSTANTS Requests,        \* signed requests the app makes
          Runs,            \* fetches and restores that can be under way at once
          NoRun,
          MaxSignin,       \* bound on sign-ins
          MaxRetries,      \* MAX_CREDENTIAL_RETRIES
          Overlap,         \* sign-in, restore and logout may meet work in flight
          MayRestart,      \* the app may be killed and started again
          StorageMayFail   \* a write to storage may be rejected

ASSUME SessionAssumption ==
  /\ NoRun \notin Runs
  /\ MaxSignin \in Nat
  /\ MaxRetries \in Nat
  /\ {Overlap, MayRestart, StorageMayFail} \subseteq BOOLEAN

VARIABLES
  user,      \* the sign-in the app is in, 0 before the first and after logout
  signins,   \* how many sign-ins there have been
  token,     \* ACCESSTOKEN, IDTOKEN and REFRESHTOKEN in storage, 0 if absent
  creds,     \* TEMPORARY_AWS_CREDENTIALS in storage, 0 if absent
  inFlight,  \* refreshInFlight
  at,        \* where each run is
  kind,      \* who started it
  carried,   \* the tokens it holds in its locals
  attempt,   \* its credential retries so far
  phase,     \* where each signed request is
  retries,   \* its retriesLeft
  caught,    \* it is in the catch of _signedRequest
  joined,    \* the run it awaits
  signedBy,  \* the credentials it was signed with
  logout     \* where the logout is

sessionVars == <<user, signins>>
storeVars == <<token, creds>>
runVars == <<inFlight, at, kind, carried, attempt>>
requestVars == <<phase, retries, caught, joined, signedBy>>
vars == <<sessionVars, storeVars, runVars, requestVars, logout>>

Signin == 0..MaxSignin
Slot == {"access", "id", "refresh"}
Tokens == [Slot -> Signin]
Of(s) == [k \in Slot |-> s]
RunAt == {"idle", "checking", "renewing", "extending", "access", "id", "refresh",
          "reading", "posting", "saving", "resaving", "reloading", "persisting"}
Phase == {"idle", "reading", "refreshing", "refetching", "sent", "clearing", "ok", "error"}
LogoutAt == {"off", "leaving", "access", "id", "refresh", "creds", "returning"}
Settled == {"ok", "error"}

Init ==
  /\ user = 0 /\ signins = 0
  /\ token = Of(0) /\ creds = 0
  /\ inFlight = NoRun
  /\ at = [t \in Runs |-> "idle"]
  /\ kind = [t \in Runs |-> "direct"]
  /\ carried = [t \in Runs |-> Of(0)]
  /\ attempt = [t \in Runs |-> 0]
  /\ phase = [r \in Requests |-> "idle"]
  /\ retries = [r \in Requests |-> 1]
  /\ caught = [r \in Requests |-> FALSE]
  /\ joined = [r \in Requests |-> NoRun]
  /\ signedBy = [r \in Requests |-> 0]
  /\ logout = "off"

Working == {r \in Requests : phase[r] \notin {"idle"} \cup Settled}
Idle == {t \in Runs : at[t] = "idle"}
Free == Overlap \/ (Working = {} /\ Idle = Runs)
Open == Overlap \/ (logout = "off" /\ user > 0 /\ \A t \in Runs : at[t] # "idle" => kind[t] # "restore")

-----------------------------------------------------------------------------
(* A run: fetchTemporaryAWSCredentials, or getLoggedInUser.                *)

Start(t, k, where, held) ==
  /\ at' = [at EXCEPT ![t] = where]
  /\ kind' = [kind EXCEPT ![t] = k]
  /\ carried' = [carried EXCEPT ![t] = held]
  /\ attempt' = [attempt EXCEPT ![t] = 0]

Goto(t, where) ==
  /\ at' = [at EXCEPT ![t] = where]
  /\ UNCHANGED <<inFlight, kind, attempt, requestVars>>

\* The finally of the coalesced run, which no other run has.
Release(t) == IF kind[t] = "coalesced" THEN NoRun ELSE inFlight

Awaiting(t) == {r \in Requests : joined[r] = t}

\* A 403 reaches withCredentialsRetry, whoever answered it.
AfterFailure(r, forbidden) ==
  IF forbidden /\ retries[r] > 0 THEN "clearing" ELSE "error"

\* The run is over and its locals are gone.
Forget(t) == Start(t, "direct", "idle", Of(0))

Return(t) ==
  /\ Forget(t)
  /\ inFlight' = Release(t)
  /\ phase' = [r \in Requests |-> IF r \in Awaiting(t) THEN "sent" ELSE phase[r]]
  /\ signedBy' = [r \in Requests |-> IF r \in Awaiting(t) THEN carried[t]["access"] ELSE signedBy[r]]
  /\ joined' = [r \in Requests |-> IF r \in Awaiting(t) THEN NoRun ELSE joined[r]]
  /\ UNCHANGED <<retries, caught>>

\* Mutation: refreshInFlight is reset on success only.
ThrowKeepingFlight(t, forbidden) ==
  /\ Forget(t)
  /\ phase' = [r \in Requests |->
                 IF r \notin Awaiting(t) THEN phase[r]
                 ELSE IF caught[r] THEN AfterFailure(r, forbidden) ELSE "refetching"]
  /\ joined' = [r \in Requests |-> IF r \in Awaiting(t) THEN NoRun ELSE joined[r]]
  /\ UNCHANGED <<inFlight, retries, caught, signedBy>>

\* A failed refresh throws to each request that awaits it: out of the try it is
\* caught and refreshed once more, out of the catch it is the request's failure.
Throw(t, forbidden) ==
  /\ Forget(t)
  /\ inFlight' = Release(t)
  /\ phase' = [r \in Requests |->
                 IF r \notin Awaiting(t) THEN phase[r]
                 ELSE IF caught[r] THEN AfterFailure(r, forbidden) ELSE "refetching"]
  /\ joined' = [r \in Requests |-> IF r \in Awaiting(t) THEN NoRun ELSE joined[r]]
  /\ UNCHANGED <<retries, caught, signedBy>>

\* user.getTemporaryAWSCredentials(), which connectMQTT calls as well.
FetchDirect(t) ==
  /\ Open /\ t \in Idle /\ Cardinality(Idle) > 1
  /\ Start(t, "direct", "checking", Of(0))
  /\ UNCHANGED <<sessionVars, storeVars, inFlight, requestVars, logout>>

EnsureValidIdToken(t) ==
  /\ at[t] = "checking"
  /\ \/ token["id"] = 0 /\ Throw(t, FALSE)
     \/ token["id"] > 0 /\ UNCHANGED carried /\ \E where \in {"reading", "renewing"} : Goto(t, where)
  /\ UNCHANGED <<sessionVars, storeVars, logout>>

RefreshUserSession(t) ==
  /\ at[t] = "renewing"
  /\ \/ token["refresh"] = 0 /\ Throw(t, FALSE)
     \/ /\ token["refresh"] > 0
        /\ carried' = [carried EXCEPT ![t] = Of(token["refresh"])]
        /\ Goto(t, "extending")
  /\ UNCHANGED <<sessionVars, storeVars, logout>>

\* The answer of token/refresh: tokens of the sign-in of the refresh token.
Extended(t) ==
  /\ at[t] = "extending"
  /\ \/ Goto(t, "access") /\ carried' = [carried EXCEPT ![t] = Of(carried[t]["refresh"])]
     \/ \E forbidden \in BOOLEAN : Throw(t, forbidden)
  /\ UNCHANGED <<sessionVars, storeVars, logout>>

\* extendSession stores the three one after another.
NextWrite(t) ==
  CASE at[t] = "access" -> "id"
    [] at[t] = "id" -> "refresh"
    [] at[t] = "refresh" -> IF kind[t] = "restore" THEN "reloading" ELSE "reading"

StoreToken(t) ==
  /\ at[t] \in Slot
  /\ \/ /\ token' = [token EXCEPT ![at[t]] = carried[t][at[t]]]
        /\ Goto(t, NextWrite(t)) /\ UNCHANGED carried
     \/ StorageMayFail /\ Throw(t, FALSE) /\ UNCHANGED token
  /\ UNCHANGED <<sessionVars, creds, logout>>

\* postUserCredentials: both tokens read together, then the POST.
PostUserCredentials(t) ==
  /\ at[t] = "reading"
  /\ \/ 0 \in {token["access"], token["id"]} /\ Throw(t, FALSE)
     \/ /\ 0 \notin {token["access"], token["id"]}
        /\ carried' = [carried EXCEPT ![t] = token]
        /\ Goto(t, "posting")
  /\ UNCHANGED <<sessionVars, storeVars, logout>>

\* The credentials issued are those of the Bearer access token.
Posted(t) ==
  /\ at[t] = "posting"
  /\ \/ Goto(t, "saving") /\ UNCHANGED carried
     \/ /\ attempt[t] < MaxRetries
        /\ at' = [at EXCEPT ![t] = "renewing"]
        /\ attempt' = [attempt EXCEPT ![t] = @ + 1]
        /\ UNCHANGED <<inFlight, kind, carried, requestVars>>
     \/ Throw(t, FALSE)
  /\ UNCHANGED <<sessionVars, storeVars, logout>>

\* saveTemporaryCredentials, which the coalesced caller calls a second time.
SaveCredentials(t) ==
  /\ at[t] \in {"saving", "resaving"}
  /\ \/ /\ creds' = carried[t]["access"]
        /\ \/ at[t] = "saving" /\ kind[t] = "coalesced" /\ Goto(t, "resaving") /\ UNCHANGED carried
           \/ (at[t] = "resaving" \/ kind[t] = "direct") /\ Return(t)
     \/ StorageMayFail /\ Throw(t, FALSE) /\ UNCHANGED creds
  /\ UNCHANGED <<sessionVars, token, logout>>

Complete(held) == \A k \in Slot : held[k] > 0

\* getLoggedInUser with tokens in storage; without, it returns null.
GetLoggedInUser(t) ==
  /\ t \in Idle /\ Cardinality(Idle) > 1
  /\ Free /\ (Overlap \/ logout = "off")
  /\ Complete(token)
  /\ \E where \in {"extending", "persisting"} : Start(t, "restore", where, token)
  /\ UNCHANGED <<sessionVars, storeVars, inFlight, requestVars, logout>>

Reload(t) ==
  /\ at[t] = "reloading"
  /\ \/ Complete(token) /\ carried' = [carried EXCEPT ![t] = token] /\ Goto(t, "persisting")
     \/ ~Complete(token) /\ Throw(t, FALSE)     \* returns null, nobody awaits it
  /\ UNCHANGED <<sessionVars, storeVars, logout>>

\* Mutation: the ID token is not persisted.
NewUserWithoutId(tokens) == token' = [tokens EXCEPT !["id"] = token["id"]]

\* The constructor of ESPRMNeoUser: three writes it does not await.
NewUser(tokens) == token' = tokens

PersistRestored(t) ==
  /\ at[t] = "persisting"
  /\ NewUser(carried[t])
  /\ Return(t)
  /\ UNCHANGED <<sessionVars, creds, logout>>

-----------------------------------------------------------------------------
(* A signed request: request, withCredentialsRetry, _signedRequest.        *)

\* refreshTemporaryCredentialsOnce: join the refresh in flight, or start it.
RefreshOnce(r, inCatch) ==
  /\ caught' = [caught EXCEPT ![r] = inCatch]
  /\ phase' = [phase EXCEPT ![r] = "refreshing"]
  /\ \/ /\ inFlight # NoRun
        /\ joined' = [joined EXCEPT ![r] = inFlight]
        /\ UNCHANGED runVars
     \/ /\ inFlight = NoRun
        /\ \E t \in Idle :
             /\ Start(t, "coalesced", "checking", Of(0))
             /\ inFlight' = t
             /\ joined' = [joined EXCEPT ![r] = t]
  /\ UNCHANGED <<retries, signedBy>>

MakeRequest(r) ==
  /\ Open /\ phase[r] = "idle"
  /\ phase' = [phase EXCEPT ![r] = "reading"]
  /\ UNCHANGED <<sessionVars, storeVars, runVars, retries, caught, joined, signedBy, logout>>

ReadCredentials(r) ==
  /\ phase[r] = "reading"
  /\ \/ creds = 0 /\ RefreshOnce(r, TRUE)
     \/ creds > 0 /\ RefreshOnce(r, FALSE)     \* areCredentialsExpired
     \/ /\ creds > 0
        /\ phase' = [phase EXCEPT ![r] = "sent"]
        /\ signedBy' = [signedBy EXCEPT ![r] = creds]
        /\ UNCHANGED <<runVars, retries, caught, joined>>
  /\ UNCHANGED <<sessionVars, storeVars, logout>>

Refetch(r) ==
  /\ phase[r] = "refetching"
  /\ RefreshOnce(r, TRUE)
  /\ UNCHANGED <<sessionVars, storeVars, logout>>

Answered(r) ==
  /\ phase[r] = "sent"
  /\ \E outcome \in {"ok", "error", AfterFailure(r, TRUE)} : phase' = [phase EXCEPT ![r] = outcome]
  /\ signedBy' = [signedBy EXCEPT ![r] = 0]
  /\ UNCHANGED <<sessionVars, storeVars, runVars, retries, caught, joined, logout>>

\* Mutation: the retry may be retried again.
RetryAlways(r) ==
  /\ creds' = 0
  /\ phase' = [phase EXCEPT ![r] = "reading"]
  /\ UNCHANGED retries

\* After a 403: clear the credentials and run it again, once.
RetryCleared(r) ==
  /\ creds' = 0
  /\ phase' = [phase EXCEPT ![r] = "reading"]
  /\ retries' = [retries EXCEPT ![r] = @ - 1]

Retry(r) ==
  /\ phase[r] = "clearing"
  /\ \/ RetryCleared(r)
     \/ StorageMayFail /\ phase' = [phase EXCEPT ![r] = "error"] /\ UNCHANGED <<creds, retries>>
  /\ UNCHANGED <<sessionVars, token, runVars, caught, joined, signedBy, logout>>

-----------------------------------------------------------------------------
(* Sign-in, logout and the end of the process.                             *)

\* The app shows the sign-in form when it has no user, or getLoggedInUser
\* returned null.
Login ==
  /\ signins < MaxSignin
  /\ Free /\ logout = "off"
  /\ user = 0 \/ ~Complete(token)
  /\ signins' = signins + 1
  /\ user' = signins + 1
  /\ NewUser(Of(signins + 1))
  /\ UNCHANGED <<creds, runVars, requestVars, logout>>

\* Logout, up to the answer of the server and the end of the MQTT session.
StartLogout ==
  /\ logout = "off" /\ user > 0 /\ Free
  /\ logout' = "leaving"
  /\ UNCHANGED <<sessionVars, storeVars, runVars, requestVars>>

Left ==
  /\ logout = "leaving"
  /\ logout' = "access"
  /\ UNCHANGED <<sessionVars, storeVars, runVars, requestVars>>

\* clearTokens; failSafe swallows a rejected removal and goes on to the next step.
ClearToken ==
  /\ logout \in Slot
  /\ \/ /\ token' = [token EXCEPT ![logout] = 0]
        /\ logout' = CASE logout = "access" -> "id" [] logout = "id" -> "refresh" [] logout = "refresh" -> "creds"
     \/ StorageMayFail /\ logout' = "creds" /\ UNCHANGED token
  /\ UNCHANGED <<sessionVars, creds, runVars, requestVars>>

\* Mutation: logout forgets the AWS credentials.
KeepCredentials ==
  /\ logout = "creds"
  /\ logout' = "returning"
  /\ UNCHANGED <<sessionVars, storeVars, runVars, requestVars>>

ClearCredentials ==
  /\ logout = "creds"
  /\ creds' = 0 \/ (StorageMayFail /\ UNCHANGED creds)
  /\ logout' = "returning"
  /\ UNCHANGED <<sessionVars, token, runVars, requestVars>>

\* clearNodeConfigCache, then return true.
LogoutReturns ==
  /\ logout = "returning"
  /\ logout' = "off" /\ user' = 0
  /\ UNCHANGED <<signins, storeVars, runVars, requestVars>>

\* The process is killed: what is in memory goes, storage stays.
Restart ==
  /\ MayRestart
  /\ inFlight' = NoRun
  /\ at' = [t \in Runs |-> "idle"]
  /\ kind' = [t \in Runs |-> "direct"]
  /\ carried' = [t \in Runs |-> Of(0)]
  /\ attempt' = [t \in Runs |-> 0]
  /\ phase' = [r \in Requests |-> "idle"]
  /\ retries' = [r \in Requests |-> 1]
  /\ caught' = [r \in Requests |-> FALSE]
  /\ joined' = [r \in Requests |-> NoRun]
  /\ signedBy' = [r \in Requests |-> 0]
  /\ logout' = "off"
  /\ UNCHANGED <<sessionVars, storeVars>>

RunStep(t) ==
  \/ EnsureValidIdToken(t) \/ RefreshUserSession(t) \/ Extended(t) \/ StoreToken(t)
  \/ PostUserCredentials(t) \/ Posted(t) \/ SaveCredentials(t)
  \/ Reload(t) \/ PersistRestored(t)

RequestStep(r) == ReadCredentials(r) \/ Refetch(r) \/ Answered(r) \/ Retry(r)

LogoutStep == Left \/ ClearToken \/ ClearCredentials \/ LogoutReturns

Next ==
  \/ \E t \in Runs : FetchDirect(t) \/ GetLoggedInUser(t) \/ RunStep(t)
  \/ \E r \in Requests : MakeRequest(r) \/ RequestStep(r)
  \/ Login \/ StartLogout \/ LogoutStep \/ Restart

Spec == Init /\ [][Next]_vars

\* fetch answers or fails, storage calls settle, and continuations run.
Fairness ==
  /\ \A t \in Runs : WF_vars(RunStep(t))
  /\ \A r \in Requests : WF_vars(RequestStep(r))
  /\ WF_vars(LogoutStep)

FairSpec == Spec /\ Fairness

-----------------------------------------------------------------------------
(* Properties *)

\* Type correctness.
TypeOK ==
  /\ user \in Signin /\ signins \in Signin
  /\ token \in Tokens /\ creds \in Signin
  /\ inFlight \in Runs \cup {NoRun}
  /\ at \in [Runs -> RunAt]
  /\ kind \in [Runs -> {"direct", "coalesced", "restore"}]
  /\ carried \in [Runs -> Tokens]
  /\ attempt \in [Runs -> 0..MaxRetries]
  /\ phase \in [Requests -> Phase]
  /\ retries \in [Requests -> 0..1]
  /\ caught \in [Requests -> BOOLEAN]
  /\ joined \in [Requests -> Runs \cup {NoRun}]
  /\ signedBy \in [Requests -> Signin]
  /\ logout \in LogoutAt

Coalesced == {t \in Runs : at[t] # "idle" /\ kind[t] = "coalesced"}

\* refreshInFlight is the coalesced run under way, from its first step to its last,
\* however it ends: there is at most one.
OneRefresh == Coalesced = {inFlight} \ {NoRun}

\* Nobody waits on a refresh that is over: the run each waiting request awaits
\* is the one in flight.
WaitersJoinLive ==
  \A r \in Requests :
    /\ phase[r] = "refreshing" <=> joined[r] # NoRun
    /\ joined[r] # NoRun => joined[r] = inFlight

\* Requests that find their credentials expired or missing share one fetch, whatever
\* fails and whenever the app is killed: who comes while one is under way joins it, who
\* waits waits on that one, and all leave it when it ends.
Shared == INSTANCE SingleFlight WITH
  Callers <- Requests, Flights <- Runs, NoFlight <- NoRun, airborne <- Coalesced, aboard <- joined
SharesOneFlight == Shared!Spec

\* Between sign-in and logout storage holds that sign-in's tokens and no other
\* credentials than its own; outside, it holds nothing.
StorageIsUsers == logout = "off" => token = Of(user) /\ creds \in {0, user}

\* Every request on the wire is signed with credentials of the user who is
\* signed in.
SignedAsUser == \A r \in Requests : phase[r] = "sent" => signedBy[r] = user

\* When logout has returned, the user's tokens and credentials are gone from
\* storage and stay gone.
LoggedOutHoldsNothing == user = 0 => token = Of(0) /\ creds = 0

\* Every signed request settles, through refreshes that fail and 403s, with no
\* retry without end, unless the app is killed under it.
EveryRequestSettles == \A r \in Requests : phase[r] = "reading" ~> phase[r] \in Settled \cup {"idle"}
=============================================================================
