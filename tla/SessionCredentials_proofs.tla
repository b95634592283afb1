---------------------- MODULE SessionCredentials_proofs ----------------------
(***************************************************************************)
(* Proofs about the refresh that signed requests share.  The invariant     *)
(* relates, run by run, being a coalesced refresh to being refreshInFlight,*)
(* and request by request, waiting to waiting on that run.                 *)
(* Then about whose tokens and credentials storage and requests have while *)
(* sign-in and logout wait for the work in flight.                         *)
(***************************************************************************)
EXTENDS SessionCredentials, TLAPS

-----------------------------------------------------------------------------
(* The type invariant in four parts, as the actions change them.           *)

StoreType == user \in Signin /\ signins \in Signin /\ token \in Tokens /\ creds \in Signin

RunType ==
  /\ inFlight \in Runs \cup {NoRun}
  /\ at \in [Runs -> RunAt]
  /\ kind \in [Runs -> {"direct", "coalesced", "restore"}]
  /\ carried \in [Runs -> Tokens]
  /\ attempt \in [Runs -> 0..MaxRetries]

RequestType ==
  /\ phase \in [Requests -> Phase]
  /\ retries \in [Requests -> 0..1]
  /\ caught \in [Requests -> BOOLEAN]
  /\ joined \in [Requests -> Runs \cup {NoRun}]
  /\ signedBy \in [Requests -> Signin]

\* Credentials are cleared for a retry only if there is one left.
ClearingCanRetry == \A r \in Requests : phase[r] = "clearing" => retries[r] = 1

\* OneRefresh, run by run.
FlightIsCoalesced == \A t \in Runs : inFlight = t <=> at[t] # "idle" /\ kind[t] = "coalesced"

Types == StoreType /\ RunType /\ RequestType /\ ClearingCanRetry /\ logout \in LogoutAt
Sharing == FlightIsCoalesced /\ WaitersJoinLive
IInv == Types /\ Sharing

LEMMA OfType == ASSUME NEW s \in Signin PROVE Of(s) \in Tokens
BY DEF Of, Tokens

LEMMA NoSignin == SessionAssumption => 0 \in Signin
BY DEF SessionAssumption, Signin

-----------------------------------------------------------------------------
(* The steps of a run, as they change runs and requests.                   *)

LEMMA StartStep ==
  ASSUME SessionAssumption, IInv, NEW t \in Runs, NEW k \in {"direct", "coalesced", "restore"},
         NEW where \in RunAt, NEW held \in Tokens, Start(t, k, where, held)
  PROVE  /\ at' \in [Runs -> RunAt]
         /\ kind' \in [Runs -> {"direct", "coalesced", "restore"}]
         /\ carried' \in [Runs -> Tokens]
         /\ attempt' \in [Runs -> 0..MaxRetries]
         /\ at'[t] = where /\ kind'[t] = k
         /\ \A u \in Runs \ {t} : at'[u] = at[u] /\ kind'[u] = kind[u]
<1>1. RunType /\ 0 \in 0..MaxRetries
  BY DEF IInv, Types, RunType, SessionAssumption
<1> QED
  BY <1>1 DEF Start, RunType

LEMMA GotoStep ==
  ASSUME IInv, NEW t \in Runs, at[t] # "idle", NEW where \in RunAt \ {"idle"}, Goto(t, where),
         carried' \in [Runs -> Tokens]
  PROVE  RunType' /\ RequestType' /\ ClearingCanRetry' /\ Sharing'
<1>1. RunType' /\ RequestType' /\ ClearingCanRetry'
  BY DEF IInv, Types, Goto, requestVars, RunType, RequestType, ClearingCanRetry
<1>2. FlightIsCoalesced'
  BY DEF IInv, Types, RunType, Sharing, Goto, FlightIsCoalesced
<1>3. WaitersJoinLive'
  BY DEF IInv, Sharing, Goto, requestVars, WaitersJoinLive
<1> QED
  BY <1>1, <1>2, <1>3 DEF Sharing

\* Only the refresh in flight is awaited.
LEMMA OthersAwaitNothing ==
  ASSUME SessionAssumption, IInv, NEW t \in Runs, at[t] # "idle"
  PROVE  /\ kind[t] = "coalesced" => Awaiting(t) = {r \in Requests : joined[r] # NoRun}
         /\ kind[t] # "coalesced" => Awaiting(t) = {}
BY DEF SessionAssumption, IInv, Types, RunType, RequestType, Sharing, FlightIsCoalesced,
       WaitersJoinLive, Awaiting

\* However a run ends, its joiners leave it and the flight is over.
LEMMA EndStep ==
  ASSUME SessionAssumption, IInv, NEW t \in Runs, at[t] # "idle", Forget(t),
         inFlight' = Release(t),
         phase' \in [Requests -> Phase],
         \A r \in Requests : IF r \in Awaiting(t) THEN phase'[r] # "refreshing" ELSE phase'[r] = phase[r],
         joined' = [r \in Requests |-> IF r \in Awaiting(t) THEN NoRun ELSE joined[r]]
  PROVE  RunType' /\ Sharing' /\ joined' \in [Requests -> Runs \cup {NoRun}]
<1>1. /\ at' \in [Runs -> RunAt]
      /\ kind' \in [Runs -> {"direct", "coalesced", "restore"}]
      /\ carried' \in [Runs -> Tokens]
      /\ attempt' \in [Runs -> 0..MaxRetries]
      /\ at'[t] = "idle"
      /\ \A u \in Runs \ {t} : at'[u] = at[u] /\ kind'[u] = kind[u]
  <2>1. Of(0) \in Tokens
    BY OfType, NoSignin
  <2> QED
    BY <2>1, StartStep DEF Forget, RunAt
<1>2. RunType'
  BY <1>1 DEF IInv, Types, RunType, Release
<1>3. FlightIsCoalesced'
  BY <1>1 DEF IInv, Types, RunType, Sharing, FlightIsCoalesced, Release, SessionAssumption
<1>4. WaitersJoinLive'
  <2>1. CASE kind[t] = "coalesced"
    BY <2>1, OthersAwaitNothing DEF IInv, Types, RequestType, Sharing, WaitersJoinLive, Awaiting
  <2>2. CASE kind[t] # "coalesced"
    BY <2>2, OthersAwaitNothing DEF IInv, Types, RequestType, Sharing, WaitersJoinLive, Release
  <2> QED
    BY <2>1, <2>2
<1>5. joined' \in [Requests -> Runs \cup {NoRun}]
  BY DEF IInv, Types, RequestType
<1> QED
  BY <1>2, <1>3, <1>4, <1>5 DEF Sharing

LEMMA ReturnStep ==
  ASSUME SessionAssumption, IInv, NEW t \in Runs, at[t] # "idle", Return(t)
  PROVE  RunType' /\ RequestType' /\ ClearingCanRetry' /\ Sharing'
<1>1. /\ phase' \in [Requests -> Phase]
      /\ \A r \in Requests : phase'[r] = IF r \in Awaiting(t) THEN "sent" ELSE phase[r]
  BY DEF Return, IInv, Types, RequestType, Phase
<1>2. signedBy' \in [Requests -> Signin]
  BY DEF Return, IInv, Types, RequestType, RunType, Tokens, Slot
<1>3. RunType' /\ Sharing' /\ joined' \in [Requests -> Runs \cup {NoRun}]
  BY <1>1, EndStep DEF Return
<1>4. RequestType' /\ ClearingCanRetry'
  BY <1>1, <1>2, <1>3 DEF Return, IInv, Types, RequestType, ClearingCanRetry
<1> QED
  BY <1>3, <1>4

LEMMA ThrowStep ==
  ASSUME SessionAssumption, IInv, NEW t \in Runs, at[t] # "idle", NEW forbidden \in BOOLEAN,
         Throw(t, forbidden)
  PROVE  RunType' /\ RequestType' /\ ClearingCanRetry' /\ Sharing'
<1>1. /\ phase' \in [Requests -> Phase]
      /\ \A r \in Requests :
           IF r \in Awaiting(t)
           THEN /\ phase'[r] \in {"clearing", "error", "refetching"}
                /\ phase'[r] = "clearing" => retries[r] > 0
           ELSE phase'[r] = phase[r]
  BY DEF Throw, AfterFailure, IInv, Types, RequestType, Phase
<1>2. RunType' /\ Sharing' /\ joined' \in [Requests -> Runs \cup {NoRun}]
  BY <1>1, EndStep DEF Throw
<1>3. RequestType'
  BY <1>1, <1>2 DEF Throw, IInv, Types, RequestType
<1>4. ClearingCanRetry'
  BY <1>1 DEF Throw, IInv, Types, RequestType, ClearingCanRetry
<1> QED
  BY <1>2, <1>3, <1>4

\* A coalesced run starts or is joined.
LEMMA RefreshOnceStep ==
  ASSUME SessionAssumption, IInv, NEW r \in Requests, NEW inCatch \in BOOLEAN,
         phase[r] \in {"reading", "refetching"}, RefreshOnce(r, inCatch)
  PROVE  RunType' /\ RequestType' /\ ClearingCanRetry' /\ Sharing'
<1>1. /\ caught' \in [Requests -> BOOLEAN]
      /\ phase' \in [Requests -> Phase]
      /\ retries' = retries /\ signedBy' = signedBy
      /\ phase'[r] = "refreshing"
      /\ \A q \in Requests \ {r} : phase'[q] = phase[q]
  BY DEF RefreshOnce, IInv, Types, RequestType, Phase
<1>2. ClearingCanRetry'
  BY <1>1 DEF IInv, Types, ClearingCanRetry
<1>3. CASE inFlight # NoRun
  <2>1. joined' = [joined EXCEPT ![r] = inFlight] /\ UNCHANGED runVars
    BY <1>3 DEF RefreshOnce
  <2>2. RunType' /\ FlightIsCoalesced'
    BY <2>1 DEF IInv, Types, Sharing, RunType, FlightIsCoalesced, runVars
  <2>3. RequestType'
    BY <1>1, <2>1 DEF IInv, Types, RequestType, RunType
  <2>4. WaitersJoinLive'
    BY <1>1, <1>3, <2>1 DEF IInv, Types, RequestType, Sharing, WaitersJoinLive, runVars
  <2> QED
    BY <1>2, <2>2, <2>3, <2>4 DEF Sharing
<1>4. CASE inFlight = NoRun
  <2>1. PICK t \in Idle : /\ Start(t, "coalesced", "checking", Of(0))
                         /\ inFlight' = t
                         /\ joined' = [joined EXCEPT ![r] = t]
    BY <1>4 DEF RefreshOnce
  <2>2. t \in Runs /\ at[t] = "idle" /\ "checking" \in RunAt /\ Of(0) \in Tokens
    BY OfType, NoSignin DEF Idle, RunAt
  <2>3. /\ at' \in [Runs -> RunAt]
        /\ kind' \in [Runs -> {"direct", "coalesced", "restore"}]
        /\ carried' \in [Runs -> Tokens]
        /\ attempt' \in [Runs -> 0..MaxRetries]
        /\ at'[t] = "checking" /\ kind'[t] = "coalesced"
        /\ \A u \in Runs \ {t} : at'[u] = at[u] /\ kind'[u] = kind[u]
    BY <2>1, <2>2, StartStep
  <2>4. RunType'
    BY <2>1, <2>2, <2>3 DEF RunType
  <2>5. RequestType'
    BY <1>1, <2>1, <2>2 DEF IInv, Types, RequestType
  <2>6. FlightIsCoalesced'
    BY <1>4, <2>1, <2>2, <2>3 DEF IInv, Sharing, FlightIsCoalesced, SessionAssumption
  <2>7. WaitersJoinLive'
    BY <1>1, <1>4, <2>1, <2>2 DEF IInv, Types, RequestType, Sharing, WaitersJoinLive, SessionAssumption
  <2> QED
    BY <1>2, <2>4, <2>5, <2>6, <2>7 DEF Sharing
<1> QED
  BY <1>3, <1>4

-----------------------------------------------------------------------------
(* Every step keeps the invariant.                                         *)

LEMMA RunStepKeeps ==
  ASSUME SessionAssumption, IInv, NEW t \in Runs, RunStep(t)
  PROVE  IInv'
<1> USE DEF IInv, Types
<1>1. /\ carried[t] \in Tokens
      /\ \A k \in Slot : carried[t][k] \in Signin
      /\ token \in Tokens
      /\ \A k \in Slot : token[k] \in Signin
  BY DEF RunType, StoreType, Tokens
<1>2. {"access", "id", "refresh"} = Slot
  BY DEF Slot
<1>3. ASSUME NEW s \in Signin PROVE [carried EXCEPT ![t] = Of(s)] \in [Runs -> Tokens]
  BY <1>3, OfType DEF RunType
<1>4. [carried EXCEPT ![t] = token] \in [Runs -> Tokens] /\ carried \in [Runs -> Tokens]
  BY <1>1 DEF RunType
<1>5. CASE EnsureValidIdToken(t)
  <2>1. RunType' /\ RequestType' /\ ClearingCanRetry' /\ Sharing'
    BY <1>4, <1>5, GotoStep, ThrowStep DEF EnsureValidIdToken, RunAt
  <2> QED
    BY <1>5, <2>1 DEF EnsureValidIdToken, StoreType, sessionVars, storeVars
<1>6. CASE RefreshUserSession(t)
  <2>1. RunType' /\ RequestType' /\ ClearingCanRetry' /\ Sharing'
    BY <1>1, <1>2, <1>3, <1>6, GotoStep, ThrowStep DEF RefreshUserSession, RunAt
  <2> QED
    BY <1>6, <2>1 DEF RefreshUserSession, StoreType, sessionVars, storeVars
<1>7. CASE Extended(t)
  <2>1. RunType' /\ RequestType' /\ ClearingCanRetry' /\ Sharing'
    BY <1>1, <1>2, <1>3, <1>7, GotoStep, ThrowStep DEF Extended, RunAt
  <2> QED
    BY <1>7, <2>1 DEF Extended, StoreType, sessionVars, storeVars
<1>8. CASE StoreToken(t)
  <2>1. NextWrite(t) \in RunAt \ {"idle"} /\ at[t] # "idle"
    BY <1>8 DEF StoreToken, NextWrite, Slot, RunAt
  <2>2. RunType' /\ RequestType' /\ ClearingCanRetry' /\ Sharing'
    BY <1>4, <1>8, <2>1, GotoStep, ThrowStep DEF StoreToken
  <2>3. token' \in Tokens
    BY <1>1, <1>8 DEF StoreToken, Tokens
  <2> QED
    BY <1>8, <2>2, <2>3 DEF StoreToken, StoreType, sessionVars
<1>9. CASE PostUserCredentials(t)
  <2>1. RunType' /\ RequestType' /\ ClearingCanRetry' /\ Sharing'
    BY <1>4, <1>9, GotoStep, ThrowStep DEF PostUserCredentials, RunAt
  <2> QED
    BY <1>9, <2>1 DEF PostUserCredentials, StoreType, sessionVars, storeVars
<1>10. CASE Posted(t)
  <2>1. ASSUME attempt[t] < MaxRetries,
               at' = [at EXCEPT ![t] = "renewing"],
               attempt' = [attempt EXCEPT ![t] = @ + 1],
               UNCHANGED <<inFlight, kind, carried, requestVars>>
        PROVE  RunType' /\ RequestType' /\ ClearingCanRetry' /\ Sharing'
    <3>1. at[t] = "posting"
      BY <1>10 DEF Posted
    <3>2. RunType'
      BY <2>1 DEF RunType, RunAt, SessionAssumption
    <3>3. RequestType' /\ ClearingCanRetry' /\ WaitersJoinLive'
      BY <2>1 DEF RequestType, ClearingCanRetry, Sharing, WaitersJoinLive, requestVars
    <3>4. FlightIsCoalesced'
      BY <2>1, <3>1 DEF RunType, Sharing, FlightIsCoalesced
    <3> QED
      BY <3>2, <3>3, <3>4 DEF Sharing
  <2>2. RunType' /\ RequestType' /\ ClearingCanRetry' /\ Sharing'
    BY <1>4, <1>10, <2>1, GotoStep, ThrowStep DEF Posted, RunAt
  <2> QED
    BY <1>10, <2>2 DEF Posted, StoreType, sessionVars, storeVars
<1>11. CASE SaveCredentials(t)
  <2>1. RunType' /\ RequestType' /\ ClearingCanRetry' /\ Sharing'
    BY <1>4, <1>11, GotoStep, ThrowStep, ReturnStep DEF SaveCredentials, RunAt
  <2>2. creds' \in Signin
    BY <1>1, <1>2, <1>11 DEF SaveCredentials, StoreType
  <2> QED
    BY <1>11, <2>1, <2>2 DEF SaveCredentials, StoreType, sessionVars
<1>12. CASE Reload(t)
  <2>1. RunType' /\ RequestType' /\ ClearingCanRetry' /\ Sharing'
    BY <1>4, <1>12, GotoStep, ThrowStep DEF Reload, RunAt
  <2> QED
    BY <1>12, <2>1 DEF Reload, StoreType, sessionVars, storeVars
<1>13. CASE PersistRestored(t)
  <2>1. RunType' /\ RequestType' /\ ClearingCanRetry' /\ Sharing'
    BY <1>13, ReturnStep DEF PersistRestored
  <2> QED
    BY <1>1, <1>13, <2>1 DEF PersistRestored, NewUser, StoreType, sessionVars
<1> QED
  BY <1>5, <1>6, <1>7, <1>8, <1>9, <1>10, <1>11, <1>12, <1>13 DEF RunStep

\* A run that is not a coalesced one starts.
LEMMA StartKeeps ==
  ASSUME SessionAssumption, IInv, NEW t \in Runs, FetchDirect(t) \/ GetLoggedInUser(t)
  PROVE  IInv'
<1>1. PICK k \in {"direct", "restore"}, where \in RunAt, held \in Tokens : Start(t, k, where, held)
  BY OfType, NoSignin DEF FetchDirect, GetLoggedInUser, RunAt, IInv, Types, StoreType
<1>2. /\ at[t] = "idle"
      /\ UNCHANGED <<user, signins, token, creds, inFlight, logout>>
      /\ UNCHANGED <<phase, retries, caught, joined, signedBy>>
  BY DEF FetchDirect, GetLoggedInUser, Idle, sessionVars, storeVars, requestVars
<1>3. RunType'
  BY <1>1, <1>2, StartStep DEF IInv, Types, RunType
<1>4. FlightIsCoalesced'
  BY <1>1, <1>2, StartStep DEF IInv, Sharing, FlightIsCoalesced
<1> QED
  BY <1>2, <1>3, <1>4
  DEF IInv, Types, StoreType, RequestType, ClearingCanRetry, Sharing, WaitersJoinLive

LEMMA RequestStepKeeps ==
  ASSUME SessionAssumption, IInv, NEW r \in Requests, MakeRequest(r) \/ RequestStep(r)
  PROVE  IInv'
<1> USE DEF IInv, Types
\* A step that moves r on and leaves the runs alone.
<1>1. ASSUME UNCHANGED runVars, joined' = joined, RequestType', ClearingCanRetry',
             \A q \in Requests : phase'[q] = "refreshing" <=> phase[q] = "refreshing"
      PROVE  RunType' /\ Sharing'
  BY <1>1 DEF runVars, RunType, Sharing, FlightIsCoalesced, WaitersJoinLive
<1>2. CASE MakeRequest(r)
  <2>1. RequestType' /\ ClearingCanRetry'
    BY <1>2 DEF MakeRequest, RequestType, ClearingCanRetry, Phase
  <2>2. RunType' /\ Sharing'
    BY <1>1, <1>2, <2>1 DEF MakeRequest, RequestType
  <2> QED
    BY <1>2, <2>1, <2>2 DEF MakeRequest, StoreType, sessionVars, storeVars
<1>3. CASE ReadCredentials(r)
  <2>1. CASE \E inCatch \in BOOLEAN : RefreshOnce(r, inCatch)
    <3>1. RunType' /\ RequestType' /\ ClearingCanRetry' /\ Sharing'
      BY <1>3, <2>1, RefreshOnceStep DEF ReadCredentials
    <3> QED
      BY <1>3, <3>1 DEF ReadCredentials, StoreType, sessionVars, storeVars
  <2>2. CASE /\ phase' = [phase EXCEPT ![r] = "sent"]
             /\ signedBy' = [signedBy EXCEPT ![r] = creds]
             /\ UNCHANGED <<runVars, retries, caught, joined>>
    <3>1. RequestType' /\ ClearingCanRetry'
      BY <2>2 DEF RequestType, StoreType, ClearingCanRetry, Phase
    <3>2. RunType' /\ Sharing'
      BY <1>1, <1>3, <2>2, <3>1 DEF ReadCredentials, RequestType
    <3> QED
      BY <1>3, <3>1, <3>2 DEF ReadCredentials, StoreType, sessionVars, storeVars
  <2> QED
    BY <1>3, <2>1, <2>2 DEF ReadCredentials
<1>4. CASE Refetch(r)
  <2>1. RunType' /\ RequestType' /\ ClearingCanRetry' /\ Sharing'
    BY <1>4, RefreshOnceStep DEF Refetch
  <2> QED
    BY <1>4, <2>1 DEF Refetch, StoreType, sessionVars, storeVars
<1>5. CASE Answered(r)
  <2>1. PICK outcome \in {"ok", "error", AfterFailure(r, TRUE)} : phase' = [phase EXCEPT ![r] = outcome]
    BY <1>5 DEF Answered
  <2>2. /\ outcome \in {"ok", "error", "clearing"}
        /\ outcome = "clearing" => retries[r] = 1
    BY DEF AfterFailure, RequestType
  <2>3. RequestType' /\ ClearingCanRetry'
    BY <1>5, <2>1, <2>2, NoSignin DEF Answered, RequestType, ClearingCanRetry, Phase
  <2>4. RunType' /\ Sharing'
    BY <1>1, <1>5, <2>1, <2>2, <2>3 DEF Answered, RequestType
  <2> QED
    BY <1>5, <2>3, <2>4 DEF Answered, StoreType, sessionVars, storeVars
<1>6. CASE Retry(r)
  <2>1. RequestType' /\ ClearingCanRetry' /\ creds' \in Signin
    BY <1>6, NoSignin DEF Retry, RetryCleared, RequestType, StoreType, ClearingCanRetry, Phase
  <2>2. RunType' /\ Sharing'
    BY <1>1, <1>6, <2>1 DEF Retry, RetryCleared, RequestType
  <2> QED
    BY <1>6, <2>1, <2>2 DEF Retry, StoreType, sessionVars
<1> QED
  BY <1>2, <1>3, <1>4, <1>5, <1>6 DEF RequestStep

\* Sign-in and logout touch neither runs nor requests.
LEMMA SessionStepKeeps ==
  ASSUME SessionAssumption, IInv, Login \/ StartLogout \/ LogoutStep
  PROVE  IInv'
<1>1. UNCHANGED runVars /\ UNCHANGED requestVars
  BY DEF Login, StartLogout, LogoutStep, Left, ClearToken, ClearCredentials, LogoutReturns
<1>2. RunType' /\ RequestType' /\ ClearingCanRetry' /\ Sharing'
  BY <1>1 DEF IInv, Types, runVars, requestVars, RunType, RequestType, ClearingCanRetry,
              Sharing, FlightIsCoalesced, WaitersJoinLive
<1>3. CASE Login
  <2>1. signins + 1 \in Signin
    BY <1>3 DEF Login, IInv, Types, StoreType, Signin, SessionAssumption
  <2> QED
    BY <1>2, <1>3, <2>1, OfType DEF Login, NewUser, IInv, Types, StoreType
<1>4. CASE StartLogout \/ Left \/ ClearCredentials \/ LogoutReturns
  BY <1>2, <1>4, NoSignin DEF StartLogout, Left, ClearCredentials, LogoutReturns, IInv, Types,
              StoreType, sessionVars, storeVars, LogoutAt
<1>5. CASE ClearToken
  <2>1. token' \in Tokens
    BY <1>5, NoSignin DEF ClearToken, IInv, Types, StoreType, Tokens
  <2>2. logout' \in LogoutAt
    BY <1>5 DEF ClearToken, Slot, LogoutAt
  <2> QED
    BY <1>2, <1>5, <2>1, <2>2 DEF ClearToken, IInv, Types, StoreType, sessionVars
<1> QED
  BY <1>3, <1>4, <1>5 DEF LogoutStep

\* A process that starts has no run and no request, whatever is in storage.
LEMMA FreshProcess ==
  ASSUME SessionAssumption
  PROVE  /\ Init => IInv
         /\ IInv /\ Restart => IInv'
<1>1. 0 \in Signin /\ Of(0) \in Tokens /\ 0 \in 0..MaxRetries
  BY OfType, NoSignin DEF SessionAssumption
<1>2. ASSUME Init PROVE IInv
  <2>1. Types
    BY <1>1, <1>2 DEF Init, Types, StoreType, RunType, RequestType, ClearingCanRetry, RunAt, Phase,
                      LogoutAt
  <2>2. Sharing
    BY <1>2 DEF Init, Sharing, FlightIsCoalesced, WaitersJoinLive, SessionAssumption
  <2> QED
    BY <2>1, <2>2 DEF IInv
<1>3. ASSUME IInv, Restart PROVE IInv'
  <2>1. Types'
    BY <1>1, <1>3 DEF Restart, IInv, Types, StoreType, RunType, RequestType, ClearingCanRetry, RunAt,
                      Phase, LogoutAt, sessionVars, storeVars
  <2>2. Sharing'
    BY <1>3 DEF Restart, Sharing, FlightIsCoalesced, WaitersJoinLive, SessionAssumption
  <2> QED
    BY <2>1, <2>2 DEF IInv
<1> QED
  BY <1>2, <1>3

-----------------------------------------------------------------------------
(* The theorems *)

LEMMA Inductive == SessionAssumption => (Spec => []IInv)
<1> SUFFICES ASSUME SessionAssumption
             PROVE  Spec => []IInv
  OBVIOUS
<1>1. Init => IInv
  BY FreshProcess
<1>2. IInv /\ [Next]_vars => IInv'
  <2>1. ASSUME IInv, UNCHANGED vars PROVE IInv'
    BY <2>1 DEF vars, sessionVars, storeVars, runVars, requestVars, IInv, Types, StoreType, RunType,
                RequestType, ClearingCanRetry, Sharing, FlightIsCoalesced, WaitersJoinLive
  <2> QED
    BY <2>1, RunStepKeeps, StartKeeps, RequestStepKeeps, SessionStepKeeps, FreshProcess DEF Next
<1> QED
  BY <1>1, <1>2, PTL DEF Spec

\* The state of the session stays in its ranges.
THEOREM TypeCorrect == Spec => []TypeOK
<1>1. IInv => TypeOK
  BY DEF IInv, Types, StoreType, RunType, RequestType, TypeOK
<1> QED
  BY <1>1, Inductive, SessionAssumption, PTL

\* Requests share one refresh, which refreshInFlight names until it is over.
THEOREM Coalescing == Spec => []OneRefresh
<1>1. IInv => OneRefresh
  BY SessionAssumption DEF IInv, Types, RunType, Sharing, FlightIsCoalesced, OneRefresh, Coalesced,
                           SessionAssumption
<1> QED
  BY <1>1, Inductive, SessionAssumption, PTL

\* No request waits on a refresh that is over.
THEOREM LiveWaits == Spec => []WaitersJoinLive
<1>1. IInv => WaitersJoinLive
  BY DEF IInv, Sharing
<1> QED
  BY <1>1, Inductive, SessionAssumption, PTL
-----------------------------------------------------------------------------
(* The shared refresh is a single flight (SingleFlight).                   *)

\* A run that ends lands if it is the refresh in flight, and moves nobody if it is not.
LEMMA EndLands ==
  ASSUME SessionAssumption, IInv, NEW t \in Runs, at[t] # "idle", inFlight' = Release(t),
         joined' = [r \in Requests |-> IF r \in Awaiting(t) THEN NoRun ELSE joined[r]]
  PROVE  \/ UNCHANGED <<inFlight, joined>>
         \/ inFlight # NoRun /\ inFlight' = NoRun /\ joined' = [r \in Requests |-> NoRun]
<1>1. joined \in [Requests -> Runs \cup {NoRun}]
  BY DEF IInv, Types, RequestType
<1>2. CASE kind[t] = "coalesced"
  <2>1. inFlight = t /\ t # NoRun
    BY <1>2 DEF IInv, Sharing, FlightIsCoalesced, SessionAssumption
  <2>2. joined' = [r \in Requests |-> NoRun]
    BY <1>1, <1>2, OthersAwaitNothing
  <2> QED BY <1>2, <2>1, <2>2 DEF Release
<1>3. CASE kind[t] # "coalesced"
  BY <1>1, <1>3, OthersAwaitNothing DEF Release
<1> QED BY <1>2, <1>3

\* A step boards one request that waits for nothing, lands the flight, or does neither.
LEMMA FlightMoves ==
  ASSUME SessionAssumption, IInv, Next
  PROVE  \/ UNCHANGED <<inFlight, joined>>
         \/ inFlight # NoRun /\ inFlight' = NoRun /\ joined' = [r \in Requests |-> NoRun]
         \/ \E r \in Requests, t \in Runs :
              joined[r] = NoRun /\ inFlight \in {NoRun, t} /\ inFlight' = t /\ joined' = [joined EXCEPT ![r] = t]
<1>1. /\ inFlight \in Runs \cup {NoRun} /\ joined \in [Requests -> Runs \cup {NoRun}]
      /\ \A r \in Requests : phase[r] = "refreshing" <=> joined[r] # NoRun
      /\ \A r \in Requests : joined[r] # NoRun => joined[r] = inFlight
  BY DEF IInv, Types, RunType, RequestType, Sharing, WaitersJoinLive
<1>2. ASSUME NEW t \in Runs, RunStep(t)
      PROVE  \/ UNCHANGED <<inFlight, joined>>
             \/ inFlight # NoRun /\ inFlight' = NoRun /\ joined' = [r \in Requests |-> NoRun]
  <2>1. at[t] # "idle"
    BY <1>2 DEF RunStep, EnsureValidIdToken, RefreshUserSession, Extended, StoreToken, PostUserCredentials, Posted, SaveCredentials,
                Reload, PersistRestored, Slot
  <2>2. ASSUME Return(t) \/ \E forbidden \in BOOLEAN : Throw(t, forbidden)
        PROVE  \/ UNCHANGED <<inFlight, joined>>
               \/ inFlight # NoRun /\ inFlight' = NoRun /\ joined' = [r \in Requests |-> NoRun]
    BY <2>1, <2>2, EndLands DEF Return, Throw
  <2>3. ASSUME NEW where, Goto(t, where) PROVE UNCHANGED <<inFlight, joined>>
    BY <2>3 DEF Goto, requestVars
  <2> QED
    BY <1>2, <2>2, <2>3 DEF RunStep, EnsureValidIdToken, RefreshUserSession, Extended, StoreToken, PostUserCredentials, Posted,
                            SaveCredentials, Reload, PersistRestored, requestVars
<1>3. ASSUME NEW r \in Requests, NEW inCatch \in BOOLEAN, phase[r] # "refreshing", RefreshOnce(r, inCatch)
      PROVE  \E t \in Runs :
               joined[r] = NoRun /\ inFlight \in {NoRun, t} /\ inFlight' = t /\ joined' = [joined EXCEPT ![r] = t]
  BY <1>1, <1>3 DEF RefreshOnce, runVars, Idle
<1>4. ASSUME NEW r \in Requests, MakeRequest(r) \/ Answered(r) \/ Retry(r) PROVE UNCHANGED <<inFlight, joined>>
  BY <1>4 DEF MakeRequest, Answered, Retry, runVars
<1>5. ASSUME NEW r \in Requests, ReadCredentials(r) \/ Refetch(r)
      PROVE  \/ UNCHANGED <<inFlight, joined>>
             \/ \E t \in Runs :
                  joined[r] = NoRun /\ inFlight \in {NoRun, t} /\ inFlight' = t /\ joined' = [joined EXCEPT ![r] = t]
  BY <1>3, <1>5 DEF ReadCredentials, Refetch, runVars
<1>6. ASSUME NEW t \in Runs, FetchDirect(t) \/ GetLoggedInUser(t) PROVE UNCHANGED <<inFlight, joined>>
  BY <1>6 DEF FetchDirect, GetLoggedInUser, requestVars
<1>7. CASE Login \/ StartLogout \/ LogoutStep
  BY <1>7 DEF Login, StartLogout, LogoutStep, Left, ClearToken, ClearCredentials, LogoutReturns, runVars, requestVars
<1>8. CASE Restart
  <2>1. inFlight' = NoRun /\ joined' = [r \in Requests |-> NoRun]
    BY <1>8 DEF Restart
  <2>2. inFlight = NoRun => joined = [r \in Requests |-> NoRun]
    BY <1>1
  <2> QED BY <2>1, <2>2
<1> QED BY <1>2, <1>4, <1>5, <1>6, <1>7, <1>8 DEF Next, RequestStep

\* Signed requests share refreshes: whoever needs one while one is under way boards it,
\* nobody is left on one that is over, and there is never a second, for any number of
\* requests and runs, failures, and ends of the process (refreshTemporaryCredentialsOnce).
THEOREM RefreshIsShared == Spec => SharesOneFlight
<1>1. SessionAssumption
  BY SessionAssumption
<1>2. Init => Shared!Init
  BY DEF Init, Shared!Init, Coalesced
<1>3. IInv /\ IInv' /\ [Next]_vars => [Shared!Next]_Shared!vars
  <2> SUFFICES ASSUME IInv, IInv', [Next]_vars PROVE [Shared!Next]_Shared!vars
    OBVIOUS
  <2>1. NoRun \notin Runs
    BY <1>1 DEF SessionAssumption
  <2>2. Coalesced = {inFlight} \ {NoRun}
    BY <2>1 DEF IInv, Types, RunType, Sharing, FlightIsCoalesced, Coalesced
  <2>3. Coalesced' = {inFlight'} \ {NoRun}
    BY <2>1 DEF IInv, Types, RunType, Sharing, FlightIsCoalesced, Coalesced
  <2> HIDE DEF Coalesced
  <2>4. CASE UNCHANGED <<inFlight, joined>>
    BY <2>2, <2>3, <2>4 DEF Shared!vars
  <2>5. CASE inFlight # NoRun /\ inFlight' = NoRun /\ joined' = [r \in Requests |-> NoRun]
    BY <2>1, <2>2, <2>3, <2>5 DEF Shared!Next, Shared!Land
  <2>6. ASSUME NEW r \in Requests, NEW t \in Runs,
               joined[r] = NoRun, inFlight \in {NoRun, t}, inFlight' = t, joined' = [joined EXCEPT ![r] = t]
        PROVE  Shared!Next
    BY <2>1, <2>2, <2>3, <2>6 DEF Shared!Next, Shared!Board
  <2>7. CASE UNCHANGED vars
    BY <2>4, <2>7 DEF vars, runVars, requestVars
  <2> QED BY <1>1, <2>4, <2>5, <2>6, <2>7, FlightMoves
<1> QED BY <1>1, <1>2, <1>3, Inductive, PTL DEF Spec, SharesOneFlight, Shared!Spec

-----------------------------------------------------------------------------
(***************************************************************************)
(* The quiet session.  Storage is the user's because every run carries the *)
(* user's tokens, and every run does because nobody signs in or out while  *)
(* one is under way: each needs the other, hence one invariant.            *)
(***************************************************************************)

\* Sign-in, restore and logout wait for what is in flight, storage accepts
\* every write and the process lives on: what the app and the device owe.
Quiet == ~Overlap /\ ~StorageMayFail /\ ~MayRestart

\* The tokens clearTokens has removed so far.
Cleared ==
  CASE logout = "id" -> {"access"}
    [] logout = "refresh" -> {"access", "id"}
    [] logout \in {"creds", "returning"} -> Slot
    [] OTHER -> {}

StorageFits ==
  /\ \A k \in Slot : token[k] = IF k \in Cleared THEN 0 ELSE user
  /\ creds \in {0, user}
  /\ logout = "returning" => creds = 0

\* Nobody works without a user, or while the user leaves.
NobodyWorks == Working = {} /\ Idle = Runs
RestWhileLeaving == user = 0 \/ logout # "off" => NobodyWorks

\* What a run holds in its locals is the user's.
HoldsTokens == {"extending", "access", "id", "refresh", "posting", "saving", "resaving", "persisting"}
CarriesUsers == \A t \in Runs : at[t] \in HoldsTokens => carried[t] = Of(user)

QuietInv == /\ IInv /\ StorageFits /\ RestWhileLeaving /\ CarriesUsers /\ SignedAsUser
            /\ user = 0 => logout = "off"

\* While something is under way the user is in and stays.
LEMMA StorageWhole ==
  ASSUME QuietInv, logout = "off"
  PROVE  token = Of(user) /\ creds \in {0, user}
<1>1. \A k \in Slot : token[k] = user
  BY DEF QuietInv, StorageFits, Cleared
<1> QED
  BY <1>1 DEF QuietInv, StorageFits, IInv, Types, StoreType, Tokens, Of

LEMMA WorkingIsIn ==
  ASSUME QuietInv, \/ \E t \in Runs : at[t] # "idle"
                   \/ \E r \in Requests : phase[r] \notin {"idle"} \cup Settled
  PROVE  user # 0 /\ logout = "off"
BY DEF QuietInv, RestWhileLeaving, NobodyWorks, Working, Idle

\* A step of a run or of a request that leaves storage the user's.
LEMMA WorkKeepsQuiet ==
  ASSUME QuietInv, user # 0, logout = "off", IInv', UNCHANGED <<user, logout>>,
         token' = Of(user), creds' \in {0, user}, CarriesUsers', SignedAsUser'
  PROVE  QuietInv'
<1>1. StorageFits'
  BY DEF StorageFits, Cleared, Of
<1>2. RestWhileLeaving'
  BY DEF RestWhileLeaving
<1> QED BY <1>1, <1>2 DEF QuietInv

LEMMA GotoCarries ==
  ASSUME QuietInv, NEW t \in Runs, NEW where \in RunAt, Goto(t, where), user' = user,
         carried' \in [Runs -> Tokens],
         \A u \in Runs : u # t => carried'[u] = carried[u],
         where \in HoldsTokens => carried'[t] = Of(user)
  PROVE  CarriesUsers' /\ SignedAsUser'
<1>1. CarriesUsers'
  BY DEF QuietInv, CarriesUsers, Goto, IInv, Types, RunType, Of
<1>2. SignedAsUser'
  BY DEF QuietInv, SignedAsUser, Goto, requestVars
<1> QED BY <1>1, <1>2

LEMMA ForgetCarries ==
  ASSUME QuietInv, NEW t \in Runs, Forget(t), user' = user
  PROVE  CarriesUsers'
BY DEF QuietInv, CarriesUsers, Forget, Start, IInv, Types, RunType, Of, HoldsTokens

LEMMA ThrowSigns ==
  ASSUME QuietInv, NEW t \in Runs, NEW forbidden \in BOOLEAN, Throw(t, forbidden), user' = user
  PROVE  CarriesUsers' /\ SignedAsUser'
<1>1. CarriesUsers'
  BY ForgetCarries DEF Throw
<1>2. \A r \in Requests : phase'[r] = "sent" => phase[r] = "sent"
  BY DEF Throw, AfterFailure, QuietInv, IInv, Types, RequestType
<1>3. SignedAsUser'
  BY <1>2 DEF QuietInv, SignedAsUser, Throw
<1> QED BY <1>1, <1>3

LEMMA ReturnSigns ==
  ASSUME QuietInv, NEW t \in Runs, at[t] \in HoldsTokens, Return(t), user' = user
  PROVE  CarriesUsers' /\ SignedAsUser'
<1>1. CarriesUsers'
  BY ForgetCarries DEF Return
<1>2. carried[t]["access"] = user
  BY DEF QuietInv, CarriesUsers, Of, Slot
<1>3. SignedAsUser'
  BY <1>2 DEF QuietInv, SignedAsUser, Return, IInv, Types, RequestType
<1> QED BY <1>1, <1>3

LEMMA RunStepQuiet ==
  ASSUME SessionAssumption, Quiet, QuietInv, NEW t \in Runs, RunStep(t), IInv'
  PROVE  QuietInv'
<1>1. at[t] # "idle"
  BY DEF RunStep, EnsureValidIdToken, RefreshUserSession, Extended, StoreToken, PostUserCredentials,
         Posted, SaveCredentials, Reload, PersistRestored, Slot
<1>2. user # 0 /\ logout = "off"
  BY <1>1, WorkingIsIn
<1>3. token = Of(user) /\ creds \in {0, user}
  BY <1>2, StorageWhole
<1>4. carried' \in [Runs -> Tokens] /\ carried \in [Runs -> Tokens] /\ user \in Signin /\ Of(user) \in Tokens
  BY OfType DEF QuietInv, IInv, Types, RunType, StoreType
<1>5. at[t] \in HoldsTokens => carried[t] = Of(user)
  BY DEF QuietInv, CarriesUsers
<1>6. UNCHANGED <<user, logout>>
  BY DEF RunStep, EnsureValidIdToken, RefreshUserSession, Extended, StoreToken, PostUserCredentials,
         Posted, SaveCredentials, Reload, PersistRestored, sessionVars
<1>7. \A k \in Slot : Of(user)[k] = user
  BY DEF Of
<1>8. token' = Of(user) /\ creds' \in {0, user} /\ CarriesUsers' /\ SignedAsUser'
  <2>1. CASE EnsureValidIdToken(t)
    <3>1. UNCHANGED <<token, creds>>
      BY <2>1 DEF EnsureValidIdToken, storeVars
    <3>2. CASE Throw(t, FALSE)
      BY <1>3, <1>6, <3>1, <3>2, ThrowSigns
    <3>3. CASE carried' = carried /\ \E where \in {"reading", "renewing"} : Goto(t, where)
      BY <1>3, <1>4, <1>6, <3>1, <3>3, GotoCarries DEF HoldsTokens, RunAt
    <3> QED BY <2>1, <3>2, <3>3 DEF EnsureValidIdToken
  <2>2. CASE RefreshUserSession(t)
    <3>1. UNCHANGED <<token, creds>>
      BY <2>2 DEF RefreshUserSession, storeVars
    <3>2. CASE Throw(t, FALSE)
      BY <1>3, <1>6, <3>1, <3>2, ThrowSigns
    <3>3. CASE carried' = [carried EXCEPT ![t] = Of(token["refresh"])] /\ Goto(t, "extending")
      <4>1. carried' = [carried EXCEPT ![t] = Of(user)]
        BY <1>3, <1>7, <3>3 DEF Slot
      <4> QED BY <1>3, <1>4, <1>6, <3>1, <3>3, <4>1, GotoCarries DEF RunAt
    <3> QED BY <2>2, <3>2, <3>3 DEF RefreshUserSession
  <2>3. CASE Extended(t)
    <3>1. UNCHANGED <<token, creds>>
      BY <2>3 DEF Extended, storeVars
    <3>2. CASE \E forbidden \in BOOLEAN : Throw(t, forbidden)
      BY <1>3, <1>6, <3>1, <3>2, ThrowSigns
    <3>3. CASE Goto(t, "access") /\ carried' = [carried EXCEPT ![t] = Of(carried[t]["refresh"])]
      <4>1. carried' = [carried EXCEPT ![t] = Of(user)]
        BY <1>5, <1>7, <2>3, <3>3 DEF Slot, Extended, HoldsTokens
      <4> QED BY <1>3, <1>4, <1>6, <3>1, <3>3, <4>1, GotoCarries DEF RunAt
    <3> QED BY <2>3, <3>2, <3>3 DEF Extended
  <2>4. CASE StoreToken(t)
    <3>1. at[t] \in Slot /\ carried[t] = Of(user) /\ creds' = creds
      BY <1>5, <2>4 DEF StoreToken, Slot, HoldsTokens
    <3>2. /\ token' = [token EXCEPT ![at[t]] = carried[t][at[t]]]
          /\ Goto(t, NextWrite(t)) /\ carried' = carried
      BY <2>4 DEF StoreToken, Quiet
    <3>3. token' = Of(user)
      BY <1>3, <1>7, <3>1, <3>2 DEF Of
    <3>4. NextWrite(t) \in RunAt
      BY <3>1 DEF NextWrite, Slot, RunAt
    <3> QED BY <1>3, <1>4, <1>6, <3>1, <3>2, <3>3, <3>4, GotoCarries
  <2>5. CASE PostUserCredentials(t)
    <3>1. UNCHANGED <<token, creds>>
      BY <2>5 DEF PostUserCredentials, storeVars
    <3>2. CASE Throw(t, FALSE)
      BY <1>3, <1>6, <3>1, <3>2, ThrowSigns
    <3>3. CASE carried' = [carried EXCEPT ![t] = token] /\ Goto(t, "posting")
      BY <1>3, <1>4, <1>6, <3>1, <3>3, GotoCarries DEF RunAt
    <3> QED BY <2>5, <3>2, <3>3 DEF PostUserCredentials
  <2>6. CASE Posted(t)
    <3>1. UNCHANGED <<token, creds>> /\ carried[t] = Of(user)
      BY <1>5, <2>6 DEF Posted, storeVars, HoldsTokens
    <3>2. CASE Throw(t, FALSE)
      BY <1>3, <1>6, <3>1, <3>2, ThrowSigns
    <3>3. CASE Goto(t, "saving") /\ carried' = carried
      BY <1>3, <1>4, <1>6, <3>1, <3>3, GotoCarries DEF RunAt
    <3>4. CASE at' = [at EXCEPT ![t] = "renewing"] /\ UNCHANGED <<carried, requestVars>>
      <4>1. CarriesUsers'
        BY <1>6, <3>4 DEF QuietInv, CarriesUsers, HoldsTokens, IInv, Types, RunType, Of
      <4>2. SignedAsUser'
        BY <1>6, <3>4 DEF QuietInv, SignedAsUser, requestVars
      <4> QED BY <1>3, <3>1, <4>1, <4>2
    <3> QED BY <2>6, <3>2, <3>3, <3>4 DEF Posted
  <2>7. CASE SaveCredentials(t)
    <3>1. token' = token /\ carried[t] = Of(user) /\ at[t] \in HoldsTokens
      BY <1>5, <2>7 DEF SaveCredentials, HoldsTokens
    <3>2. creds' = user
      BY <1>7, <2>7, <3>1 DEF SaveCredentials, Quiet, Slot
    <3>3. CASE Goto(t, "resaving") /\ carried' = carried
      BY <1>3, <1>4, <1>6, <3>1, <3>2, <3>3, GotoCarries DEF RunAt
    <3>4. CASE Return(t)
      BY <1>3, <1>6, <3>1, <3>2, <3>4, ReturnSigns
    <3> QED BY <2>7, <3>3, <3>4 DEF SaveCredentials, Quiet
  <2>8. CASE Reload(t)
    <3>1. UNCHANGED <<token, creds>>
      BY <2>8 DEF Reload, storeVars
    <3>2. CASE Throw(t, FALSE)
      BY <1>3, <1>6, <3>1, <3>2, ThrowSigns
    <3>3. CASE carried' = [carried EXCEPT ![t] = token] /\ Goto(t, "persisting")
      BY <1>3, <1>4, <1>6, <3>1, <3>3, GotoCarries DEF RunAt
    <3> QED BY <2>8, <3>2, <3>3 DEF Reload
  <2>9. CASE PersistRestored(t)
    <3>1. at[t] \in HoldsTokens /\ token' = carried[t] /\ creds' = creds /\ Return(t)
      BY <2>9 DEF PersistRestored, NewUser, HoldsTokens
    <3> QED BY <1>3, <1>5, <1>6, <3>1, ReturnSigns
  <2> QED BY <2>1, <2>2, <2>3, <2>4, <2>5, <2>6, <2>7, <2>8, <2>9 DEF RunStep
<1> QED BY <1>2, <1>6, <1>8, WorkKeepsQuiet

\* A run starts with nothing that is not the user's.
LEMMA StartCarries ==
  ASSUME QuietInv, NEW t \in Runs, NEW k, NEW where, NEW held, Start(t, k, where, held), user' = user,
         where \in HoldsTokens => held = Of(user)
  PROVE  CarriesUsers'
BY DEF QuietInv, CarriesUsers, Start, IInv, Types, RunType, Of

LEMMA StartQuiet ==
  ASSUME SessionAssumption, Quiet, QuietInv, NEW t \in Runs, FetchDirect(t) \/ GetLoggedInUser(t), IInv'
  PROVE  QuietInv'
<1>1. UNCHANGED <<user, logout, token, creds, phase, signedBy>>
  BY DEF FetchDirect, GetLoggedInUser, sessionVars, storeVars, requestVars
<1>2. user \in Signin /\ logout = "off"
  BY DEF FetchDirect, GetLoggedInUser, Open, Quiet, QuietInv, IInv, Types, StoreType
<1>3. token = Of(user) /\ creds \in {0, user}
  BY <1>2, StorageWhole
<1>4. user # 0
  BY <1>2, <1>3 DEF FetchDirect, GetLoggedInUser, Open, Quiet, Complete, Of, Slot
<1>5. CarriesUsers'
  <2>1. CASE FetchDirect(t)
    BY <1>1, <2>1, StartCarries DEF FetchDirect, HoldsTokens
  <2>2. CASE GetLoggedInUser(t)
    BY <1>1, <1>3, <2>2, StartCarries DEF GetLoggedInUser
  <2> QED BY <2>1, <2>2
<1>6. SignedAsUser'
  BY <1>1 DEF QuietInv, SignedAsUser
<1> QED BY <1>1, <1>2, <1>3, <1>4, <1>5, <1>6, WorkKeepsQuiet

LEMMA RefreshOnceQuiet ==
  ASSUME QuietInv, NEW r \in Requests, NEW inCatch \in BOOLEAN, RefreshOnce(r, inCatch), user' = user
  PROVE  CarriesUsers' /\ SignedAsUser'
<1>1. CarriesUsers'
  <2>1. CASE UNCHANGED runVars
    BY <2>1 DEF QuietInv, CarriesUsers, runVars, Of
  <2>2. CASE \E t \in Idle : Start(t, "coalesced", "checking", Of(0))
    <3>1. PICK t \in Runs : Start(t, "coalesced", "checking", Of(0))
      BY <2>2 DEF Idle
    <3> QED BY <3>1, StartCarries DEF HoldsTokens
  <2> QED BY <2>1, <2>2 DEF RefreshOnce
<1>2. \A q \in Requests : phase'[q] = "sent" => phase[q] = "sent"
  BY DEF RefreshOnce, QuietInv, IInv, Types, RequestType
<1>3. SignedAsUser'
  BY <1>2 DEF QuietInv, SignedAsUser, RefreshOnce
<1> QED BY <1>1, <1>3

LEMMA RequestStepQuiet ==
  ASSUME SessionAssumption, Quiet, QuietInv, NEW r \in Requests, MakeRequest(r) \/ RequestStep(r), IInv'
  PROVE  QuietInv'
<1>1. UNCHANGED <<user, logout, token>>
  BY DEF MakeRequest, RequestStep, ReadCredentials, Refetch, Answered, Retry, sessionVars, storeVars
<1>2. user # 0 /\ logout = "off"
  <2>1. CASE MakeRequest(r)
    BY <2>1 DEF MakeRequest, Open, Quiet, QuietInv, IInv, Types, StoreType, Signin
  <2>2. CASE RequestStep(r)
    BY <2>2, WorkingIsIn DEF RequestStep, ReadCredentials, Refetch, Answered, Retry, Settled
  <2> QED BY <2>1, <2>2
<1>3. token = Of(user) /\ creds \in {0, user}
  BY <1>2, StorageWhole
<1>4. creds' \in {0, user} /\ CarriesUsers' /\ SignedAsUser'
  <2>1. ASSUME UNCHANGED runVars PROVE CarriesUsers'
    BY <1>1, <2>1 DEF QuietInv, CarriesUsers, runVars, Of
  <2>2. CASE MakeRequest(r)
    BY <1>1, <1>3, <2>1, <2>2 DEF MakeRequest, storeVars, QuietInv, SignedAsUser, IInv, Types, RequestType
  <2>3. CASE ReadCredentials(r)
    <3>1. creds' = creds
      BY <2>3 DEF ReadCredentials, storeVars
    <3>2. CASE \E inCatch \in BOOLEAN : RefreshOnce(r, inCatch)
      BY <1>1, <1>3, <3>1, <3>2, RefreshOnceQuiet
    <3>3. CASE /\ creds > 0
               /\ phase' = [phase EXCEPT ![r] = "sent"]
               /\ signedBy' = [signedBy EXCEPT ![r] = creds]
               /\ UNCHANGED <<runVars, retries, caught, joined>>
      <4>1. creds = user
        BY <1>3, <3>3
      <4>2. SignedAsUser'
        BY <1>1, <3>3, <4>1 DEF QuietInv, SignedAsUser, IInv, Types, RequestType
      <4> QED BY <1>3, <2>1, <3>1, <3>3, <4>2
    <3> QED BY <2>3, <3>2, <3>3 DEF ReadCredentials
  <2>4. CASE Refetch(r)
    BY <1>1, <1>3, <2>4, RefreshOnceQuiet DEF Refetch, storeVars
  <2>5. CASE Answered(r)
    <3>1. \A q \in Requests : phase'[q] = "sent" => q # r /\ phase[q] = "sent"
      BY <2>5 DEF Answered, AfterFailure, QuietInv, IInv, Types, RequestType
    <3>2. SignedAsUser'
      BY <1>1, <2>5, <3>1 DEF Answered, QuietInv, SignedAsUser, IInv, Types, RequestType
    <3> QED BY <1>3, <2>1, <2>5, <3>2 DEF Answered, storeVars
  <2>6. CASE Retry(r)
    <3>1. creds' \in {0, user}
      BY <1>3, <2>6 DEF Retry, RetryCleared
    <3>2. SignedAsUser'
      BY <1>1, <2>6 DEF Retry, RetryCleared, QuietInv, SignedAsUser, IInv, Types, RequestType
    <3> QED BY <2>1, <2>6, <3>1, <3>2 DEF Retry
  <2> QED BY <2>2, <2>3, <2>4, <2>5, <2>6 DEF RequestStep
<1> QED BY <1>1, <1>2, <1>3, <1>4, WorkKeepsQuiet

LEMMA SessionStepQuiet ==
  ASSUME SessionAssumption, Quiet, QuietInv, Login \/ StartLogout \/ LogoutStep, IInv'
  PROVE  QuietInv'
<1>1. UNCHANGED runVars /\ UNCHANGED requestVars
  BY DEF Login, StartLogout, LogoutStep, Left, ClearToken, ClearCredentials, LogoutReturns
<1>2. NobodyWorks
  <2>1. CASE Login \/ StartLogout
    BY <2>1 DEF Login, StartLogout, Free, Quiet, NobodyWorks
  <2>2. CASE LogoutStep
    BY <2>2 DEF LogoutStep, Left, ClearToken, ClearCredentials, LogoutReturns, Slot,
                QuietInv, RestWhileLeaving
  <2> QED BY <2>1, <2>2
<1>3. \A t \in Runs : at[t] = "idle"
  BY <1>2 DEF NobodyWorks, Idle
<1>4. \A r \in Requests : phase[r] # "sent"
  BY <1>2 DEF NobodyWorks, Working, Settled
<1>5. NobodyWorks' /\ CarriesUsers' /\ SignedAsUser'
  BY <1>1, <1>2, <1>3, <1>4
  DEF runVars, requestVars, NobodyWorks, Working, Idle, CarriesUsers, HoldsTokens, SignedAsUser
<1>6. StorageFits' /\ (user' = 0 => logout' = "off")
  <2> USE DEF QuietInv, StorageFits
  <2>1. CASE Login
    <3>1. token = Of(user) /\ creds \in {0, user}
      BY <2>1, StorageWhole DEF Login
    <3>2. user = 0
      BY <2>1, <3>1 DEF Login, Complete, Of, QuietInv, IInv, Types, StoreType, Signin
    <3> QED BY <2>1, <3>1, <3>2 DEF Login, NewUser, Of, Cleared
  <2>2. CASE StartLogout
    BY <2>2 DEF StartLogout, Cleared, sessionVars, storeVars
  <2>3. CASE Left
    BY <2>3 DEF Left, Cleared, sessionVars, storeVars
  <2>4. CASE ClearToken
    <3>1. /\ logout \in Slot
          /\ token' = [token EXCEPT ![logout] = 0]
          /\ logout' = CASE logout = "access" -> "id" [] logout = "id" -> "refresh" [] logout = "refresh" -> "creds"
          /\ UNCHANGED <<user, creds>>
      BY <2>4 DEF ClearToken, Quiet, sessionVars
    <3>2. DOMAIN token = Slot /\ token \in [Slot -> Signin]
      BY DEF IInv, Types, StoreType, Tokens
    <3>3. CASE logout = "access"
      BY <3>1, <3>2, <3>3 DEF Cleared, Slot
    <3>4. CASE logout = "id"
      BY <3>1, <3>2, <3>4 DEF Cleared, Slot
    <3>5. CASE logout = "refresh"
      BY <3>1, <3>2, <3>5 DEF Cleared, Slot
    <3> QED BY <3>1, <3>3, <3>4, <3>5 DEF Slot
  <2>5. CASE ClearCredentials
    BY <2>5 DEF ClearCredentials, Quiet, Cleared, sessionVars
  <2>6. CASE LogoutReturns
    BY <2>6 DEF LogoutReturns, Cleared, storeVars
  <2> QED BY <2>1, <2>2, <2>3, <2>4, <2>5, <2>6 DEF LogoutStep
<1> QED BY <1>5, <1>6 DEF QuietInv, RestWhileLeaving

LEMMA QuietInductive == SessionAssumption /\ Quiet => (Spec => []QuietInv)
<1> SUFFICES ASSUME SessionAssumption, Quiet PROVE Spec => []QuietInv
  OBVIOUS
<1>1. ASSUME Init PROVE QuietInv
  <2>1. IInv
    BY <1>1, FreshProcess
  <2>2. StorageFits
    BY <1>1 DEF Init, StorageFits, Cleared, Of
  <2> QED BY <1>1, <2>1, <2>2 DEF Init, QuietInv, RestWhileLeaving, NobodyWorks, Working, Idle, Settled,
                    CarriesUsers, HoldsTokens, SignedAsUser
<1>2. QuietInv /\ [Next]_vars => QuietInv'
  <2> SUFFICES ASSUME QuietInv, [Next]_vars PROVE QuietInv'
    OBVIOUS
  <2>1. IInv
    BY DEF QuietInv
  <2>2. CASE UNCHANGED vars
    <3>1. IInv'
      BY <2>1, <2>2 DEF vars, sessionVars, storeVars, runVars, requestVars, IInv, Types, StoreType, RunType,
                  RequestType, ClearingCanRetry, Sharing, FlightIsCoalesced, WaitersJoinLive
    <3> QED BY <2>2, <3>1 DEF vars, sessionVars, storeVars, runVars, requestVars, QuietInv, StorageFits,
                 Cleared, RestWhileLeaving, NobodyWorks, Working, Idle, CarriesUsers, Of, SignedAsUser
  <2>3. ~Restart
    BY DEF Quiet, Restart
  <2> QED
    BY <2>1, <2>2, <2>3, RunStepKeeps, StartKeeps, RequestStepKeeps, SessionStepKeeps,
       RunStepQuiet, StartQuiet, RequestStepQuiet, SessionStepQuiet DEF Next
<1> QED
  BY <1>1, <1>2, PTL DEF Spec

\* Where sign-in, restore and logout wait for what is in flight: between them
\* storage holds the user's tokens and nobody else's credentials (NewUser,
\* extendSession, saveTemporaryCredentials, clearTokens).
THEOREM StorageStaysUsers == Quiet => (Spec => []StorageIsUsers)
<1>1. QuietInv => StorageIsUsers
  BY StorageWhole DEF StorageIsUsers
<1> QED
  BY <1>1, QuietInductive, SessionAssumption, PTL

\* There, no request goes out signed with another user's credentials.
THEOREM SignedByUser == Quiet => (Spec => []SignedAsUser)
<1>1. QuietInv => SignedAsUser
  BY DEF QuietInv
<1> QED
  BY <1>1, QuietInductive, SessionAssumption, PTL
=============================================================================
