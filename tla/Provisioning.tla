----------------------------- MODULE Provisioning -----------------------------
(* Provisioning a device over its local link: ESPDevice.provision associates it  *)
(* with a group by challenge and response, hands it the Wi-Fi credentials and,    *)
(* if asked, waits for it to come online; retryNetworkCredentials resumes from    *)
(* the credentials what an earlier attempt associated.                            *)
(*                                                                                *)
(* The device, its adapter and the cloud's association service are external. The  *)
(* wait is NodeOnlineWait, taken at its word: it resolves for a device that is    *)
(* online and may reject at any time.                                             *)
EXTENDS Naturals

CONSTANTS
  Groups,       \* groups a device may be associated with
  NoGroup,      \* none
  MaxAttempts   \* bound: calls of provision and retryNetworkCredentials

ASSUME ProvAssumption == MaxAttempts \in Nat

VARIABLES
  prov,     \* the call under way: its step, arguments and local variables
  resume,   \* device.provisionResumeState: the group associated, and whether to wait
  station,  \* the device: session set up, credentials it has, online
  cloud     \* associations of the node, and the challenges given out per group

provVars == <<prov, resume, station, cloud>>

ProvSteps == {"initiating", "challenging", "verifying", "setting", "waiting"}
ProvOver == {"idle", "succeeded", "failed"}
NoResume == [group |-> NoGroup, wait |-> FALSE]

ProvInit ==
  /\ prov = [step |-> "idle", kind |-> "provision", group |-> NoGroup, wait |-> FALSE, good |-> FALSE,
             request |-> NoGroup, signed |-> NoGroup, status |-> "none", count |-> 0]
  /\ resume = NoResume
  /\ station = [session |-> FALSE, credentials |-> "none", online |-> FALSE]
  /\ cloud = [associated |-> {}, open |-> {}]

ProvFails(p) == [p EXCEPT !.step = "failed"]

(* --- The link: createESPDevice, connect, initializeSession, disconnect --------- *)

Connect == /\ ~station.session /\ station' = [station EXCEPT !.session = TRUE]
           /\ UNCHANGED <<prov, resume, cloud>>
Disconnect == /\ station.session /\ prov.step \in ProvOver
              /\ station' = [station EXCEPT !.session = FALSE]
              /\ UNCHANGED <<prov, resume, cloud>>

(* --- provision -------------------------------------------------------------------- *)

\* An unknown flow or a wait without a user is refused at once; the rest starts.
Provision(g, good, wait, user, kind) ==
  /\ prov.step \in ProvOver /\ prov.count < MaxAttempts
  /\ prov' = [prov EXCEPT !.step = IF kind = "chal_resp" /\ (wait => user) THEN "initiating" ELSE "failed",
                          !.kind = "provision", !.group = g, !.wait = wait, !.good = good,
                          !.request = NoGroup, !.signed = NoGroup, !.status = "none", !.count = @ + 1]
  /\ UNCHANGED <<resume, station, cloud>>

\* initiateUserNodeMapping: a challenge under a new request, or an answer lost or
\* without one ("INVALID_MAPPING_RESPONSE").
InitiateMapping(answered) ==
  /\ prov.step = "initiating"
  /\ cloud' = [cloud EXCEPT !.open = @ \cup {prov.group}]
  /\ prov' = IF answered THEN [prov EXCEPT !.step = "challenging", !.request = prov.group] ELSE ProvFails(prov)
  /\ UNCHANGED <<resume, station>>

\* parseDeviceResponse and validateChallengeResponse: what the device may answer.
Responses == {"signed", "status not success", "no payload", "no node id"}
IsValidResponse(response) == response = "signed"

\* The challenge goes to the device; a response without signature or node is refused.
SignChallenge(response) ==
  /\ prov.step = "challenging" /\ station.session
  /\ prov' = IF IsValidResponse(response)
             THEN [prov EXCEPT !.step = "verifying", !.signed = prov.request] ELSE ProvFails(prov)
  /\ UNCHANGED <<resume, station, cloud>>

\* Mutation: the association is remembered before the service confirmed it.
VerifyMappingEarly(answered) ==
  /\ prov.step = "verifying"
  /\ resume' = [group |-> prov.group, wait |-> prov.wait]
  /\ LET accepted == prov.signed = prov.request /\ prov.request \in cloud.open IN
       /\ cloud' = IF accepted /\ answered THEN [associated |-> cloud.associated \cup {prov.group},
                                                open |-> cloud.open \ {prov.request}] ELSE cloud
       /\ prov' = IF accepted /\ answered THEN [prov EXCEPT !.step = "setting"] ELSE ProvFails(prov)
  /\ UNCHANGED station

\* verifyUserNodeMapping: the service takes each signed challenge once. Only an
\* answer that arrives is remembered for a retry.
VerifyMapping(answered) ==
  /\ prov.step = "verifying"
  /\ LET accepted == prov.signed = prov.request /\ prov.request \in cloud.open IN
       /\ cloud' = IF accepted THEN [associated |-> cloud.associated \cup {prov.group},
                                     open |-> cloud.open \ {prov.request}] ELSE cloud
       /\ IF accepted /\ answered
          THEN prov' = [prov EXCEPT !.step = "setting"] /\ resume' = [group |-> prov.group, wait |-> prov.wait]
          ELSE prov' = ProvFails(prov) /\ UNCHANGED resume
  /\ UNCHANGED station

\* retryNetworkCredentials: refused without an association to resume.
Retry(good) ==
  /\ prov.step \in ProvOver /\ prov.count < MaxAttempts
  /\ prov' = [prov EXCEPT !.step = IF resume = NoResume THEN "failed" ELSE "setting",
                          !.kind = "retry", !.group = resume.group, !.wait = resume.wait, !.good = good,
                          !.status = "none", !.count = @ + 1]
  /\ UNCHANGED <<resume, station, cloud>>

\* setNetworkCredentials: the adapter applies them and says so, says "failure", or
\* throws. Neither caller looks at what it says.
SetCredentials(status) ==
  /\ prov.step = "setting" /\ station.session
  /\ station' = IF status = "success"
                THEN [station EXCEPT !.credentials = IF prov.good THEN "good" ELSE "bad", !.online = FALSE]
                ELSE station
  /\ prov' = [prov EXCEPT !.step = IF status = "throws" THEN "failed"
                                   ELSE IF prov.wait THEN "waiting" ELSE "succeeded",
                          !.status = status]
  /\ UNCHANGED <<resume, cloud>>

\* resetWifiStatus: a device that could not join takes credentials again.
ResetWifiStatus(acknowledged) ==
  /\ prov.step \in ProvOver /\ station.session /\ station.credentials = "bad"
  /\ station' = IF acknowledged THEN [station EXCEPT !.credentials = "none"] ELSE station
  /\ UNCHANGED <<prov, resume, cloud>>

\* With the right credentials an associated device comes online.
Joins ==
  /\ station.credentials = "good" /\ ~station.online
  /\ station' = [station EXCEPT !.online = TRUE]
  /\ UNCHANGED <<prov, resume, cloud>>

OnlineWaitEnds(resolved) ==
  /\ prov.step = "waiting" /\ (resolved => station.online)
  /\ prov' = IF resolved THEN [prov EXCEPT !.step = "succeeded"] ELSE ProvFails(prov)
  /\ UNCHANGED <<resume, station, cloud>>

\* A request or the link fails: every await of the flow may throw.
ProvThrows ==
  /\ prov.step \in ProvSteps
  /\ prov' = ProvFails(prov)
  /\ UNCHANGED <<resume, station, cloud>>

ProvProgress ==
  \/ \E answered \in BOOLEAN : InitiateMapping(answered) \/ VerifyMapping(answered)
  \/ \E response \in Responses : SignChallenge(response)
  \/ \E status \in {"success", "failure", "throws"} : SetCredentials(status)
  \/ \E resolved \in BOOLEAN : OnlineWaitEnds(resolved)
  \/ ProvThrows

ProvNext ==
  \/ Connect \/ Disconnect \/ Joins \/ ProvProgress
  \/ \E g \in Groups, good, wait, user \in BOOLEAN, kind \in {"chal_resp", "other"} : Provision(g, good, wait, user, kind)
  \/ \E good \in BOOLEAN : Retry(good)
  \/ \E acknowledged \in BOOLEAN : ResetWifiStatus(acknowledged)

ProvSpec == ProvInit /\ [][ProvNext]_provVars

(* --- Properties --------------------------------------------------------------------- *)

ProvTypeOK ==
  /\ prov \in [step : ProvSteps \cup ProvOver, kind : {"provision", "retry"}, group : Groups \cup {NoGroup},
               wait : BOOLEAN, good : BOOLEAN, request : Groups \cup {NoGroup}, signed : Groups \cup {NoGroup},
               status : {"none", "success", "failure", "throws"}, count : 0..MaxAttempts]
  /\ resume \in [group : Groups \cup {NoGroup}, wait : BOOLEAN]
  /\ station \in [session : BOOLEAN, credentials : {"none", "bad", "good"}, online : BOOLEAN]
  /\ cloud \in [associated : SUBSET Groups, open : SUBSET Groups]

\* Success means what it says, in the first attempt or resumed: the node is
\* associated with the group of the call (or of the association it resumed), the
\* adapter was given the credentials, and, where the caller asked to wait, the
\* device is online: wherever earlier attempts broke off.
ProvisionedIsAssociated ==
  prov.step = "succeeded" =>
    /\ prov.group \in cloud.associated
    /\ prov.kind = "retry" => prov.group = resume.group
    /\ prov.status # "throws" /\ (prov.wait => station.online)

\* Under way; a call ends however often its requests and adapter calls fail
\* (EveryFlowEnds of MCDevice).
InProvisioning == prov.step \in ProvSteps
=============================================================================
