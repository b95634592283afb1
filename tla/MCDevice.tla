------------------------------- MODULE MCDevice -------------------------------
(* What the SDK does with devices, for model checking: provisioning one, waiting  *)
(* for it to come online, claiming it, reading and writing it over its local link,  *)
(* working through the nodes of a group, and the queue behind the operations of a    *)
(* key. Each works on state of its own, so one run holds their sum: the flow to      *)
(* follow is chosen at the start and the others rest.                                *)
EXTENDS NodeOnlineWait, AssistedClaiming, Provisioning, LocalControl, GroupNodes, SerialQueue

CONSTANTS s1, s2, g1, g2, l1, l2, m1, m2, m3, x1, o1, o2, o3, k1, k2

MCShadows == {s1, s2}
MCGroups == {g1, g2}
MCLinkOps == {l1, l2}
MCGroupOrder == <<m1, m2, m3>>
MCStrangers == {x1}
MCOps == {o1, o2, o3}
MCKeys == {k1, k2}

VARIABLE flow   \* the flow that is followed

deviceVars == <<flow, wait, bound, attached, reported, app, claim, device, service,
                prov, resume, station, cloud, op, reads, peer, job, schedules, stored, pool,
                phase, keyOf, sessionOf, prev, ahead, tail, session>>

WaitRests == UNCHANGED <<wait, bound, attached, reported, app>>
ClaimRests == UNCHANGED <<claim, device, service>>
ProvRests == UNCHANGED <<prov, resume, station, cloud>>
LocalRests == UNCHANGED <<op, reads, peer>>
JobRests == UNCHANGED <<job, schedules, stored, pool>>
QueueRests == UNCHANGED <<phase, keyOf, sessionOf, prev, ahead, tail, session>>

\* What rests has one initial state.
DeviceInit ==
  /\ flow \in {"wait", "claim", "provision", "local", "group", "queue"}
  /\ WaitInit /\ ClaimInit /\ ProvInit /\ LocalInit /\ JobInit /\ Init
  /\ flow # "wait" => wait.shadow = s1 /\ ~reported
  /\ flow # "local" => peer.security = 0 /\ ~peer.known
  /\ flow # "group" => stored = {}

DeviceNext ==
  /\ UNCHANGED flow
  /\ \/ flow = "wait" /\ WaitNext /\ ClaimRests /\ ProvRests /\ LocalRests /\ JobRests /\ QueueRests
     \/ flow = "claim" /\ ClaimNext /\ WaitRests /\ ProvRests /\ LocalRests /\ JobRests /\ QueueRests
     \/ flow = "provision" /\ ProvNext /\ WaitRests /\ ClaimRests /\ LocalRests /\ JobRests /\ QueueRests
     \/ flow = "local" /\ LocalNext /\ WaitRests /\ ClaimRests /\ ProvRests /\ JobRests /\ QueueRests
     \/ flow = "group" /\ JobNext /\ WaitRests /\ ClaimRests /\ ProvRests /\ LocalRests /\ QueueRests
     \/ flow = "queue" /\ Next /\ WaitRests /\ ClaimRests /\ ProvRests /\ LocalRests /\ JobRests

\* In the flow that is followed: a connection, a subscribe, an adapter's call and a
\* request succeed or fail (a shadow's request times out, see ShadowRequest), a timer
\* fires, a settled promise is heard, and a queued operation is started and settles.
DeviceFairness ==
  /\ WF_waitVars(flow = "wait" /\ (Connected \/ Subscribed \/ Fail))
  /\ WF_waitVars(flow = "wait" /\ \E online \in BOOLEAN : FirstPollAnswers(online))
  /\ WF_waitVars(flow = "wait" /\ TimerFires)
  /\ WF_waitVars(flow = "wait" /\ (WaitOver \/ CleanedUp))
  /\ WF_claimVars(flow = "claim" /\ (ClaimProgress \/ ExchangeFails))
  /\ WF_provVars(flow = "provision" /\ ProvProgress)
  /\ \A o \in LinkOps : WF_localVars(flow = "local" /\ OpStep(o))
  /\ WF_jobVars(flow = "group" /\ JobProgress)
  /\ \A o \in Ops : WF_vars(flow = "queue" /\ Progress(o))

DeviceSpec == DeviceInit /\ [][DeviceNext]_deviceVars /\ DeviceFairness

DeviceTypeOK == WaitTypeOK /\ ClaimTypeOK /\ ProvTypeOK /\ LocalTypeOK /\ JobTypeOK /\ TypeOK

\* No flow hangs: waiting, claiming, provisioning, reading, writing and working
\* through a group come to an end, in success or in an error, and so do the
\* operations of a queue. Calls are bounded, so what is under way is over together.
UnderWay == \/ Waiting \/ Claiming \/ InProvisioning \/ OpsUnderWay \/ JobUnderWay
            \/ \E o \in Ops : phase[o] = "queued"
EveryFlowEnds == UnderWay ~> ~UnderWay
=============================================================================
