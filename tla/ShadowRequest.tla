---------------------------- MODULE ShadowRequest ----------------------------
(***************************************************************************)
(* The request/response side of services/NodeMQTTOrchestrator.ts: getParams*)
(* and getShadow publish on <shadow>/get and wait, on two topics they      *)
(* subscribe for the purpose, for the first answer, a timeout, or the end  *)
(* of the session.                                                         *)
(*                                                                         *)
(* The MQTT client is external.  It carries out subscribe and unsubscribe  *)
(* in the order they are called, so a handler unsubscribed before its      *)
(* subscribe is answered never becomes active, and gives every message of  *)
(* a topic to each handler active on it.                                   *)
(***************************************************************************)
EXTENDS Naturals

CONSTANTS Requests,      \* invocations of getParams and getShadow
          Nodes, Shadows,
          NoShadow, NoTopic, NoRequest,
          MaxSession     \* bound on session ends

ASSUME RequestAssumption ==
  /\ NoShadow \notin Shadows
  /\ NoTopic \notin Nodes \X Shadows
  /\ NoRequest \notin Requests
  /\ MaxSession \in Nat

VARIABLES
  initialized,  \* the singleton exists and has its transport
  session,      \* how many sessions have ended
  born,         \* the session in which the singleton was created
  nodeMap,      \* node -> the shadow it is registered with
  pending,      \* pendingRequests: topic -> the request last filed under it
  phase,        \* where each request is
  topic,        \* <<node, shadow>> as read when the request was made
  mark,         \* the session in which it took its instance, then was sent
  unanswered,   \* its transport.subscribe calls that have not settled
  active,       \* the topics its handler is active on
  answer        \* the reply to its own get

lifeVars == <<initialized, session, born>>
vars == <<lifeVars, nodeMap, pending, phase, topic, mark, unanswered, active, answer>>

Topics == Nodes \X Shadows
Verdict == {"accepted", "rejected"}
Settled == {"resolved", "rejected"}
Phase == {"idle", "checking", "connecting", "waiting"} \cup Settled

Init ==
  /\ initialized = FALSE
  /\ session = 0
  /\ born = 0
  /\ nodeMap = [n \in Nodes |-> NoShadow]
  /\ pending = [t \in Topics |-> NoRequest]
  /\ phase = [r \in Requests |-> "idle"]
  /\ topic = [r \in Requests |-> NoTopic]
  /\ mark = [r \in Requests |-> 0]
  /\ unanswered = [r \in Requests |-> {}]
  /\ active = [r \in Requests |-> {}]
  /\ answer = [r \in Requests |-> "none"]

\* The instance a request took is still the singleton.
InstanceLive(r) == initialized /\ born <= mark[r]

-----------------------------------------------------------------------------
(* A request up to the wire *)

Reject(r) == phase' = [phase EXCEPT ![r] = "rejected"]

\* fetchShadowDocument reads the registration, then awaits isConnected().
Fetch(r, n) ==
  /\ initialized
  /\ phase[r] = "idle"
  /\ phase' = [phase EXCEPT ![r] = "checking"]
  /\ topic' = [topic EXCEPT ![r] =
                 IF nodeMap[n] = NoShadow THEN NoTopic ELSE <<n, nodeMap[n]>>]
  /\ UNCHANGED <<lifeVars, nodeMap, pending, mark, unanswered, active, answer>>

\* isConnected() answers false or rejects, in either function.
NotConnected(r) ==
  /\ phase[r] \in {"checking", "connecting"}
  /\ Reject(r)
  /\ UNCHANGED <<lifeVars, nodeMap, pending, topic, mark, unanswered, active, answer>>

\* Connected, but the node was not registered or the singleton is gone.
CannotExecute(r) ==
  /\ phase[r] = "checking"
  /\ topic[r] = NoTopic \/ ~initialized
  /\ Reject(r)
  /\ UNCHANGED <<lifeVars, nodeMap, pending, topic, mark, unanswered, active, answer>>

\* executeRequestResponse takes the singleton of now and checks again.
Execute(r) ==
  /\ phase[r] = "checking"
  /\ topic[r] # NoTopic
  /\ initialized
  /\ phase' = [phase EXCEPT ![r] = "connecting"]
  /\ mark' = [mark EXCEPT ![r] = session]
  /\ UNCHANGED <<lifeVars, nodeMap, pending, topic, unanswered, active, answer>>

\* The timer starts, the request is filed under its accepted topic, over any
\* other, and both subscribes are called.  A cleared instance has a map of its
\* own, which nobody reads.
Send(r) ==
  /\ phase[r] = "connecting"
  /\ phase' = [phase EXCEPT ![r] = "waiting"]
  /\ unanswered' = [unanswered EXCEPT ![r] = Verdict]
  /\ IF InstanceLive(r)
       THEN /\ pending' = [pending EXCEPT ![topic[r]] = r]
            /\ mark' = [mark EXCEPT ![r] = session]
       ELSE UNCHANGED <<pending, mark>>
  /\ UNCHANGED <<lifeVars, nodeMap, topic, active, answer>>

-----------------------------------------------------------------------------
(* Its end *)

\* cleanup(), for each of a set of requests: the entry of the topic goes,
\* whosesoever it is, and the handler is unsubscribed.
CleanUp(R) ==
  /\ pending' = [t \in Topics |->
                   IF \E r \in R : InstanceLive(r) /\ topic[r] = t
                   THEN NoRequest ELSE pending[t]]
  /\ active' = [r \in Requests |-> IF r \in R THEN {} ELSE active[r]]

\* Mutation: one subscribe is enough to publish.
PublishAfterFirst(r, rest) ==
  answer' = [answer EXCEPT ![r] = IF rest # Verdict THEN "coming" ELSE @]

\* Both subscribes resolved: publish, also when the request has timed out.
PublishWhenSubscribed(r, rest) ==
  answer' = [answer EXCEPT ![r] = IF rest = {} THEN "coming" ELSE @]

\* One of the subscribes resolves.
Subscribed(r, v) ==
  LET rest == unanswered[r] \ {v}
  IN  /\ v \in unanswered[r]
      /\ unanswered' = [unanswered EXCEPT ![r] = rest]
      /\ active' = [active EXCEPT ![r] = IF phase[r] = "waiting" THEN @ \cup {v} ELSE @]
      /\ PublishWhenSubscribed(r, rest)
      /\ UNCHANGED <<lifeVars, nodeMap, pending, phase, topic, mark>>

\* One of them rejects: clean up and fail, whether or not it is over already.
\* Promise.all ignores what becomes of the other.
SubscribeFailed(r, v) ==
  /\ v \in unanswered[r]
  /\ unanswered' = [unanswered EXCEPT ![r] = {}]
  /\ CleanUp({r})
  /\ phase' = [phase EXCEPT ![r] = IF @ = "waiting" THEN "rejected" ELSE @]
  /\ UNCHANGED <<lifeVars, nodeMap, topic, mark, answer>>

\* Every handler active on the topic takes the message as its answer.
\* outcome: the payload parsed or did not.
Deliver(t, v, outcome) ==
  LET heard == {r \in Requests : topic[r] = t /\ v \in active[r]}
  IN  /\ v = "rejected" => outcome = "rejected"
      /\ CleanUp(heard)
      /\ phase' = [r \in Requests |-> IF r \in heard THEN outcome ELSE phase[r]]

\* The shadow service answers a get.
Answered(r) ==
  /\ answer[r] = "coming"
  /\ answer' = [answer EXCEPT ![r] = "delivered"]
  /\ \E v \in Verdict, outcome \in Settled : Deliver(topic[r], v, outcome)
  /\ UNCHANGED <<lifeVars, nodeMap, topic, mark, unanswered>>

\* The answer to another client's get arrives on the same topics.
AnsweredToOthers(t) ==
  /\ \E v \in Verdict, outcome \in Settled : Deliver(t, v, outcome)
  /\ UNCHANGED <<lifeVars, nodeMap, topic, mark, unanswered, answer>>

\* The publish failed, unnoticed, or the request or its answer was lost.
AnswerLost(r) ==
  /\ answer[r] = "coming"
  /\ answer' = [answer EXCEPT ![r] = "lost"]
  /\ UNCHANGED <<lifeVars, nodeMap, pending, phase, topic, mark, unanswered, active>>

\* Mutation: the timer acts only on the request that is filed.
TimeoutOfFiled(r) ==
  /\ phase[r] = "waiting"
  /\ pending[topic[r]] = r
  /\ CleanUp({r})
  /\ Reject(r)
  /\ UNCHANGED <<lifeVars, nodeMap, topic, mark, unanswered, answer>>

Timeout(r) ==
  /\ phase[r] = "waiting"
  /\ CleanUp({r})
  /\ Reject(r)
  /\ UNCHANGED <<lifeVars, nodeMap, topic, mark, unanswered, answer>>

-----------------------------------------------------------------------------
(* Lifecycle and registration *)

Initialize ==
  /\ ~initialized
  /\ initialized' = TRUE
  /\ born' = session
  /\ UNCHANGED <<session, nodeMap, pending, phase, topic, mark, unanswered, active, answer>>

\* Mutation: the entries are rejected, their handlers stay subscribed.
RejectPendingKeepingHandlers(filed) ==
  /\ phase' = [r \in Requests |-> IF r \in filed THEN "rejected" ELSE phase[r]]
  /\ pending' = [t \in Topics |-> NoRequest]
  /\ UNCHANGED active

\* clearAllPendingRequests
RejectPending(filed) ==
  /\ phase' = [r \in Requests |-> IF r \in filed THEN "rejected" ELSE phase[r]]
  /\ active' = [r \in Requests |-> IF r \in filed THEN {} ELSE active[r]]
  /\ pending' = [t \in Topics |-> NoRequest]

\* resetSession() and, when the singleton goes too, clear().
EndSession ==
  /\ initialized
  /\ session < MaxSession
  /\ session' = session + 1
  /\ initialized' \in BOOLEAN
  /\ RejectPending({pending[t] : t \in Topics} \ {NoRequest})
  /\ nodeMap' = [n \in Nodes |-> NoShadow]
  /\ UNCHANGED <<born, topic, mark, unanswered, answer>>

\* registerNode and unregisterNode do not look at pending requests.
Rebind(n, s) ==
  /\ initialized
  /\ nodeMap' = [nodeMap EXCEPT ![n] = s]
  /\ UNCHANGED <<lifeVars, pending, phase, topic, mark, unanswered, active, answer>>

-----------------------------------------------------------------------------

\* What the program and its timers do for a request.
Run(r) ==
  \/ NotConnected(r)
  \/ CannotExecute(r)
  \/ Execute(r)
  \/ Send(r)
  \/ Timeout(r)

Next ==
  \/ \E r \in Requests :
       \/ \E n \in Nodes : Fetch(r, n)
       \/ Run(r)
       \/ \E v \in Verdict : Subscribed(r, v) \/ SubscribeFailed(r, v)
       \/ Answered(r)
       \/ AnswerLost(r)
  \/ \E t \in Topics : AnsweredToOthers(t)
  \/ Initialize
  \/ EndSession
  \/ \E n \in Nodes, s \in Shadows \cup {NoShadow} : Rebind(n, s)

Spec == Init /\ [][Next]_vars

\* isConnected() settles and timers fire.  Nothing is assumed of subscribes,
\* publishes or the service.
FairSpec == Spec /\ \A r \in Requests : WF_vars(Run(r))

-----------------------------------------------------------------------------
(* Properties *)

\* Type correctness.
TypeOK ==
  /\ initialized \in BOOLEAN
  /\ session \in 0..MaxSession
  /\ born \in 0..session
  /\ nodeMap \in [Nodes -> Shadows \cup {NoShadow}]
  /\ pending \in [Topics -> Requests \cup {NoRequest}]
  /\ phase \in [Requests -> Phase]
  /\ topic \in [Requests -> Topics \cup {NoTopic}]
  /\ mark \in [Requests -> 0..session]
  /\ unanswered \in [Requests -> SUBSET Verdict]
  /\ active \in [Requests -> SUBSET Verdict]
  /\ answer \in [Requests -> {"none", "coming", "delivered", "lost"}]

\* pendingRequests holds only requests that wait, each under its topic, so a
\* session's end never rejects or unsubscribes one that is over.
PendingIsWaiting ==
  \A t \in Topics :
    pending[t] # NoRequest =>
      /\ phase[pending[t]] = "waiting"
      /\ topic[pending[t]] = t
      /\ InstanceLive(pending[t])

\* Only a waiting request has a handler on the wire: whichever of answer,
\* refusal, failed subscribe, timeout and session end comes first, and however
\* late the subscribes are answered (cleanup, clearAllPendingRequests).
SettledIsSilent == \A r \in Requests : phase[r] # "waiting" => active[r] = {}

\* A request settles once and leaves no handler behind: of answer, refusal, failed
\* subscribe, timeout and session end the first to come decides, no later one changes
\* what it decided, and an answer on a topic settles all who listen there.
Settling == INSTANCE OneShot WITH
  Calls <- Requests, Outcomes <- Settled, Things <- Verdict,
  state <- [r \in Requests |-> IF phase[r] \in Settled \cup {"idle"} THEN phase[r] ELSE "underway"],
  held <- active
SettlesOnce == Settling!Spec

\* No answer is missed: when the reply to a request's own get has come by, the
\* request is over, because it publishes only once both handlers are active,
\* and no other request's cleanup takes them off (Promise.all before publish;
\* unsubscribe names the handler).
AnswerIsHeard == \A r \in Requests : answer[r] = "delivered" => phase[r] \in Settled

\* Every request settles, whatever the network does, also when another request
\* has taken its entry in pendingRequests.
EveryRequestSettles ==
  \A r \in Requests : phase[r] # "idle" ~> phase[r] \in Settled
=============================================================================
