------------------------ MODULE NodeMQTTOrchestrator ------------------------
(***************************************************************************)
(* The subscription side of services/NodeMQTTOrchestrator.ts: the singleton*)
(* that shares one set of MQTT subscriptions per shadow between all the    *)
(* nodes bound to it.                                                      *)
(*                                                                         *)
(* subscribeToNode and unsubscribeFromNode go through a per-shadow promise *)
(* chain (SerialQueue); registerNode, unregisterNode, resetSession and     *)
(* clear are synchronous and may run between any two steps of them.        *)
(*                                                                         *)
(* Identities.  A call stands for one invocation and for the topic handler *)
(* that invocation may create.  A ShadowSubscriptionState object is known  *)
(* by its shadow and the session in which registerNode created it: entries *)
(* leave the map only when a session ends, so only the objects of the      *)
(* current session can be read and the variables describe those alone.     *)
(***************************************************************************)
EXTENDS Naturals, FiniteSets

CONSTANTS Nodes,           \* node ids
          Shadows,         \* shadow names
          Callbacks,       \* listener functions
          Calls,           \* invocations of (un)subscribeToNode
          NoShadow, NoCall,
          NumSuffixes,     \* topics subscribed per shadow; 6 in the code
          LiveSuffixes,    \* those whose messages reach the listeners
          MaxSession       \* bound on resets

ASSUME OrchestratorAssumption ==
  /\ NoCall \notin Calls
  /\ NoShadow \notin Shadows
  /\ NumSuffixes \in Nat \ {0}
  /\ LiveSuffixes \subseteq 1..NumSuffixes
  /\ MaxSession \in Nat

VARIABLES phase, keyOf, sessionOf, prev, ahead, tail, session

queueVars == <<phase, keyOf, sessionOf, prev, ahead, tail, session>>

\* shadowOps and runSerial; the map is emptied whenever a session ends.
Q == INSTANCE SerialQueue
       WITH Keys <- Shadows, Ops <- Calls, NoKey <- NoShadow, NoOp <- NoCall

VARIABLES
  initialized,   \* the singleton exists and has its transport
  born,          \* the session in which the singleton was created
  nodeMap,       \* node -> the shadow it is registered with
  known,         \* the shadows that have an entry in shadowSubs
  listeners,     \* shadow -> node -> callbacks
  handler,       \* shadow -> the subscribed handler, NoCall when unsubscribed
  request,       \* what each call asks for
  stage,         \* which await a running subscribe is in
  target,        \* the session of the object a wiring call has captured
  wired          \* transport: on how many topics a handler is installed

mapVars == <<nodeMap, known, listeners, handler>>
vars == <<queueVars, initialized, born, mapVars, request, stage, target, wired>>

Request == [kind : {"subscribe", "unsubscribe"}, node : Nodes, callback : Callbacks]
NoRequest == [kind |-> "none"]

NoListeners == [s \in Shadows |-> [n \in Nodes |-> {}]]

Init ==
  /\ Q!Init
  /\ initialized = FALSE
  /\ born = 0
  /\ nodeMap = [n \in Nodes |-> NoShadow]
  /\ known = {}
  /\ listeners = NoListeners
  /\ handler = [s \in Shadows |-> NoCall]
  /\ request = [c \in Calls |-> NoRequest]
  /\ stage = [c \in Calls |-> "none"]
  /\ target = [c \in Calls |-> 0]
  /\ wired = [c \in Calls |-> 0]

\* Counts initialize and resetSession; what the channels compare.
Generation == IF initialized THEN session + 1 ELSE session

\* A call keeps the instance it was made on; clear() takes its transport and
\* empties its maps for good.
InstanceLive(c) == initialized /\ born <= sessionOf[c]

Unsettled(c) == phase[c] \in {"queued", "running"}

-----------------------------------------------------------------------------
(* Lifecycle *)

\* initialize(transport); throws when the singleton exists.
Initialize ==
  /\ ~initialized
  /\ initialized' = TRUE
  /\ born' = session
  /\ UNCHANGED <<queueVars, mapVars, request, stage, target, wired>>

\* Shared by clear and resetSession: unsubscribe every shadow's handler, drop
\* the maps and the chains' tails.
EndSession ==
  /\ Q!Forget
  /\ nodeMap' = [n \in Nodes |-> NoShadow]
  /\ known' = {}
  /\ listeners' = NoListeners
  /\ handler' = [s \in Shadows |-> NoCall]
  /\ wired' = [c \in Calls |-> IF \E s \in Shadows : handler[s] = c THEN 0 ELSE wired[c]]

\* resetSession(), called by logout.
ResetSession ==
  /\ initialized
  /\ EndSession
  /\ UNCHANGED <<initialized, born, request, stage, target>>

\* clear(), called by ESPRMNeoBase.dispose.
Clear ==
  /\ initialized
  /\ EndSession
  /\ initialized' = FALSE
  /\ UNCHANGED <<born, request, stage, target>>

-----------------------------------------------------------------------------
(* Registration *)

\* Mutation: the state says unsubscribed but the topics stay on the wire.
CleanupLeavesWire(s, remaining) ==
  IF handler[s] # NoCall /\ \A n \in Nodes : remaining[s][n] = {}
  THEN handler' = [handler EXCEPT ![s] = NoCall] /\ UNCHANGED wired
  ELSE UNCHANGED <<handler, wired>>

\* Unsubscribe the shadow's topics once no listener remains.
CleanupIfIdle(s, remaining) ==
  IF handler[s] # NoCall /\ \A n \in Nodes : remaining[s][n] = {}
  THEN /\ handler' = [handler EXCEPT ![s] = NoCall]
       /\ wired' = [wired EXCEPT ![handler[s]] = 0]
  ELSE UNCHANGED <<handler, wired>>

\* Drop a node's listeners from the shadow it is registered with.
Unbind(n) ==
  LET s == nodeMap[n]
      remaining == [listeners EXCEPT ![s][n] = {}]
  IN  /\ listeners' = remaining
      /\ CleanupIfIdle(s, remaining)

\* A rename drops the old binding first.
Bind(n, s) ==
  /\ initialized
  /\ nodeMap' = [nodeMap EXCEPT ![n] = s]
  /\ known' = known \cup {s}
  /\ IF nodeMap[n] \notin {NoShadow, s}
       THEN Unbind(n)
       ELSE UNCHANGED <<listeners, handler, wired>>

RegisterNode(n, s) ==
  /\ Bind(n, s)
  /\ UNCHANGED <<queueVars, initialized, born, request, stage, target>>

UnregisterNode(n) ==
  /\ initialized
  /\ nodeMap[n] # NoShadow
  /\ nodeMap' = [nodeMap EXCEPT ![n] = NoShadow]
  /\ Unbind(n)
  /\ UNCHANGED <<queueVars, initialized, born, known, request, stage, target>>

-----------------------------------------------------------------------------
(* Subscription *)

\* Mutation: runSerial(shadow, op()) starts the op before chaining it.
CallStartsAtOnce(c, r) ==
  /\ initialized
  /\ nodeMap[r.node] # NoShadow
  /\ phase[c] = "idle"
  /\ phase' = [phase EXCEPT ![c] = "running"]
  /\ keyOf' = [keyOf EXCEPT ![c] = nodeMap[r.node]]
  /\ sessionOf' = [sessionOf EXCEPT ![c] = session]
  /\ request' = [request EXCEPT ![c] = r]
  /\ stage' = [stage EXCEPT ![c] = "connecting"]
  /\ UNCHANGED <<prev, ahead, tail, session, initialized, born, mapVars, target, wired>>

\* The call takes its place behind the shadow's other operations.
Enter(c, r, s) ==
  /\ Q!Enqueue(c, s)
  /\ request' = [request EXCEPT ![c] = r]

\* subscribeToNode and unsubscribeFromNode up to runSerial: the shadow is the
\* one the node is registered with now, not when the operation runs.
Call(c, r) ==
  /\ initialized
  /\ nodeMap[r.node] # NoShadow
  /\ Enter(c, r, nodeMap[r.node])
  /\ UNCHANGED <<initialized, born, mapVars, stage, target, wired>>

\* The op starts and awaits transport.isConnected().
BeginSubscribe(c) ==
  /\ request[c].kind = "subscribe"
  /\ InstanceLive(c)
  /\ Q!Start(c)
  /\ stage' = [stage EXCEPT ![c] = "connecting"]
  /\ UNCHANGED <<initialized, born, mapVars, request, target, wired>>

\* "MQTT not available": the instance lost its transport in the meantime.
BeginWithoutTransport(c) ==
  /\ request[c].kind = "subscribe"
  /\ ~InstanceLive(c)
  /\ Q!RunAtOnce(c, "rejected")
  /\ UNCHANGED <<initialized, born, mapVars, request, stage, target, wired>>

Leave(c, outcome) ==
  /\ Q!Settle(c, outcome)
  /\ stage' = [stage EXCEPT ![c] = "none"]
  /\ target' = [target EXCEPT ![c] = 0]

\* isConnected() answers false or rejects, or the shadow's entry is gone.
NotConnected(c) ==
  /\ stage[c] = "connecting"
  /\ Leave(c, "rejected")
  /\ UNCHANGED <<initialized, born, mapVars, request, wired>>

WithListener(c) ==
  [listeners EXCEPT ![keyOf[c]][request[c].node] = @ \cup {request[c].callback}]

\* isConnected() answers true and the shadow is already subscribed.
JoinSubscription(c) ==
  /\ stage[c] = "connecting"
  /\ InstanceLive(c)
  /\ keyOf[c] \in known
  /\ handler[keyOf[c]] # NoCall
  /\ listeners' = WithListener(c)
  /\ Leave(c, "resolved")
  /\ UNCHANGED <<initialized, born, nodeMap, known, handler, request, wired>>

\* Mutation: the listener goes into memory before the wire is subscribed.
StartWiringListenerFirst(c) ==
  /\ stage[c] = "connecting"
  /\ InstanceLive(c)
  /\ keyOf[c] \in known
  /\ handler[keyOf[c]] = NoCall
  /\ stage' = [stage EXCEPT ![c] = "wiring"]
  /\ target' = [target EXCEPT ![c] = session]
  /\ listeners' = WithListener(c)
  /\ UNCHANGED <<queueVars, initialized, born, nodeMap, known, handler, request, wired>>

\* isConnected() answers true: create a handler, subscribe the first topic.
StartWiring(c) ==
  /\ stage[c] = "connecting"
  /\ InstanceLive(c)
  /\ keyOf[c] \in known
  /\ handler[keyOf[c]] = NoCall
  /\ stage' = [stage EXCEPT ![c] = "wiring"]
  /\ target' = [target EXCEPT ![c] = session]
  /\ UNCHANGED <<queueVars, initialized, born, mapVars, request, wired>>

\* One transport.subscribe resolves and the next topic is asked for; without
\* a transport any more, the op fails with the topics it has.
WireNext(c) ==
  /\ stage[c] = "wiring"
  /\ wired[c] + 1 < NumSuffixes
  /\ wired' = [wired EXCEPT ![c] = @ + 1]
  /\ IF InstanceLive(c)
       THEN UNCHANGED <<queueVars, stage, target>>
       ELSE Leave(c, "rejected")
  /\ UNCHANGED <<initialized, born, mapVars, request>>

\* The last topic resolves: the captured object becomes subscribed and gets
\* the listener.  An object of an ended session is in no map any more.
WireLast(c) ==
  /\ stage[c] = "wiring"
  /\ wired[c] + 1 = NumSuffixes
  /\ wired' = [wired EXCEPT ![c] = @ + 1]
  /\ IF target[c] = session
       THEN /\ handler' = [handler EXCEPT ![keyOf[c]] = c]
            /\ listeners' = WithListener(c)
       ELSE UNCHANGED <<handler, listeners>>
  /\ Leave(c, "resolved")
  /\ UNCHANGED <<initialized, born, nodeMap, known, request>>

\* Mutation: the listener is kept although the wire was refused.
WireRefusedKeepsListener(c) ==
  /\ stage[c] = "wiring"
  /\ Leave(c, "rejected")
  /\ listeners' = WithListener(c)
  /\ UNCHANGED <<initialized, born, nodeMap, known, handler, request, wired>>

\* A transport.subscribe rejects: the topics already subscribed stay.
WireRefused(c) ==
  /\ stage[c] = "wiring"
  /\ Leave(c, "rejected")
  /\ UNCHANGED <<initialized, born, mapVars, request, wired>>

\* unsubscribeFromNode's op never awaits.  The maps of a cleared instance are
\* empty.
RunUnsubscribe(c) ==
  LET s == keyOf[c]
      n == request[c].node
      remaining == [listeners EXCEPT ![s][n] = @ \ {request[c].callback}]
  IN  /\ request[c].kind = "unsubscribe"
      /\ Q!RunAtOnce(c, "resolved")
      /\ IF InstanceLive(c) /\ listeners[s][n] # {}
           THEN listeners' = remaining /\ CleanupIfIdle(s, remaining)
           ELSE UNCHANGED <<listeners, handler, wired>>
      /\ UNCHANGED <<initialized, born, nodeMap, known, request, stage, target>>

-----------------------------------------------------------------------------

Run(c) ==
  \/ BeginSubscribe(c)
  \/ BeginWithoutTransport(c)
  \/ NotConnected(c)
  \/ JoinSubscription(c)
  \/ StartWiring(c)
  \/ WireNext(c)
  \/ WireLast(c)
  \/ WireRefused(c)
  \/ RunUnsubscribe(c)

Next ==
  \/ Initialize
  \/ ResetSession
  \/ Clear
  \/ \E n \in Nodes : UnregisterNode(n) \/ \E s \in Shadows : RegisterNode(n, s)
  \/ \E c \in Calls : Run(c) \/ \E r \in Request : Call(c, r)

Spec == Init /\ [][Next]_vars

-----------------------------------------------------------------------------
(* Properties *)

\* Type correctness.
TypeOK ==
  /\ Q!TypeOK
  /\ initialized \in BOOLEAN
  /\ born \in Nat
  /\ nodeMap \in [Nodes -> Shadows \cup {NoShadow}]
  /\ known \subseteq Shadows
  /\ listeners \in [Shadows -> [Nodes -> SUBSET Callbacks]]
  /\ handler \in [Shadows -> Calls \cup {NoCall}]
  /\ request \in [Calls -> Request \cup {NoRequest}]
  /\ stage \in [Calls -> {"none", "connecting", "wiring"}]
  /\ target \in [Calls -> Nat]
  /\ wired \in [Calls -> 0..NumSuffixes]

\* A shadow is subscribed exactly while somebody listens, and then its handler
\* is on every topic: no stranded listener, no idle subscription
\* (subscribeToNode's wire-first order against cleanupSubscriptionIfIdle).
SubscribedIffListened ==
  \A s \in Shadows :
    /\ handler[s] # NoCall <=> \E n \in Nodes : listeners[s][n] # {}
    /\ handler[s] # NoCall => wired[handler[s]] = NumSuffixes

\* The handlers that pass a message on a live topic of s to the listeners.
Routes(s, x) ==
  {c \in Calls : keyOf[c] = s /\ x <= wired[c] /\ InstanceLive(c)}

\* Some subscribe of this shadow failed after a topic had been subscribed.
HalfWired(s) == \E c \in Calls : keyOf[c] = s /\ phase[c] = "rejected" /\ wired[c] > 0

\* Unless an earlier subscribe broke off half-way, a listener is given each
\* message once (runSerial, and the handler kept per subscription).
DeliveredOnce ==
  \A s \in Shadows, x \in LiveSuffixes :
    ~HalfWired(s) /\ (\E n \in Nodes : listeners[s][n] # {})
      => Cardinality(Routes(s, x)) = 1

\* Every handler on the wire is the subscription's own, or is being installed,
\* or was left by a call that failed.
WiredIsOwned ==
  \A c \in Calls :
    wired[c] > 0 => \/ stage[c] = "wiring"
                    \/ phase[c] = "rejected"
                    \/ handler[keyOf[c]] = c

\* Operations of one shadow called in one session never interleave.
ExclusivePerSession == Q!ExclusivePerSession

\* The orchestrator uses its chains as runSerial intends.
ImplementsQueue == Q!Spec
=============================================================================
