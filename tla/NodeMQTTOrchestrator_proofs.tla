--------------------- MODULE NodeMQTTOrchestrator_proofs ---------------------
(***************************************************************************)
(* For any nodes, shadows, callbacks and calls, any number of topics and   *)
(* sessions, and sessions that end at any moment:                          *)
(*   - the orchestrator's state is typed;                                  *)
(*   - its chains are used as SerialQueue describes, hence exclude;        *)
(*   - a shadow is subscribed on every topic exactly while it has a        *)
(*     listener;                                                           *)
(*   - whoever listens asked to and was told so, for where its node is     *)
(*     now, unless the call was pending when that changed;                 *)
(*   - while sessions end only between operations, every handler on the    *)
(*     wire is owned, and a listener is reached by one route.              *)
(***************************************************************************)
EXTENDS MCNodeMQTTOrchestrator, FiniteSetTheorems, TLAPS

QP == INSTANCE SerialQueue_proofs
        WITH Keys <- Shadows, Ops <- Calls, NoKey <- NoShadow, NoOp <- NoCall

\* The queue of the module and the queue of the cited theorems are the same.
LEMMA SameQueueStep == [Q!Next]_(Q!vars) => [QP!Next]_(QP!vars)
BY Zenon DEF Q!Next, Q!vars, Q!Enqueue, Q!ChainUpTo, Q!Start, Q!Released,
  Q!Settle, Q!Finish, Q!RunAtOnce, Q!Forget, Q!Outcome,
  QP!Next, QP!vars, QP!Enqueue, QP!ChainUpTo, QP!Start, QP!Released,
  QP!Settle, QP!Finish, QP!RunAtOnce, QP!Forget, QP!Outcome

LEMMA SameQueueInit == Q!Init => QP!Init
BY Zenon DEF Q!Init, QP!Init

LEMMA SameQueueType == Q!TypeOK <=> QP!TypeOK
BY Zenon DEF Q!TypeOK, QP!TypeOK, Q!Phase, QP!Phase, Q!Outcome, QP!Outcome

LEMMA SameQueueTypeNext == Q!TypeOK' <=> QP!TypeOK'
BY Zenon DEF Q!TypeOK, QP!TypeOK, Q!Phase, QP!Phase, Q!Outcome, QP!Outcome

LEMMA QueueStepType == Q!TypeOK /\ [Q!Next]_(Q!vars) => Q!TypeOK'
BY SameQueueStep, SameQueueType, SameQueueTypeNext, QP!StepType, OrchestratorAssumption

-----------------------------------------------------------------------------
(* Every step of the orchestrator is a step of its queue, or none. *)

LEMMA RunIsQueueStep ==
  ASSUME TypeOK, NEW c \in Calls, Run(c)
  PROVE  Q!Next \/ UNCHANGED queueVars
<1>1. "resolved" \in Q!Outcome /\ "rejected" \in Q!Outcome
  BY DEF Q!Outcome
<1>2. CASE BeginSubscribe(c)
  BY <1>2 DEF BeginSubscribe, Q!Next
<1>3. CASE BeginWithoutTransport(c)
  BY <1>1, <1>3 DEF BeginWithoutTransport, Q!Next
<1>4. CASE NotConnected(c)
  BY <1>1, <1>4 DEF NotConnected, Leave, Q!Next
<1>5. CASE JoinSubscription(c)
  BY <1>1, <1>5 DEF JoinSubscription, Leave, Q!Next
<1>6. CASE StartWiring(c)
  BY <1>6 DEF StartWiring
<1>7. CASE WireNext(c)
  BY <1>1, <1>7 DEF WireNext, Leave, Q!Next
<1>8. CASE WireLast(c)
  BY <1>1, <1>8 DEF WireLast, Leave, Q!Next
<1>9. CASE WireRefused(c)
  BY <1>1, <1>9 DEF WireRefused, Leave, Q!Next
<1>10. CASE RunUnsubscribe(c)
  BY <1>1, <1>10 DEF RunUnsubscribe, Q!Next
<1> QED
  BY <1>2, <1>3, <1>4, <1>5, <1>6, <1>7, <1>8, <1>9, <1>10 DEF Run

LEMMA CallIsQueueStep ==
  ASSUME TypeOK, NEW c \in Calls, NEW r \in Request, Call(c, r)
  PROVE  Q!Next
<1>1. nodeMap[r.node] \in Shadows
  BY DEF Call, Enter, TypeOK, Request
<1> QED
  BY <1>1 DEF Call, Enter, Q!Next

LEMMA StepIsQueueStep == TypeOK /\ [Next]_vars => [Q!Next]_(Q!vars)
<1> SUFFICES ASSUME TypeOK, [Next]_vars PROVE Q!Next \/ UNCHANGED queueVars
  BY DEF Q!vars, queueVars
<1>1. CASE Initialize
  BY <1>1 DEF Initialize
<1>2. CASE ResetSession \/ Clear
  BY <1>2 DEF ResetSession, Clear, EndSession, Q!Next
<1>3. ASSUME NEW n \in Nodes, UnregisterNode(n) PROVE UNCHANGED queueVars
  BY <1>3 DEF UnregisterNode
<1>4. ASSUME NEW n \in Nodes, NEW s \in Shadows, RegisterNode(n, s)
      PROVE  UNCHANGED queueVars
  BY <1>4 DEF RegisterNode, Bind
<1>5. CASE UNCHANGED vars
  BY <1>5 DEF vars
<1> QED
  BY <1>1, <1>2, <1>3, <1>4, <1>5, RunIsQueueStep, CallIsQueueStep DEF Next

-----------------------------------------------------------------------------
(***************************************************************************)
(* The inductive invariant.  What holds the listeners to the wire is that  *)
(* a subscribed handler belongs to a call of that shadow that is over, so  *)
(* no step of a call touches it any more.                                  *)
(***************************************************************************)

CallsAreTyped ==
  \A c \in Calls :
    /\ phase[c] # "idle" => keyOf[c] \in Shadows /\ request[c] \in Request
    /\ stage[c] # "none" => phase[c] = "running"

HandlersAreOver ==
  \A s \in Shadows :
    handler[s] # NoCall => keyOf[handler[s]] = s /\ phase[handler[s]] = "resolved"

IInv == TypeOK /\ CallsAreTyped /\ HandlersAreOver /\ SubscribedIffListened

\* What a step of the queue does to the fields the invariant reads.
LEMMA QueueStepKeepsCalls ==
  ASSUME Q!TypeOK, NEW c \in Calls, NEW outcome \in Q!Outcome,
         Q!Start(c) \/ Q!Settle(c, outcome) \/ Q!RunAtOnce(c, outcome)
  PROVE  /\ phase[c] \in {"queued", "running"}
         /\ phase'[c] \in {"running", "resolved", "rejected"}
         /\ \A d \in Calls : d # c => phase'[d] = phase[d]
         /\ UNCHANGED keyOf
BY DEF Q!TypeOK, Q!Start, Q!Settle, Q!RunAtOnce, Q!Finish, Q!Released, Q!Outcome, Q!Phase

LEMMA ZeroTopics == 0 \in 0..NumSuffixes
BY OrchestratorAssumption

LEMMA InitInv == Init => IInv
<1> SUFFICES ASSUME Init PROVE IInv
  OBVIOUS
<1>1. Q!TypeOK
  BY SameQueueInit, SameQueueType, QP!InitType, OrchestratorAssumption DEF Init
<1>2. TypeOK
  BY <1>1, ZeroTopics DEF Init, TypeOK, NoListeners
<1>3. CallsAreTyped /\ HandlersAreOver /\ SubscribedIffListened
  BY DEF Init, Q!Init, CallsAreTyped, HandlersAreOver, SubscribedIffListened, NoListeners
<1> QED BY <1>2, <1>3 DEF IInv

\* Removing listeners of one shadow and cleaning up keeps the wire and the
\* listeners together, and disturbs no other shadow.
LEMMA CleanupKeeps ==
  ASSUME TypeOK, HandlersAreOver, SubscribedIffListened,
         NEW s \in Shadows, NEW n \in Nodes, NEW left \in SUBSET listeners[s][n],
         listeners' = [listeners EXCEPT ![s][n] = left],
         CleanupIfIdle(s, [listeners EXCEPT ![s][n] = left])
  PROVE  /\ listeners' \in [Shadows -> [Nodes -> SUBSET Callbacks]]
         /\ handler' \in [Shadows -> Calls \cup {NoCall}]
         /\ wired' \in [Calls -> 0..NumSuffixes]
         /\ \A t \in Shadows : handler'[t] \in {handler[t], NoCall}
         /\ SubscribedIffListened'
<1> DEFINE remaining == [listeners EXCEPT ![s][n] = left]
<1>1. remaining \in [Shadows -> [Nodes -> SUBSET Callbacks]]
  BY DEF TypeOK
<1>2. \A t \in Shadows, m \in Nodes : remaining[t][m] \subseteq listeners[t][m]
  BY DEF TypeOK
<1>3. \A t \in Shadows, m \in Nodes : t # s => remaining[t][m] = listeners[t][m]
  BY DEF TypeOK
<1>4. \A t \in Shadows : t # s /\ handler[s] # NoCall => handler[t] # handler[s]
  BY DEF HandlersAreOver
<1>5. CASE handler[s] # NoCall /\ \A m \in Nodes : remaining[s][m] = {}
  <2>1. /\ handler' = [handler EXCEPT ![s] = NoCall]
        /\ wired' = [wired EXCEPT ![handler[s]] = 0]
    BY <1>5 DEF CleanupIfIdle
  <2>2. /\ handler' \in [Shadows -> Calls \cup {NoCall}]
        /\ wired' \in [Calls -> 0..NumSuffixes]
        /\ \A t \in Shadows : handler'[t] = IF t = s THEN NoCall ELSE handler[t]
        /\ \A c \in Calls : c # handler[s] => wired'[c] = wired[c]
    BY <1>5, <2>1, ZeroTopics DEF TypeOK
  <2>3. SubscribedIffListened'
    BY <1>1, <1>3, <1>4, <1>5, <2>2 DEF SubscribedIffListened, TypeOK
  <2> QED BY <1>1, <2>2, <2>3
<1>6. CASE ~(handler[s] # NoCall /\ \A m \in Nodes : remaining[s][m] = {})
  <2>1. UNCHANGED <<handler, wired>>
    BY <1>6 DEF CleanupIfIdle
  <2>2. SubscribedIffListened'
    BY <1>1, <1>2, <1>3, <1>6, <2>1 DEF SubscribedIffListened
  <2> QED BY <1>1, <2>1, <2>2 DEF TypeOK
<1> QED BY <1>5, <1>6

LEMMA EndSessionKeeps ==
  ASSUME IInv, Q!TypeOK', EndSession, initialized' \in BOOLEAN,
         UNCHANGED <<born, request, stage, target>>
  PROVE  IInv'
<1> USE DEF IInv, EndSession
<1>1. TypeOK'
  BY ZeroTopics DEF TypeOK, NoListeners
<1>2. CallsAreTyped'
  BY DEF CallsAreTyped, Q!Forget
<1>3. HandlersAreOver' /\ SubscribedIffListened'
  BY DEF HandlersAreOver, SubscribedIffListened, NoListeners
<1> QED BY <1>1, <1>2, <1>3

LEMMA RegisterKeeps ==
  ASSUME IInv, Q!TypeOK', NEW n \in Nodes, NEW s \in Shadows, RegisterNode(n, s)
  PROVE  IInv'
<1> USE DEF IInv, RegisterNode, Bind
<1>1. CASE nodeMap[n] \notin {NoShadow, s}
  <2>1. nodeMap[n] \in Shadows
    BY <1>1 DEF TypeOK
  <2>2. /\ listeners' \in [Shadows -> [Nodes -> SUBSET Callbacks]]
        /\ handler' \in [Shadows -> Calls \cup {NoCall}]
        /\ wired' \in [Calls -> 0..NumSuffixes]
        /\ \A t \in Shadows : handler'[t] \in {handler[t], NoCall}
        /\ SubscribedIffListened'
    BY <1>1, <2>1, CleanupKeeps, {} \in SUBSET listeners[nodeMap[n]][n] DEF Unbind
  <2>3. TypeOK'
    BY <2>2 DEF TypeOK
  <2>4. CallsAreTyped' /\ HandlersAreOver'
    BY <2>2 DEF CallsAreTyped, HandlersAreOver, queueVars
  <2> QED BY <2>2, <2>3, <2>4
<1>2. CASE nodeMap[n] \in {NoShadow, s}
  BY <1>2 DEF TypeOK, CallsAreTyped, HandlersAreOver, SubscribedIffListened, queueVars
<1> QED BY <1>1, <1>2

LEMMA UnregisterKeeps ==
  ASSUME IInv, Q!TypeOK', NEW n \in Nodes, UnregisterNode(n)
  PROVE  IInv'
<1> USE DEF IInv, UnregisterNode
<1>1. nodeMap[n] \in Shadows
  BY DEF TypeOK
<1>2. /\ listeners' \in [Shadows -> [Nodes -> SUBSET Callbacks]]
      /\ handler' \in [Shadows -> Calls \cup {NoCall}]
      /\ wired' \in [Calls -> 0..NumSuffixes]
      /\ \A t \in Shadows : handler'[t] \in {handler[t], NoCall}
      /\ SubscribedIffListened'
  BY <1>1, CleanupKeeps, {} \in SUBSET listeners[nodeMap[n]][n] DEF Unbind
<1>3. TypeOK'
  BY <1>2 DEF TypeOK
<1>4. CallsAreTyped' /\ HandlersAreOver'
  BY <1>2 DEF CallsAreTyped, HandlersAreOver, queueVars
<1> QED BY <1>2, <1>3, <1>4

LEMMA CallKeeps ==
  ASSUME IInv, Q!TypeOK', NEW c \in Calls, NEW r \in Request, Call(c, r)
  PROVE  IInv'
<1> USE DEF IInv, Call, Enter
<1>1. /\ phase[c] = "idle" /\ phase' = [phase EXCEPT ![c] = "queued"]
      /\ keyOf' = [keyOf EXCEPT ![c] = nodeMap[r.node]] /\ nodeMap[r.node] \in Shadows
  BY DEF Q!Enqueue, TypeOK, Request
<1>2. TypeOK'
  BY DEF TypeOK, mapVars
<1>3. CallsAreTyped'
  BY <1>1 DEF CallsAreTyped, TypeOK, Q!TypeOK
<1>4. HandlersAreOver' /\ SubscribedIffListened'
  BY <1>1 DEF HandlersAreOver, SubscribedIffListened, mapVars, TypeOK, Q!TypeOK
<1> QED BY <1>2, <1>3, <1>4

\* A call whose own step this is was not over, so it is nobody's handler.
LEMMA CallKeepsHandlers ==
  ASSUME IInv, Q!TypeOK', NEW c \in Calls, NEW outcome \in Q!Outcome,
         Q!Start(c) \/ Q!Settle(c, outcome) \/ Q!RunAtOnce(c, outcome)
  PROVE  /\ keyOf[c] \in Shadows /\ request[c] \in Request
         /\ phase[c] \in {"queued", "running"}
         /\ phase'[c] \in {"running", "resolved", "rejected"}
         /\ \A s \in Shadows : handler[s] # c
         /\ \A d \in Calls : d # c => phase'[d] = phase[d]
         /\ UNCHANGED keyOf
<1>1. /\ phase[c] \in {"queued", "running"}
      /\ phase'[c] \in {"running", "resolved", "rejected"}
      /\ \A d \in Calls : d # c => phase'[d] = phase[d]
      /\ UNCHANGED keyOf
  BY QueueStepKeepsCalls DEF IInv, TypeOK
<1>2. keyOf[c] \in Shadows /\ request[c] \in Request
  BY <1>1 DEF IInv, CallsAreTyped
<1>3. \A s \in Shadows : handler[s] # c
  BY <1>1, OrchestratorAssumption DEF IInv, HandlersAreOver
<1> QED BY <1>1, <1>2, <1>3

LEMMA BeginSubscribeKeeps ==
  ASSUME IInv, Q!TypeOK', NEW c \in Calls, BeginSubscribe(c)
  PROVE  IInv'
<1> USE DEF IInv, BeginSubscribe
<1>1. "resolved" \in Q!Outcome
  BY DEF Q!Outcome
<1>2. /\ \A s \in Shadows : handler[s] # c
      /\ \A d \in Calls : d # c => phase'[d] = phase[d]
      /\ UNCHANGED keyOf
      /\ keyOf[c] \in Shadows /\ request[c] \in Request
  BY <1>1, CallKeepsHandlers
<1>3. phase'[c] = "running"
  BY DEF Q!Start, TypeOK, Q!TypeOK
<1>4. TypeOK'
  BY DEF TypeOK, mapVars
<1>5. CallsAreTyped'
  BY <1>2, <1>3 DEF CallsAreTyped, TypeOK
<1>6. HandlersAreOver' /\ SubscribedIffListened'
  BY <1>2 DEF HandlersAreOver, SubscribedIffListened, mapVars, TypeOK
<1> QED BY <1>4, <1>5, <1>6

\* A settled call has left its stage.
LEMMA LeaveKeepsCalls ==
  ASSUME IInv, Q!TypeOK', NEW c \in Calls, NEW outcome \in {"resolved", "rejected"},
         Leave(c, outcome), UNCHANGED request
  PROVE  /\ CallsAreTyped'
         /\ stage' \in [Calls -> {"none", "connecting", "wiring"}]
         /\ target' \in [Calls -> Nat]
         /\ keyOf[c] \in Shadows /\ request[c] \in Request
         /\ phase'[c] = outcome
         /\ \A s \in Shadows : handler[s] # c
         /\ \A d \in Calls : d # c => phase'[d] = phase[d]
         /\ UNCHANGED keyOf
<1> USE DEF Leave
<1>1. /\ keyOf[c] \in Shadows /\ request[c] \in Request
      /\ \A s \in Shadows : handler[s] # c
      /\ \A d \in Calls : d # c => phase'[d] = phase[d]
      /\ UNCHANGED keyOf
  BY CallKeepsHandlers DEF Q!Outcome
<1>2. phase'[c] = outcome
  BY DEF Q!Settle, Q!Finish, IInv, TypeOK, Q!TypeOK
<1>3. /\ stage' \in [Calls -> {"none", "connecting", "wiring"}]
      /\ target' \in [Calls -> Nat]
  BY DEF IInv, TypeOK
<1>4. CallsAreTyped'
  BY <1>1, <1>2, <1>3 DEF CallsAreTyped, IInv, TypeOK
<1> QED BY <1>1, <1>2, <1>3, <1>4

LEMMA BeginWithoutTransportKeeps ==
  ASSUME IInv, Q!TypeOK', NEW c \in Calls, BeginWithoutTransport(c)
  PROVE  IInv'
<1> USE DEF IInv, BeginWithoutTransport
<1>1. /\ \A s \in Shadows : handler[s] # c
      /\ \A d \in Calls : d # c => phase'[d] = phase[d]
      /\ UNCHANGED keyOf
      /\ keyOf[c] \in Shadows /\ request[c] \in Request
  BY CallKeepsHandlers DEF Q!Outcome
<1>2. phase[c] = "queued"
  BY DEF Q!RunAtOnce, Q!Released
<1>3. TypeOK'
  BY DEF TypeOK, mapVars
<1>4. CallsAreTyped'
  BY <1>1, <1>2 DEF CallsAreTyped
<1>5. HandlersAreOver' /\ SubscribedIffListened'
  BY <1>1 DEF HandlersAreOver, SubscribedIffListened, mapVars, TypeOK
<1> QED BY <1>3, <1>4, <1>5

\* A subscribe that fails touches neither the maps nor the wire.
LEMMA FailureKeeps ==
  ASSUME IInv, Q!TypeOK', NEW c \in Calls, Leave(c, "rejected"),
         UNCHANGED <<initialized, born, mapVars, request, wired>>
  PROVE  IInv'
<1> USE DEF IInv
<1>1. TypeOK'
  BY LeaveKeepsCalls DEF TypeOK, mapVars
<1>2. HandlersAreOver' /\ SubscribedIffListened'
  BY LeaveKeepsCalls DEF HandlersAreOver, SubscribedIffListened, mapVars, TypeOK
<1> QED BY <1>1, <1>2, LeaveKeepsCalls

LEMMA WithListenerType ==
  ASSUME TypeOK, NEW c \in Calls, keyOf[c] \in Shadows, request[c] \in Request
  PROVE  /\ WithListener(c) \in [Shadows -> [Nodes -> SUBSET Callbacks]]
         /\ \E n \in Nodes : WithListener(c)[keyOf[c]][n] # {}
         /\ \A s \in Shadows : s # keyOf[c] => WithListener(c)[s] = listeners[s]
<1> DEFINE s == keyOf[c]
           n == request[c].node
           cb == request[c].callback
<1>1. n \in Nodes /\ cb \in Callbacks
  BY DEF Request
<1>2. WithListener(c) = [listeners EXCEPT ![s][n] = listeners[s][n] \cup {cb}]
  BY <1>1 DEF WithListener, TypeOK
<1>3. s \in Shadows
  OBVIOUS
<1> HIDE DEF s, n, cb
<1>4. /\ WithListener(c) \in [Shadows -> [Nodes -> SUBSET Callbacks]]
      /\ cb \in WithListener(c)[s][n]
      /\ \A t \in Shadows : t # s => WithListener(c)[t] = listeners[t]
  BY <1>1, <1>2, <1>3 DEF TypeOK
<1> QED BY <1>1, <1>4 DEF s

LEMMA JoinSubscriptionKeeps ==
  ASSUME IInv, Q!TypeOK', NEW c \in Calls, JoinSubscription(c)
  PROVE  IInv'
<1> USE DEF IInv, JoinSubscription
<1>1. /\ CallsAreTyped'
      /\ keyOf[c] \in Shadows /\ request[c] \in Request
      /\ \A s \in Shadows : handler[s] # c
      /\ \A d \in Calls : d # c => phase'[d] = phase[d]
      /\ UNCHANGED keyOf
  BY LeaveKeepsCalls
<1>2. TypeOK'
  BY <1>1, LeaveKeepsCalls, WithListenerType DEF TypeOK
<1>3. HandlersAreOver'
  BY <1>1 DEF HandlersAreOver, TypeOK
<1>4. SubscribedIffListened'
  BY <1>1, WithListenerType DEF SubscribedIffListened
<1> QED BY <1>1, <1>2, <1>3, <1>4

LEMMA StartWiringKeeps ==
  ASSUME IInv, Q!TypeOK', NEW c \in Calls, StartWiring(c)
  PROVE  IInv'
<1> USE DEF IInv, StartWiring, queueVars, mapVars
<1>1. TypeOK'
  BY DEF TypeOK, Q!TypeOK
<1>2. CallsAreTyped' /\ HandlersAreOver' /\ SubscribedIffListened'
  BY DEF CallsAreTyped, HandlersAreOver, SubscribedIffListened, TypeOK
<1> QED BY <1>1, <1>2

LEMMA WireNextKeeps ==
  ASSUME IInv, Q!TypeOK', NEW c \in Calls, WireNext(c)
  PROVE  IInv'
<1> USE DEF IInv, WireNext, mapVars
<1>1. /\ wired' \in [Calls -> 0..NumSuffixes]
      /\ \A d \in Calls : d # c => wired'[d] = wired[d]
  BY OrchestratorAssumption DEF TypeOK
<1>2. \A s \in Shadows : handler[s] # c
  BY OrchestratorAssumption DEF CallsAreTyped, HandlersAreOver
<1>3. CASE InstanceLive(c)
  BY <1>1, <1>2, <1>3 DEF TypeOK, CallsAreTyped, HandlersAreOver, SubscribedIffListened, queueVars
<1>4. CASE ~InstanceLive(c)
  <2>1. TypeOK'
    BY <1>1, <1>4, LeaveKeepsCalls DEF TypeOK
  <2>2. HandlersAreOver'
    BY <1>2, <1>4, LeaveKeepsCalls DEF HandlersAreOver, TypeOK
  <2>3. SubscribedIffListened'
    BY <1>1, <1>2 DEF SubscribedIffListened, TypeOK
  <2> QED BY <1>4, <2>1, <2>2, <2>3, LeaveKeepsCalls
<1> QED BY <1>3, <1>4

LEMMA WireLastKeeps ==
  ASSUME IInv, Q!TypeOK', NEW c \in Calls, WireLast(c)
  PROVE  IInv'
<1> USE DEF IInv, WireLast
<1>1. /\ CallsAreTyped'
      /\ keyOf[c] \in Shadows /\ request[c] \in Request
      /\ phase'[c] = "resolved"
      /\ \A s \in Shadows : handler[s] # c
      /\ \A d \in Calls : d # c => phase'[d] = phase[d]
      /\ UNCHANGED keyOf
  BY LeaveKeepsCalls
<1>2. /\ wired' \in [Calls -> 0..NumSuffixes]
      /\ wired'[c] = NumSuffixes
      /\ \A d \in Calls : d # c => wired'[d] = wired[d]
  BY OrchestratorAssumption DEF TypeOK
<1>3. CASE target[c] = session
  <2>1. TypeOK'
    BY <1>1, <1>2, <1>3, LeaveKeepsCalls, WithListenerType DEF TypeOK
  <2>2. HandlersAreOver'
    BY <1>1, <1>3 DEF HandlersAreOver, TypeOK
  <2>3. SubscribedIffListened'
    BY <1>1, <1>2, <1>3, WithListenerType, OrchestratorAssumption
    DEF SubscribedIffListened, TypeOK
  <2> QED BY <1>1, <2>1, <2>2, <2>3
<1>4. CASE target[c] # session
  <2>1. TypeOK'
    BY <1>2, <1>4, LeaveKeepsCalls DEF TypeOK
  <2>2. HandlersAreOver' /\ SubscribedIffListened'
    BY <1>1, <1>2, <1>4 DEF HandlersAreOver, SubscribedIffListened, TypeOK
  <2> QED BY <1>1, <2>1, <2>2
<1> QED BY <1>3, <1>4

LEMMA RunUnsubscribeKeeps ==
  ASSUME IInv, Q!TypeOK', NEW c \in Calls, RunUnsubscribe(c)
  PROVE  IInv'
<1> USE DEF IInv, RunUnsubscribe
<1>1. /\ \A s \in Shadows : handler[s] # c
      /\ \A d \in Calls : d # c => phase'[d] = phase[d]
      /\ UNCHANGED keyOf
      /\ keyOf[c] \in Shadows /\ request[c] \in Request
  BY CallKeepsHandlers DEF Q!Outcome
<1>2. phase[c] = "queued"
  BY DEF Q!RunAtOnce, Q!Released
<1>3. CallsAreTyped'
  BY <1>1, <1>2 DEF CallsAreTyped
<1>4. /\ listeners' \in [Shadows -> [Nodes -> SUBSET Callbacks]]
      /\ handler' \in [Shadows -> Calls \cup {NoCall}]
      /\ wired' \in [Calls -> 0..NumSuffixes]
      /\ \A t \in Shadows : handler'[t] \in {handler[t], NoCall}
      /\ SubscribedIffListened'
  <2> DEFINE n == request[c].node
             left == listeners[keyOf[c]][n] \ {request[c].callback}
  <2>1. n \in Nodes /\ left \in SUBSET listeners[keyOf[c]][n]
    BY <1>1 DEF Request
  <2>2. CASE InstanceLive(c) /\ listeners[keyOf[c]][n] # {}
    <3>1. [listeners EXCEPT ![keyOf[c]][n] = @ \ {request[c].callback}]
            = [listeners EXCEPT ![keyOf[c]][n] = left]
      BY <1>1, <2>1 DEF TypeOK
    <3>2. /\ listeners' = [listeners EXCEPT ![keyOf[c]][n] = left]
          /\ CleanupIfIdle(keyOf[c], [listeners EXCEPT ![keyOf[c]][n] = left])
      BY <2>2, <3>1
    <3> HIDE DEF n, left
    <3> QED BY <1>1, <2>1, <3>2, CleanupKeeps
  <2>3. CASE ~(InstanceLive(c) /\ listeners[keyOf[c]][n] # {})
    BY <2>3 DEF TypeOK, SubscribedIffListened
  <2> QED BY <2>2, <2>3
<1>5. TypeOK'
  BY <1>4 DEF TypeOK
<1>6. HandlersAreOver'
  BY <1>1, <1>4 DEF HandlersAreOver, TypeOK
<1> QED BY <1>3, <1>4, <1>5, <1>6

-----------------------------------------------------------------------------

LEMMA StepInv == IInv /\ [Next]_vars => IInv'
<1> SUFFICES ASSUME IInv, [Next]_vars PROVE IInv'
  OBVIOUS
<1>1. Q!TypeOK'
  BY StepIsQueueStep, QueueStepType DEF IInv, TypeOK
<1>2. CASE Initialize
  <2>1. TypeOK'
    BY <1>1, <1>2 DEF Initialize, IInv, TypeOK, Q!TypeOK, mapVars
  <2>2. CallsAreTyped' /\ HandlersAreOver' /\ SubscribedIffListened'
    BY <1>2 DEF Initialize, IInv, CallsAreTyped, HandlersAreOver,
                SubscribedIffListened, mapVars, queueVars
  <2> QED BY <2>1, <2>2 DEF IInv
<1>3. CASE ResetSession \/ Clear
  <2>1. initialized' \in BOOLEAN
    BY <1>3 DEF ResetSession, Clear, IInv, TypeOK
  <2> QED BY <1>1, <1>3, <2>1, EndSessionKeeps DEF ResetSession, Clear
<1>4. ASSUME NEW c \in Calls, Run(c) PROVE IInv'
  <2>1. CASE NotConnected(c) \/ WireRefused(c)
    BY <1>1, <2>1, FailureKeeps DEF NotConnected, WireRefused
  <2> QED
    BY <1>1, <1>4, <2>1, BeginSubscribeKeeps, BeginWithoutTransportKeeps,
       JoinSubscriptionKeeps, StartWiringKeeps, WireNextKeeps, WireLastKeeps,
       RunUnsubscribeKeeps
    DEF Run
<1>5. CASE UNCHANGED vars
  BY <1>5 DEF vars, queueVars, mapVars, IInv, TypeOK, Q!TypeOK, CallsAreTyped,
              HandlersAreOver, SubscribedIffListened
<1> QED
  BY <1>1, <1>2, <1>3, <1>4, <1>5, RegisterKeeps, UnregisterKeeps, CallKeeps DEF Next

\* The orchestrator's maps, its queue and the wire stay in their ranges.
THEOREM TypeCorrect == Spec => []TypeOK
<1>1. IInv => TypeOK
  BY DEF IInv
<1> QED BY <1>1, InitInv, StepInv, PTL DEF Spec

\* Whenever sessions end and however subscribes fail: a shadow is subscribed
\* on all its topics exactly while it has a listener (subscribeToNode,
\* unsubscribeFromNode, unregisterNode and cleanupSubscriptionIfIdle together).
THEOREM Subscriptions == Spec => []SubscribedIffListened
<1>1. IInv => SubscribedIffListened
  BY DEF IInv
<1> QED BY <1>1, InitInv, StepInv, PTL DEF Spec

\* The orchestrator's chains behave as SerialQueue specifies.
THEOREM QueueImplemented == Spec => ImplementsQueue
<1>1. Init => Q!Init
  BY DEF Init
<1> QED
  BY <1>1, StepIsQueueStep, TypeCorrect, PTL DEF Spec, ImplementsQueue, Q!Spec

\* Two operations of one shadow called in the same session never interleave
\* across an await (runSerial).
THEOREM Exclusion == Spec => []ExclusivePerSession
<1>1. Spec => QP!Spec
  BY QueueImplemented, SameQueueInit, SameQueueStep, PTL
  DEF ImplementsQueue, Q!Spec, QP!Spec
<1>2. QP!Spec => []QP!ExclusivePerSession
  BY QP!Exclusion, OrchestratorAssumption
<1>3. QP!ExclusivePerSession => ExclusivePerSession
  BY DEF QP!ExclusivePerSession, ExclusivePerSession, Q!ExclusivePerSession,
         QP!SameQueue, Q!SameQueue
<1> QED BY <1>1, <1>2, <1>3, PTL

\* Whoever waits for a shadow has an operation of that shadow that runs or may run,
\* whatever sessions end meanwhile: runSerial never stands still.
THEOREM ShadowsGoOn == IsFiniteSet(Calls) => (Spec => []Q!SomebodyGoesOn)
<1> SUFFICES ASSUME IsFiniteSet(Calls) PROVE Spec => []Q!SomebodyGoesOn
  OBVIOUS
<1>1. Spec => QP!Spec
  BY QueueImplemented, SameQueueInit, SameQueueStep, PTL
  DEF ImplementsQueue, Q!Spec, QP!Spec
<1>2. QP!Spec => []QP!SomebodyGoesOn
  <2>1. QP!IsFiniteSet(Calls)
    BY Zenon DEF IsFiniteSet, QP!IsFiniteSet
  <2> QED BY <2>1, QP!QueueGoesOn, OrchestratorAssumption
<1>3. QP!SomebodyGoesOn => Q!SomebodyGoesOn
  BY DEF QP!SomebodyGoesOn, Q!SomebodyGoesOn, QP!SameQueue, Q!SameQueue, QP!Released, Q!Released, QP!Outcome, Q!Outcome
<1> QED BY <1>1, <1>2, <1>3, PTL
-----------------------------------------------------------------------------
(***************************************************************************)
(* What holds while sessions end only between operations (~cut).  Dates    *)
(* tie a call to the sessions it lived through, whatever happens; SoundInv *)
(* is what a session's end in the middle of a call would break.            *)
(***************************************************************************)

Chain == QP!TypeOK /\ QP!ChainInv

LEMMA InitChained == Init => Chain
BY SameQueueInit, QP!InitType, QP!InitChain, OrchestratorAssumption DEF Init, Chain

LEMMA StepChained == TypeOK /\ Chain /\ [Next]_vars => Chain'
<1> SUFFICES ASSUME TypeOK, Chain, [Next]_vars PROVE Chain'
  OBVIOUS
<1>1. [QP!Next]_(QP!vars)
  BY StepIsQueueStep, SameQueueStep
<1>2. QP!TypeOK'
  BY <1>1, QP!StepType, OrchestratorAssumption DEF Chain
<1>3. QP!ChainInv'
  BY <1>1, QP!StepChain, OrchestratorAssumption DEF Chain
<1> QED BY <1>2, <1>3 DEF Chain

\* Two calls of one shadow and session are not past the chain together.
LEMMA PastTheChain ==
  ASSUME Chain, NEW c \in Calls, NEW d \in Calls, c # d, keyOf[c] = keyOf[d], sessionOf[c] = sessionOf[d],
         phase[c] = "running", phase[d] = "running"
  PROVE  FALSE
BY DEF Chain, QP!ChainInv, QP!ChainIsTotal, QP!RunningHasNoneAhead, QP!Unsettled, QP!SameQueue

-----------------------------------------------------------------------------

CallsAreDated ==
  \A c \in Calls :
    /\ phase[c] # "idle" => /\ sessionOf[c] <= session
                            /\ sessionOf[c] = session => initialized
    /\ phase[c] \in {"idle", "queued"} => wired[c] = 0
    /\ stage[c] # "none" => phase[c] = "running" /\ request[c].kind = "subscribe"
    /\ stage[c] = "wiring" => sessionOf[c] <= target[c] /\ target[c] <= session

UnsettledAreCurrent == \A c \in Calls : Unsettled(c) => sessionOf[c] = session

WiringIsFirst == \A c \in Calls : stage[c] = "wiring" => handler[keyOf[c]] = NoCall

HandlersAreCurrent == \A s \in Shadows : handler[s] # NoCall => sessionOf[handler[s]] = session

DatedInv == IInv /\ Chain /\ CallsAreDated /\ born <= session

SoundInv == /\ UnsettledAreCurrent /\ WiringIsFirst /\ HandlersAreCurrent
            /\ WiredIsOwned

UncutInv == DatedInv /\ (~cut => SoundInv)

-----------------------------------------------------------------------------
(* What the steps do to what these invariants read. *)

\* Listeners go; a handler that goes leaves the wire.
Shrinks ==
  /\ \A s \in Shadows, n \in Nodes : listeners'[s][n] \subseteq listeners[s][n]
  /\ \A s \in Shadows : handler'[s] \in {handler[s], NoCall}
  /\ \A c \in Calls : wired'[c] \in {wired[c], 0}
  /\ \A s \in Shadows : handler[s] # NoCall /\ handler'[s] = NoCall => wired'[handler[s]] = 0

LEMMA CleanupShrinks ==
  ASSUME TypeOK, NEW s \in Shadows, NEW n \in Nodes, NEW left \in SUBSET listeners[s][n],
         listeners' = [listeners EXCEPT ![s][n] = left],
         CleanupIfIdle(s, [listeners EXCEPT ![s][n] = left])
  PROVE  Shrinks
<1>1. \A t \in Shadows, m \in Nodes : listeners'[t][m] \subseteq listeners[t][m]
  BY DEF TypeOK
<1>2. \/ UNCHANGED <<handler, wired>>
      \/ /\ handler[s] # NoCall
         /\ handler' = [handler EXCEPT ![s] = NoCall]
         /\ wired' = [wired EXCEPT ![handler[s]] = 0]
  BY DEF CleanupIfIdle
<1> QED BY <1>1, <1>2 DEF TypeOK, Shrinks

LEMMA NothingShrinks ==
  ASSUME TypeOK, UNCHANGED <<listeners, handler, wired>>
  PROVE  Shrinks
BY DEF Shrinks

Dates == UNCHANGED <<keyOf, sessionOf, session, initialized, born, request>>

LEMMA RegisterShrinks ==
  ASSUME TypeOK, NEW n \in Nodes, NEW s \in Shadows, RegisterNode(n, s)
  PROVE  Shrinks /\ Dates /\ UNCHANGED <<phase, stage, target>>
<1>1. Dates /\ UNCHANGED <<phase, stage, target>>
  BY DEF RegisterNode, queueVars, Dates
<1>2. CASE nodeMap[n] \notin {NoShadow, s}
  <2>1. nodeMap[n] \in Shadows
    BY <1>2 DEF TypeOK
  <2> QED BY <1>1, <1>2, <2>1, CleanupShrinks, {} \in SUBSET listeners[nodeMap[n]][n]
          DEF RegisterNode, Bind, Unbind
<1>3. CASE nodeMap[n] \in {NoShadow, s}
  BY <1>1, <1>3, NothingShrinks DEF RegisterNode, Bind
<1> QED BY <1>2, <1>3

LEMMA UnregisterShrinks ==
  ASSUME TypeOK, NEW n \in Nodes, UnregisterNode(n)
  PROVE  Shrinks /\ Dates /\ UNCHANGED <<phase, stage, target>>
<1>1. Dates /\ UNCHANGED <<phase, stage, target>>
  BY DEF UnregisterNode, queueVars, Dates
<1>2. nodeMap[n] \in Shadows
  BY DEF UnregisterNode, TypeOK
<1> QED BY <1>1, <1>2, CleanupShrinks, {} \in SUBSET listeners[nodeMap[n]][n] DEF UnregisterNode, Unbind

\* A call's own step.
Moves(c, p, st, t) ==
  /\ phase[c] \in {"queued", "running"}
  /\ phase' = [phase EXCEPT ![c] = p]
  /\ stage' = [stage EXCEPT ![c] = st]
  /\ target' = [target EXCEPT ![c] = t]
  /\ Dates

LEMMA QueueMoves ==
  ASSUME TypeOK, NEW c \in Calls, NEW p,
         \/ Q!Start(c) /\ p = "running"
         \/ Q!Settle(c, p)
         \/ Q!RunAtOnce(c, p)
  PROVE  /\ phase[c] \in {"queued", "running"}
         /\ phase' = [phase EXCEPT ![c] = p]
         /\ UNCHANGED <<keyOf, sessionOf, session>>
BY DEF Q!Start, Q!Settle, Q!RunAtOnce, Q!Released, Q!Finish

LEMMA LeaveMoves ==
  ASSUME TypeOK, NEW c \in Calls, NEW p, Leave(c, p), UNCHANGED <<initialized, born, request>>
  PROVE  Moves(c, p, "none", 0) /\ phase[c] = "running"
BY QueueMoves DEF Leave, Moves, Dates, Q!Settle

-----------------------------------------------------------------------------
(* The dates, whatever happens. *)

Dated == CallsAreDated /\ born <= session

LEMMA MoveDated ==
  ASSUME TypeOK, Dated, NEW c \in Calls, NEW p \in {"running", "resolved", "rejected"},
         NEW st \in {"none", "connecting", "wiring"}, NEW t \in Nat, Moves(c, p, st, t),
         st # "none" => p = "running" /\ request[c].kind = "subscribe",
         st = "wiring" => sessionOf[c] <= t /\ t <= session,
         \A d \in Calls : d # c => wired'[d] \in {wired[d], 0}
  PROVE  Dated'
<1>1. /\ phase'[c] = p /\ stage'[c] = st /\ target'[c] = t
      /\ \A d \in Calls : d # c => phase'[d] = phase[d] /\ stage'[d] = stage[d] /\ target'[d] = target[d]
      /\ UNCHANGED <<sessionOf, session, initialized, born, request>>
  BY DEF Moves, Dates, TypeOK, Q!TypeOK
<1>2. phase[c] # "idle"
  BY DEF Moves
<1>3. CallsAreDated'
  <2> SUFFICES ASSUME NEW d \in Calls PROVE CallsAreDated!(d)'
    BY DEF CallsAreDated
  <2>1. CASE d = c
    BY <1>1, <1>2, <2>1 DEF Dated, CallsAreDated
  <2>2. CASE d # c
    BY <1>1, <2>2 DEF Dated, CallsAreDated
  <2> QED BY <2>1, <2>2
<1> QED BY <1>1, <1>3 DEF Dated

LEMMA ShrinkDated ==
  ASSUME TypeOK, Dated, Shrinks, Dates, UNCHANGED <<phase, stage, target>>
  PROVE  Dated'
BY DEF Dated, CallsAreDated, Shrinks, Dates

LEMMA CallDated ==
  ASSUME IInv, Dated, NEW c \in Calls, NEW r \in Request, Call(c, r)
  PROVE  Dated' /\ phase[c] = "idle" /\ phase' = [phase EXCEPT ![c] = "queued"]
         /\ keyOf' = [keyOf EXCEPT ![c] = nodeMap[r.node]]
         /\ sessionOf' = [sessionOf EXCEPT ![c] = session]
         /\ request' = [request EXCEPT ![c] = r]
         /\ UNCHANGED <<session, initialized, born, mapVars, stage, target, wired>>
         /\ initialized /\ wired[c] = 0 /\ stage[c] = "none"
<1>1. /\ phase[c] = "idle" /\ phase' = [phase EXCEPT ![c] = "queued"]
      /\ keyOf' = [keyOf EXCEPT ![c] = nodeMap[r.node]]
      /\ sessionOf' = [sessionOf EXCEPT ![c] = session]
      /\ request' = [request EXCEPT ![c] = r]
      /\ UNCHANGED <<session, initialized, born, mapVars, stage, target, wired>>
      /\ initialized
  BY DEF Call, Enter, Q!Enqueue
<1>2. wired[c] = 0 /\ stage[c] = "none"
  BY <1>1 DEF Dated, CallsAreDated
<1>3. Dated'
  BY <1>1, <1>2 DEF Dated, CallsAreDated, IInv, TypeOK, Q!TypeOK
<1> QED BY <1>1, <1>2, <1>3

LEMMA EndDated ==
  ASSUME TypeOK, Dated, EndSession, UNCHANGED <<born, request, stage, target>>
  PROVE  Dated'
BY DEF Dated, CallsAreDated, EndSession, Q!Forget, TypeOK, Q!TypeOK

LEMMA InitializeDated ==
  ASSUME TypeOK, Dated, Initialize
  PROVE  Dated'
BY DEF Dated, CallsAreDated, Initialize, queueVars, TypeOK, Q!TypeOK

-----------------------------------------------------------------------------
(* Soundness while no session's end cuts into a call. *)

LEMMA ShadowOfCall ==
  ASSUME IInv, NEW c \in Calls, phase[c] # "idle"
  PROVE  keyOf[c] \in Shadows /\ request[c] \in Request
BY DEF IInv, CallsAreTyped

LEMMA WiredIsCalled ==
  ASSUME IInv, Dated, NEW c \in Calls, wired[c] > 0
  PROVE  phase[c] \notin {"idle", "queued"} /\ keyOf[c] \in Shadows
BY ShadowOfCall DEF Dated, CallsAreDated

\* Who runs with topics on the wire is wiring.
LEMMA RunningIsWiring ==
  ASSUME IInv, Dated, SoundInv, NEW c \in Calls, wired[c] > 0, phase[c] \in {"queued", "running"}
  PROVE  stage[c] = "wiring"
<1>1. keyOf[c] \in Shadows
  BY WiredIsCalled
<1> QED BY <1>1, OrchestratorAssumption DEF SoundInv, WiredIsOwned, IInv, HandlersAreOver

LEMMA ShrinkSound ==
  ASSUME IInv, Dated, SoundInv, Shrinks, Dates, UNCHANGED <<phase, stage, target>>
  PROVE  SoundInv'
<1> USE DEF Dates
<1>1. UnsettledAreCurrent'
  BY DEF SoundInv, UnsettledAreCurrent, Unsettled
<1>2. WiringIsFirst'
  <2>1. \A c \in Calls : stage[c] = "wiring" => keyOf[c] \in Shadows
    BY ShadowOfCall DEF IInv, CallsAreTyped
  <2> QED BY <2>1 DEF SoundInv, WiringIsFirst, Shrinks
<1>3. HandlersAreCurrent'
  BY DEF SoundInv, HandlersAreCurrent, Shrinks
<1>4. WiredIsOwned'
  <2> SUFFICES ASSUME NEW c \in Calls, wired'[c] > 0, stage[c] # "wiring", phase[c] # "rejected"
               PROVE  handler'[keyOf[c]] = c
    BY DEF WiredIsOwned
  <2>1. wired[c] > 0
    BY DEF Shrinks
  <2>2. keyOf[c] \in Shadows /\ handler[keyOf[c]] = c
    BY <2>1, WiredIsCalled DEF SoundInv, WiredIsOwned
  <2> QED BY <2>2, OrchestratorAssumption DEF Shrinks
<1> QED BY <1>1, <1>2, <1>3, <1>4 DEF SoundInv

LEMMA MoveSound ==
  ASSUME IInv, Dated, SoundInv, NEW c \in Calls, NEW p \in {"running", "resolved", "rejected"},
         NEW st \in {"none", "connecting", "wiring"}, NEW t, Moves(c, p, st, t),
         \A s \in Shadows : handler'[s] \in {handler[s], NoCall},
         \A d \in Calls : d # c => wired'[d] \in {wired[d], 0},
         \A s \in Shadows : handler[s] # NoCall /\ handler'[s] = NoCall => wired'[handler[s]] = 0,
         wired'[c] > 0 => st = "wiring" \/ p = "rejected",
         st = "wiring" => handler[keyOf[c]] = NoCall
  PROVE  UnsettledAreCurrent' /\ WiringIsFirst' /\ HandlersAreCurrent' /\ WiredIsOwned'
<1>1. /\ phase'[c] = p /\ stage'[c] = st /\ phase[c] \in {"queued", "running"}
      /\ \A d \in Calls : d # c => phase'[d] = phase[d] /\ stage'[d] = stage[d]
      /\ UNCHANGED <<keyOf, sessionOf, session>>
  BY DEF Moves, Dates, IInv, TypeOK, Q!TypeOK
<1>2. keyOf[c] \in Shadows
  BY <1>1, ShadowOfCall
<1>3. UnsettledAreCurrent'
  BY <1>1 DEF SoundInv, UnsettledAreCurrent, Unsettled
<1>4. WiringIsFirst'
  <2>1. \A d \in Calls : stage[d] = "wiring" => keyOf[d] \in Shadows
    BY ShadowOfCall DEF IInv, CallsAreTyped
  <2> QED BY <1>1, <1>2, <2>1 DEF SoundInv, WiringIsFirst
<1>5. HandlersAreCurrent'
  BY <1>1 DEF SoundInv, HandlersAreCurrent
<1>6. WiredIsOwned'
  <2> SUFFICES ASSUME NEW d \in Calls, wired'[d] > 0, stage'[d] # "wiring", phase'[d] # "rejected"
               PROVE  handler'[keyOf[d]] = d
    BY <1>1 DEF WiredIsOwned
  <2>1. d # c
    BY <1>1
  <2>2. wired[d] > 0 /\ stage[d] # "wiring" /\ phase[d] # "rejected"
    BY <1>1, <2>1
  <2>3. keyOf[d] \in Shadows /\ handler[keyOf[d]] = d
    BY <2>2, WiredIsCalled DEF SoundInv, WiredIsOwned
  <2> QED BY <2>3, OrchestratorAssumption
<1> QED BY <1>3, <1>4, <1>5, <1>6

LEMMA WithListenerAdds ==
  ASSUME IInv, NEW c \in Calls, phase[c] # "idle", request[c].kind = "subscribe",
         listeners' = WithListener(c)
  PROVE  \A s \in Shadows, n \in Nodes : \A cb \in listeners'[s][n] :
           \/ cb \in listeners[s][n]
           \/ /\ s = keyOf[c]
              /\ request[c] = [kind |-> "subscribe", node |-> n, callback |-> cb]
<1> DEFINE k == keyOf[c]
           m == request[c].node
           x == request[c].callback
<1>1. k \in Shadows /\ m \in Nodes
  BY ShadowOfCall DEF Request
<1>2. request[c] = [kind |-> "subscribe", node |-> m, callback |-> x]
  BY ShadowOfCall DEF Request
<1>3. listeners' = [listeners EXCEPT ![k][m] = @ \cup {x}]
  BY DEF WithListener
<1>0. listeners \in [Shadows -> [Nodes -> SUBSET Callbacks]]
  BY DEF IInv, TypeOK
<1> HIDE DEF k, m, x
<1>4. \A s \in Shadows, n \in Nodes :
        listeners'[s][n] = IF s = k /\ n = m THEN listeners[s][n] \cup {x} ELSE listeners[s][n]
  BY <1>0, <1>1, <1>3
<1> SUFFICES ASSUME NEW s \in Shadows, NEW n \in Nodes, NEW cb \in listeners'[s][n],
                    cb \notin listeners[s][n]
             PROVE  s = k /\ request[c] = [kind |-> "subscribe", node |-> n, callback |-> cb]
  BY DEF k
<1>5. CASE s = k /\ n = m
  <2>1. cb = x
    BY <1>4, <1>5
  <2> QED BY <1>2, <1>5, <2>1
<1>6. CASE ~(s = k /\ n = m)
  BY <1>4, <1>6
<1> QED BY <1>5, <1>6

SoundStep == Dated' /\ (SoundInv => SoundInv')

LEMMA FailureSound ==
  ASSUME IInv, Dated, NEW c \in Calls, Leave(c, "rejected"),
         UNCHANGED <<initialized, born, mapVars, request>>,
         \A d \in Calls : d # c => wired'[d] = wired[d]
  PROVE  SoundStep
<1>1. Moves(c, "rejected", "none", 0) /\ phase[c] = "running"
  BY LeaveMoves DEF IInv
<1>2. UNCHANGED <<listeners, handler>> /\ 0 \in Nat
  BY DEF mapVars
<1>3. Dated'
  BY <1>1, <1>2, MoveDated DEF IInv
<1>4. ASSUME SoundInv PROVE SoundInv'
  <2>1. UnsettledAreCurrent' /\ WiringIsFirst' /\ HandlersAreCurrent' /\ WiredIsOwned'
    BY <1>1, <1>2, <1>4, MoveSound
  <2> QED BY <2>1 DEF SoundInv
<1> QED BY <1>3, <1>4 DEF SoundStep

LEMMA BeginSubscribeSound ==
  ASSUME IInv, Dated, NEW c \in Calls, BeginSubscribe(c)
  PROVE  SoundStep
<1>1. /\ phase[c] = "queued"
      /\ UNCHANGED <<target, wired, listeners, handler>> /\ request[c].kind = "subscribe"
  BY DEF BeginSubscribe, mapVars, Q!Start, Q!Released
<1>2. target' = [target EXCEPT ![c] = target[c]] /\ target[c] \in Nat
  BY <1>1 DEF IInv, TypeOK
<1>3. Moves(c, "running", "connecting", target[c])
  BY <1>2, QueueMoves DEF BeginSubscribe, IInv, Moves, Dates
<1>4. Dated'
  BY <1>1, <1>2, <1>3, MoveDated DEF IInv
<1>5. wired[c] = 0
  BY <1>1 DEF Dated, CallsAreDated
<1>6. ASSUME SoundInv PROVE SoundInv'
  <2>1. UnsettledAreCurrent' /\ WiringIsFirst' /\ HandlersAreCurrent' /\ WiredIsOwned'
    BY <1>1, <1>3, <1>5, <1>6, MoveSound
  <2> QED BY <2>1 DEF SoundInv
<1> QED BY <1>4, <1>6 DEF SoundStep

LEMMA BeginWithoutTransportSound ==
  ASSUME IInv, Dated, NEW c \in Calls, BeginWithoutTransport(c)
  PROVE  SoundStep
<1>1. /\ phase[c] = "queued"
      /\ UNCHANGED <<stage, target, wired, listeners, handler>>
  BY DEF BeginWithoutTransport, mapVars, Q!RunAtOnce, Q!Released
<1>2. wired[c] = 0 /\ stage[c] = "none"
  BY <1>1 DEF Dated, CallsAreDated
<1>3. /\ target' = [target EXCEPT ![c] = target[c]] /\ target[c] \in Nat
      /\ stage' = [stage EXCEPT ![c] = "none"]
  BY <1>1, <1>2 DEF IInv, TypeOK
<1>4. Moves(c, "rejected", "none", target[c])
  BY <1>3, QueueMoves DEF BeginWithoutTransport, IInv, Moves, Dates
<1>5. Dated'
  BY <1>1, <1>3, <1>4, MoveDated DEF IInv
<1>6. ASSUME SoundInv PROVE SoundInv'
  <2>1. UnsettledAreCurrent' /\ WiringIsFirst' /\ HandlersAreCurrent' /\ WiredIsOwned'
    BY <1>1, <1>2, <1>4, <1>6, MoveSound
  <2> QED BY <2>1 DEF SoundInv
<1> QED BY <1>5, <1>6 DEF SoundStep

LEMMA JoinSubscriptionSound ==
  ASSUME IInv, Dated, NEW c \in Calls, JoinSubscription(c)
  PROVE  SoundStep
<1>1. Moves(c, "resolved", "none", 0) /\ phase[c] = "running"
  BY LeaveMoves DEF IInv, JoinSubscription
<1>2. /\ UNCHANGED <<handler, wired>> /\ listeners' = WithListener(c) /\ stage[c] = "connecting"
      /\ 0 \in Nat
  BY DEF JoinSubscription
<1>3. request[c].kind = "subscribe"
  BY <1>2 DEF Dated, CallsAreDated
<1>4. Dated'
  BY <1>1, <1>2, MoveDated DEF IInv
<1>5. ASSUME SoundInv PROVE SoundInv'
  <2>0. ~(wired[c] > 0)
    BY <1>1, <1>2, <1>5, RunningIsWiring
  <2>1. UnsettledAreCurrent' /\ WiringIsFirst' /\ HandlersAreCurrent' /\ WiredIsOwned'
    BY <1>1, <1>2, <1>5, <2>0, MoveSound
  <2> QED BY <2>1 DEF SoundInv
<1> QED BY <1>4, <1>5 DEF SoundStep

LEMMA StartWiringSound ==
  ASSUME IInv, Dated, NEW c \in Calls, StartWiring(c)
  PROVE  SoundStep
<1>1. /\ stage[c] = "connecting" /\ handler[keyOf[c]] = NoCall
      /\ UNCHANGED <<phase, handler, wired, listeners>>
      /\ Dates
      /\ stage' = [stage EXCEPT ![c] = "wiring"]
      /\ target' = [target EXCEPT ![c] = session]
  BY DEF StartWiring, queueVars, mapVars, Dates
<1>2. phase[c] = "running" /\ request[c].kind = "subscribe" /\ sessionOf[c] <= session
  BY <1>1 DEF Dated, CallsAreDated
<1>3. phase' = [phase EXCEPT ![c] = "running"] /\ session \in Nat
  BY <1>1, <1>2 DEF IInv, TypeOK, Q!TypeOK
<1>4. Moves(c, "running", "wiring", session)
  BY <1>1, <1>2, <1>3 DEF Moves
<1>5. session <= session
  BY <1>3
<1>6. Dated'
  BY <1>1, <1>2, <1>3, <1>4, <1>5, MoveDated DEF IInv
<1>7. ASSUME SoundInv PROVE SoundInv'
  <2>1. UnsettledAreCurrent' /\ WiringIsFirst' /\ HandlersAreCurrent' /\ WiredIsOwned'
    BY <1>1, <1>4, <1>7, MoveSound
  <2> QED BY <2>1 DEF SoundInv
<1> QED BY <1>6, <1>7 DEF SoundStep

LEMMA WireNextSound ==
  ASSUME IInv, Dated, NEW c \in Calls, WireNext(c)
  PROVE  SoundStep
<1>1. /\ stage[c] = "wiring"
      /\ UNCHANGED <<initialized, born, mapVars, request>>
      /\ \A d \in Calls : d # c => wired'[d] = wired[d]
  BY DEF WireNext, IInv, TypeOK
<1>2. CASE ~InstanceLive(c)
  BY <1>1, <1>2, FailureSound DEF WireNext
<1>3. CASE InstanceLive(c)
  <2>1. /\ UNCHANGED <<queueVars, stage, target>>
    BY <1>3 DEF WireNext
  <2>2. /\ phase[c] = "running" /\ request[c].kind = "subscribe"
        /\ sessionOf[c] <= target[c] /\ target[c] <= session
    BY <1>1 DEF Dated, CallsAreDated
  <2>3. /\ phase' = [phase EXCEPT ![c] = "running"]
        /\ stage' = [stage EXCEPT ![c] = "wiring"]
        /\ target' = [target EXCEPT ![c] = target[c]] /\ target[c] \in Nat
        /\ Dates
    BY <1>1, <2>1, <2>2 DEF IInv, TypeOK, Q!TypeOK, queueVars, Dates
  <2>4. Moves(c, "running", "wiring", target[c])
    BY <2>2, <2>3 DEF Moves
  <2>5. Dated'
    BY <1>1, <2>2, <2>3, <2>4, MoveDated DEF IInv
  <2>6. UNCHANGED <<handler, listeners>>
    BY <1>1 DEF mapVars
  <2>7. ASSUME SoundInv PROVE SoundInv'
    <3>1. handler[keyOf[c]] = NoCall
      BY <1>1, <2>7 DEF SoundInv, WiringIsFirst
    <3>2. UnsettledAreCurrent' /\ WiringIsFirst' /\ HandlersAreCurrent' /\ WiredIsOwned'
      BY <1>1, <2>4, <2>6, <2>7, <3>1, MoveSound
    <3> QED BY <3>2 DEF SoundInv
  <2> QED BY <2>5, <2>7 DEF SoundStep
<1> QED BY <1>2, <1>3

LEMMA WireLastSound ==
  ASSUME IInv, Chain, Dated, NEW c \in Calls, WireLast(c)
  PROVE  SoundStep
<1>1. Moves(c, "resolved", "none", 0) /\ phase[c] = "running"
  BY LeaveMoves DEF IInv, WireLast
<1>2. /\ stage[c] = "wiring"
      /\ \A d \in Calls : d # c => wired'[d] = wired[d]
      /\ 0 \in Nat
  BY DEF WireLast, IInv, TypeOK
<1>3. Dated'
  BY <1>1, <1>2, MoveDated DEF IInv
<1>4. ASSUME SoundInv PROVE SoundInv'
  <2>1. sessionOf[c] = session
    BY <1>1, <1>4 DEF SoundInv, UnsettledAreCurrent, Unsettled
  <2>2. target[c] = session
    <3>1. sessionOf[c] <= target[c] /\ target[c] <= session
      BY <1>2 DEF Dated, CallsAreDated
    <3>2. target[c] \in Nat /\ session \in Nat
      BY DEF IInv, TypeOK, Q!TypeOK
    <3> QED BY <2>1, <3>1, <3>2
  <2>3. keyOf[c] \in Shadows /\ request[c].kind = "subscribe" /\ handler[keyOf[c]] = NoCall
    BY <1>1, <1>2, <1>4, ShadowOfCall DEF Dated, CallsAreDated, SoundInv, WiringIsFirst
  <2>4. handler' = [handler EXCEPT ![keyOf[c]] = c] /\ listeners' = WithListener(c)
    BY <2>2 DEF WireLast
  <2>5. /\ phase'[c] = "resolved" /\ stage'[c] = "none"
        /\ \A d \in Calls : d # c => phase'[d] = phase[d] /\ stage'[d] = stage[d]
        /\ UNCHANGED <<keyOf, sessionOf, session>>
    BY <1>1 DEF Moves, Dates, IInv, TypeOK, Q!TypeOK
  <2>7. UnsettledAreCurrent'
    BY <1>4, <2>5 DEF SoundInv, UnsettledAreCurrent, Unsettled
  <2>8. WiringIsFirst'
    <3> SUFFICES ASSUME NEW d \in Calls, stage'[d] = "wiring" PROVE handler'[keyOf[d]] = NoCall
      BY <2>5 DEF WiringIsFirst
    <3>1. d # c /\ stage[d] = "wiring"
      BY <2>5
    <3>2. phase[d] = "running" /\ sessionOf[d] = session /\ keyOf[d] \in Shadows
      BY <1>4, <3>1, ShadowOfCall DEF Dated, CallsAreDated, SoundInv, UnsettledAreCurrent, Unsettled
    <3>3. keyOf[d] # keyOf[c]
      BY <1>1, <2>1, <3>1, <3>2, PastTheChain
    <3> QED BY <1>4, <2>4, <3>1, <3>2, <3>3 DEF SoundInv, WiringIsFirst, IInv, TypeOK
  <2>9. HandlersAreCurrent'
    BY <1>4, <2>1, <2>3, <2>4, <2>5 DEF SoundInv, HandlersAreCurrent, IInv, TypeOK
  <2>10. WiredIsOwned'
    <3> SUFFICES ASSUME NEW d \in Calls, wired'[d] > 0, stage'[d] # "wiring", phase'[d] # "rejected"
                 PROVE  handler'[keyOf[d]] = d
      BY <2>5 DEF WiredIsOwned
    <3>1. CASE d = c
      BY <2>3, <2>4, <3>1 DEF IInv, TypeOK
    <3>2. CASE d # c
      <4>1. wired[d] > 0 /\ stage[d] # "wiring" /\ phase[d] # "rejected"
        BY <1>2, <2>5, <3>2
      <4>2. keyOf[d] \in Shadows /\ handler[keyOf[d]] = d
        BY <1>4, <4>1, WiredIsCalled DEF SoundInv, WiredIsOwned
      <4> QED BY <2>3, <2>4, <4>2, OrchestratorAssumption DEF IInv, TypeOK
    <3> QED BY <3>1, <3>2
  <2> QED BY <2>7, <2>8, <2>9, <2>10 DEF SoundInv
<1> QED BY <1>3, <1>4 DEF SoundStep

LEMMA RunUnsubscribeSound ==
  ASSUME IInv, Dated, NEW c \in Calls, RunUnsubscribe(c)
  PROVE  SoundStep
<1>1. /\ phase[c] = "queued"
      /\ UNCHANGED <<stage, target>>
  BY DEF RunUnsubscribe, Q!RunAtOnce, Q!Released
<1>2. /\ wired[c] = 0 /\ stage[c] = "none"
      /\ keyOf[c] \in Shadows /\ request[c] \in Request
  BY <1>1, ShadowOfCall DEF Dated, CallsAreDated
<1>3. /\ target' = [target EXCEPT ![c] = target[c]] /\ target[c] \in Nat
      /\ stage' = [stage EXCEPT ![c] = "none"]
  BY <1>1, <1>2 DEF IInv, TypeOK
<1>4. Moves(c, "resolved", "none", target[c])
  BY <1>3, QueueMoves DEF RunUnsubscribe, IInv, Moves, Dates
<1>5. Shrinks
  <2> DEFINE n == request[c].node
             left == listeners[keyOf[c]][n] \ {request[c].callback}
  <2>1. n \in Nodes /\ left \in SUBSET listeners[keyOf[c]][n]
    BY <1>2 DEF Request
  <2>2. CASE InstanceLive(c) /\ listeners[keyOf[c]][n] # {}
    <3>1. [listeners EXCEPT ![keyOf[c]][n] = @ \ {request[c].callback}]
            = [listeners EXCEPT ![keyOf[c]][n] = left]
      BY <1>2, <2>1 DEF IInv, TypeOK
    <3>2. /\ listeners' = [listeners EXCEPT ![keyOf[c]][n] = left]
          /\ CleanupIfIdle(keyOf[c], [listeners EXCEPT ![keyOf[c]][n] = left])
      BY <2>2, <3>1 DEF RunUnsubscribe
    <3> HIDE DEF n, left
    <3> QED BY <1>2, <2>1, <3>2, CleanupShrinks DEF IInv
  <2>3. CASE ~(InstanceLive(c) /\ listeners[keyOf[c]][n] # {})
    BY <2>3, NothingShrinks DEF RunUnsubscribe, IInv
  <2> QED BY <2>2, <2>3
<1>6. /\ \A d \in Calls : wired'[d] \in {wired[d], 0}
      /\ \A s \in Shadows : handler'[s] \in {handler[s], NoCall}
      /\ \A s \in Shadows : handler[s] # NoCall /\ handler'[s] = NoCall => wired'[handler[s]] = 0
      /\ \A s \in Shadows, n \in Nodes : \A cb \in listeners'[s][n] : cb \in listeners[s][n]
  BY <1>5 DEF Shrinks
<1>7. Dated'
  BY <1>3, <1>4, <1>6, MoveDated DEF IInv
<1>8. ~(wired'[c] > 0)
  BY <1>2, <1>6
<1>9. ASSUME SoundInv PROVE SoundInv'
  <2>1. UnsettledAreCurrent' /\ WiringIsFirst' /\ HandlersAreCurrent' /\ WiredIsOwned'
    BY <1>4, <1>6, <1>8, <1>9, MoveSound
  <2> QED BY <2>1 DEF SoundInv
<1> QED BY <1>7, <1>9 DEF SoundStep

LEMMA CallSound ==
  ASSUME IInv, Dated, NEW c \in Calls, NEW r \in Request, Call(c, r)
  PROVE  SoundStep
<1>1. /\ Dated' /\ phase[c] = "idle" /\ phase' = [phase EXCEPT ![c] = "queued"]
      /\ keyOf' = [keyOf EXCEPT ![c] = nodeMap[r.node]]
      /\ sessionOf' = [sessionOf EXCEPT ![c] = session]
      /\ request' = [request EXCEPT ![c] = r]
      /\ UNCHANGED <<session, initialized, born, mapVars, stage, target, wired>>
      /\ initialized /\ wired[c] = 0 /\ stage[c] = "none"
  BY CallDated
<1>2. /\ UNCHANGED <<session, listeners, handler, stage, wired>>
      /\ phase'[c] = "queued" /\ sessionOf'[c] = session
      /\ \A d \in Calls : d # c => /\ phase'[d] = phase[d] /\ keyOf'[d] = keyOf[d]
                                   /\ sessionOf'[d] = sessionOf[d] /\ request'[d] = request[d]
  BY <1>1 DEF mapVars, IInv, TypeOK, Q!TypeOK
<1>3. \A s \in Shadows : handler[s] # c
  BY <1>1, OrchestratorAssumption DEF IInv, HandlersAreOver
<1>4. ASSUME SoundInv PROVE SoundInv'
  <2>1. UnsettledAreCurrent'
    BY <1>2, <1>4 DEF SoundInv, UnsettledAreCurrent, Unsettled
  <2>2. WiringIsFirst'
    BY <1>1, <1>2, <1>4 DEF SoundInv, WiringIsFirst
  <2>3. HandlersAreCurrent'
    BY <1>2, <1>3, <1>4 DEF SoundInv, HandlersAreCurrent, IInv, TypeOK
  <2>4. WiredIsOwned'
    BY <1>1, <1>2, <1>4 DEF SoundInv, WiredIsOwned
  <2> QED BY <2>1, <2>2, <2>3, <2>4 DEF SoundInv
<1> QED BY <1>1, <1>4 DEF SoundStep

LEMMA RunSound ==
  ASSUME IInv, Chain, Dated, NEW c \in Calls, Run(c)
  PROVE  SoundStep
<1>1. CASE NotConnected(c) \/ WireRefused(c)
  BY <1>1, FailureSound DEF NotConnected, WireRefused
<1> QED
  BY <1>1, BeginSubscribeSound, BeginWithoutTransportSound, JoinSubscriptionSound,
     StartWiringSound, WireNextSound, WireLastSound, RunUnsubscribeSound DEF Run

LEMMA InitializeSound ==
  ASSUME IInv, Dated, Initialize
  PROVE  SoundStep
<1>1. Dated'
  BY InitializeDated DEF IInv
<1>2. SoundInv => SoundInv'
  BY DEF Initialize, SoundInv, UnsettledAreCurrent, Unsettled, WiringIsFirst,
         HandlersAreCurrent, WiredIsOwned, queueVars, mapVars
<1> QED BY <1>1, <1>2 DEF SoundStep

\* A session's end cuts nothing when no call is pending: what is on the wire
\* then is a handler's, and goes, or a failed call's.
LEMMA EndSessionSound ==
  ASSUME IInv, Dated, EndSession, UNCHANGED <<born, request, stage, target>>
  PROVE  Dated' /\ (SoundInv /\ (\A c \in Calls : ~Unsettled(c)) => SoundInv')
<1>1. Dated'
  BY EndDated DEF IInv
<1>2. /\ UNCHANGED <<phase, keyOf, sessionOf, stage>>
      /\ \A s \in Shadows : handler'[s] = NoCall
      /\ \A s \in Shadows, n \in Nodes : listeners'[s][n] = {}
      /\ \A c \in Calls : wired'[c] = IF \E s \in Shadows : handler[s] = c THEN 0 ELSE wired[c]
  BY DEF EndSession, Q!Forget, NoListeners
<1>3. ASSUME SoundInv, \A c \in Calls : ~Unsettled(c) PROVE SoundInv'
  <2>1. \A c \in Calls : stage[c] = "none"
    BY <1>3 DEF Unsettled, Dated, CallsAreDated
  <2>2. UnsettledAreCurrent' /\ WiringIsFirst' /\ HandlersAreCurrent'
    BY <1>2, <1>3, <2>1
    DEF UnsettledAreCurrent, Unsettled, WiringIsFirst, HandlersAreCurrent
  <2>3. WiredIsOwned'
    <3> SUFFICES ASSUME NEW c \in Calls, wired'[c] > 0 PROVE phase[c] = "rejected"
      BY <1>2 DEF WiredIsOwned
    <3>1. wired[c] > 0 /\ \A s \in Shadows : handler[s] # c
      BY <1>2
    <3> QED BY <1>3, <2>1, <3>1, WiredIsCalled DEF SoundInv, WiredIsOwned
  <2> QED BY <2>2, <2>3 DEF SoundInv
<1> QED BY <1>1, <1>3

-----------------------------------------------------------------------------

LEMMA InitUncut == MCInit => UncutInv
<1> SUFFICES ASSUME MCInit PROVE UncutInv
  OBVIOUS
<1>1. IInv /\ Chain
  BY InitInv, InitChained DEF MCInit
<1>2. CallsAreDated /\ born <= session
  BY DEF MCInit, Init, Q!Init, CallsAreDated
<1>3. SoundInv
  BY DEF MCInit, Init, Q!Init, SoundInv, UnsettledAreCurrent, Unsettled, WiringIsFirst,
         HandlersAreCurrent, WiredIsOwned
<1> QED BY <1>1, <1>2, <1>3 DEF UncutInv, DatedInv

LEMMA StepSound ==
  ASSUME IInv, Chain, Dated, [MCNext]_mcVars, SoundInv \/ cut
  PROVE  Dated' /\ (~cut' => SoundInv')
<1> USE DEF SoundStep
<1>1. (~cut' => ~cut) /\ [Next]_vars
  <2>1. CASE MCNext
    BY ONLY <2>1, Zenon DEF MCNext
  <2>2. CASE UNCHANGED mcVars
    BY ONLY <2>2 DEF mcVars
  <2> QED BY <2>1, <2>2
<1>2. CASE Initialize
  BY <1>1, <1>2, InitializeSound
<1>3. CASE ResetSession \/ Clear
  <2>1. EndSession /\ UNCHANGED <<born, request, stage, target>>
    BY <1>3 DEF ResetSession, Clear
  <2>2. session' # session
    BY <2>1 DEF EndSession, Q!Forget, IInv, TypeOK, Q!TypeOK
  <2>3. ~cut' => \A c \in Calls : ~Unsettled(c)
    BY <2>2 DEF MCNext, mcVars, vars, queueVars
  <2> QED BY <1>1, <2>1, <2>3, EndSessionSound
<1>4. ASSUME NEW n \in Nodes, UnregisterNode(n) PROVE SoundStep
  BY <1>4, UnregisterShrinks, ShrinkDated, ShrinkSound DEF IInv
<1>5. ASSUME NEW n \in Nodes, NEW s \in Shadows, RegisterNode(n, s) PROVE SoundStep
  BY <1>5, RegisterShrinks, ShrinkDated, ShrinkSound DEF IInv
<1>6. ASSUME NEW c \in Calls, Run(c) PROVE SoundStep
  BY <1>6, RunSound
<1>7. ASSUME NEW c \in Calls, NEW r \in Request, Call(c, r) PROVE SoundStep
  BY <1>7, CallSound
<1>8. CASE UNCHANGED vars
  <2>1. Shrinks /\ Dates /\ UNCHANGED <<phase, stage, target>>
    BY <1>8, NothingShrinks DEF vars, queueVars, mapVars, Dates, IInv
  <2> QED BY <1>1, <2>1, ShrinkDated, ShrinkSound DEF IInv
<1> QED
  BY <1>1, <1>2, <1>3, <1>4, <1>5, <1>6, <1>7, <1>8 DEF Next

LEMMA StepUncut == UncutInv /\ [MCNext]_mcVars => UncutInv'
<1> SUFFICES ASSUME UncutInv, [MCNext]_mcVars PROVE UncutInv'
  OBVIOUS
<1>1. [Next]_vars /\ IInv /\ Chain /\ Dated /\ TypeOK
  BY DEF MCNext, mcVars, UncutInv, DatedInv, Dated, IInv
<1>2. IInv' /\ Chain'
  BY <1>1, StepInv, StepChained
<1>3. Dated' /\ (~cut' => SoundInv')
  BY <1>1, StepSound DEF UncutInv
<1> QED BY <1>2, <1>3 DEF UncutInv, DatedInv, Dated

\* The one handler that passes a subscribed shadow's messages on.
LEMMA SoundDelivers ==
  ASSUME IInv, Dated, SoundInv
  PROVE  DeliveredOnce
<1> SUFFICES ASSUME NEW s \in Shadows, NEW x \in LiveSuffixes, ~HalfWired(s),
                    NEW n \in Nodes, listeners[s][n] # {}
             PROVE  Cardinality(Routes(s, x)) = 1
  BY DEF DeliveredOnce
<1> DEFINE h == handler[s]
<1>1. h \in Calls /\ wired[h] = NumSuffixes /\ keyOf[h] = s /\ phase[h] = "resolved"
  BY DEF IInv, TypeOK, HandlersAreOver, SubscribedIffListened
<1>2. InstanceLive(h)
  <2>1. sessionOf[h] = session
    BY <1>1, OrchestratorAssumption DEF SoundInv, HandlersAreCurrent
  <2> HIDE DEF h
  <2> QED BY <1>1, <2>1 DEF Dated, CallsAreDated, InstanceLive
<1>3. x \in 1..NumSuffixes /\ NumSuffixes \in Nat
  BY OrchestratorAssumption
<1>4. h \in Routes(s, x)
  BY <1>1, <1>2, <1>3 DEF Routes
<1>5. ASSUME NEW c \in Routes(s, x) PROVE c = h
  <2>1. c \in Calls /\ keyOf[c] = s /\ x <= wired[c] /\ wired[c] \in 0..NumSuffixes
    BY <1>5 DEF Routes, IInv, TypeOK
  <2>2. wired[c] > 0
    BY <1>3, <2>1
  <2>3. phase[c] # "rejected"
    BY <2>1, <2>2 DEF HalfWired
  <2>4. stage[c] # "wiring"
    BY <1>1, <2>1, OrchestratorAssumption DEF SoundInv, WiringIsFirst
  <2> QED BY <2>1, <2>2, <2>3, <2>4 DEF SoundInv, WiredIsOwned
<1>6. Routes(s, x) = {h}
  BY <1>4, <1>5
<1> HIDE DEF h
<1> QED BY <1>6, FS_Singleton

\* While sessions end only between operations: every handler on the wire is
\* owned, and a shadow without a half-failed subscribe has exactly one route to
\* its listeners (subscribeToNode, cleanupSubscriptionIfIdle, resetSession).
THEOREM UncutWire == MCSpec => []UncutWireIsSound
<1>1. UncutInv => UncutWireIsSound
  BY SoundDelivers DEF UncutInv, DatedInv, Dated, SoundInv, UncutWireIsSound
<1> QED BY <1>1, InitUncut, StepUncut, PTL DEF MCSpec

-----------------------------------------------------------------------------
(***************************************************************************)
(* Who listens, whatever overlaps.  A pending call that nothing caught has *)
(* its session and its node's shadow still, so that what it attaches is    *)
(* where the node is; and when the node goes, its listeners go along.      *)
(***************************************************************************)

PendingAreHere ==
  \A c \in Calls : Unsettled(c) => \/ c \in caught
                                   \/ sessionOf[c] = session /\ nodeMap[request[c].node] = keyOf[c]

AskedInv == UncutInv /\ PendingAreHere /\ ListenersHaveTheirCall

Asks(c, s, n, cb) ==
  request[c] = [kind |-> "subscribe", node |-> n, callback |-> cb] /\ keyOf[c] = s

\* A listener there is after a step was there before, with its node left where it
\* was, or is attached by the call that is told so.
Kept(s, n, cb) ==
  cb \in listeners[s][n] /\ session' = session /\ (nodeMap[n] = s => nodeMap'[n] = s)
Attached(s, n, cb) ==
  \E c \in Calls : /\ phase[c] = "running" /\ phase'[c] = "resolved" /\ Asks(c, s, n, cb)
                   /\ UNCHANGED <<session, nodeMap, keyOf, sessionOf, request>>
Traced ==
  \A s \in Shadows, n \in Nodes : \A cb \in listeners'[s][n] : Kept(s, n, cb) \/ Attached(s, n, cb)

\* Calls that are over stay as they are; pending ones keep their session.
LEMMA CallsStay ==
  ASSUME TypeOK, [Next]_vars, NEW c \in Calls
  PROVE  /\ phase[c] = "resolved" => phase'[c] = "resolved" /\ keyOf'[c] = keyOf[c] /\ sessionOf'[c] = sessionOf[c]
         /\ phase[c] # "idle" => request'[c] = request[c]
         /\ Unsettled(c)' => \/ Unsettled(c) /\ sessionOf'[c] = sessionOf[c]
                             \/ sessionOf'[c] = session /\ session' = session
<1>1. [Q!Next]_queueVars
  BY StepIsQueueStep DEF queueVars, Q!vars
<1>2. /\ phase[c] = "resolved" => phase'[c] = "resolved" /\ keyOf'[c] = keyOf[c] /\ sessionOf'[c] = sessionOf[c]
      /\ Unsettled(c)' => \/ Unsettled(c) /\ sessionOf'[c] = sessionOf[c]
                          \/ sessionOf'[c] = session /\ session' = session
  <2>1. CASE UNCHANGED queueVars
    BY <2>1 DEF queueVars, Unsettled
  <2>2. CASE Q!Next
    BY <2>2 DEF Q!Next, Q!Enqueue, Q!Start, Q!Settle, Q!RunAtOnce, Q!Finish, Q!Released, Q!Forget,
                Unsettled, TypeOK, Q!TypeOK
  <2> QED BY <1>1, <2>1, <2>2
<1>3. phase[c] # "idle" => request'[c] = request[c]
  <2>1. UNCHANGED request \/ \E d \in Calls, r \in Request : Call(d, r)
    BY DEF Next, vars, Initialize, ResetSession, Clear, UnregisterNode, RegisterNode, Run, BeginSubscribe,
           BeginWithoutTransport, NotConnected, JoinSubscription, StartWiring, WireNext, WireLast, WireRefused,
           RunUnsubscribe
  <2>2. ASSUME NEW d \in Calls, NEW r \in Request, Call(d, r) PROVE phase[c] # "idle" => request'[c] = request[c]
    BY <2>2 DEF Call, Enter, Q!Enqueue, TypeOK
  <2> QED BY <2>1, <2>2
<1> QED BY <1>2, <1>3

\* A node that is taken off its shadow takes its listeners along.
LEMMA UnbindTraced ==
  ASSUME TypeOK, NEW n \in Nodes, nodeMap[n] \in Shadows, listeners' = [listeners EXCEPT ![nodeMap[n]][n] = {}],
         session' = session, \A m \in Nodes : m # n => nodeMap'[m] = nodeMap[m]
  PROVE  Traced
<1> SUFFICES ASSUME NEW s \in Shadows, NEW m \in Nodes, NEW cb \in listeners'[s][m] PROVE Kept(s, m, cb)
  BY DEF Traced
<1>1. ~(s = nodeMap[n] /\ m = n) /\ cb \in listeners[s][m]
  BY DEF TypeOK
<1> QED BY <1>1 DEF Kept

LEMMA SameTraced ==
  ASSUME TypeOK, UNCHANGED session, \A s \in Shadows, n \in Nodes : listeners'[s][n] \subseteq listeners[s][n],
         \A n \in Nodes : nodeMap'[n] = nodeMap[n] \/ nodeMap[n] = NoShadow
  PROVE  Traced
BY OrchestratorAssumption DEF Traced, Kept

LEMMA RunTraced ==
  ASSUME IInv, Dated, NEW c \in Calls, Run(c)
  PROVE  Traced
<1>1. CASE BeginSubscribe(c) \/ BeginWithoutTransport(c) \/ NotConnected(c) \/ StartWiring(c) \/ WireNext(c) \/ WireRefused(c)
  <2>1. UNCHANGED <<listeners, nodeMap, session>>
    BY <1>1 DEF BeginSubscribe, BeginWithoutTransport, NotConnected, StartWiring, WireNext, WireRefused, Leave,
                mapVars, queueVars, Q!Start, Q!RunAtOnce, Q!Settle, Q!Finish
  <2> QED BY <2>1, SameTraced DEF IInv
<1>2. CASE JoinSubscription(c) \/ WireLast(c)
  <2>1. /\ Moves(c, "resolved", "none", 0) /\ phase[c] = "running" /\ UNCHANGED nodeMap
        /\ stage[c] # "none" /\ (UNCHANGED listeners \/ listeners' = WithListener(c))
    BY <1>2, LeaveMoves DEF IInv, JoinSubscription, WireLast
  <2>2. /\ phase'[c] = "resolved" /\ request[c].kind = "subscribe"
        /\ UNCHANGED <<session, nodeMap, keyOf, sessionOf, request>>
    BY <2>1 DEF IInv, Moves, Dates, TypeOK, Q!TypeOK, Dated, CallsAreDated
  <2>3. CASE UNCHANGED listeners
    BY <2>2, <2>3, SameTraced DEF IInv
  <2>4. CASE listeners' = WithListener(c)
    <3>0. phase[c] # "idle"
      BY <2>1
    <3>1. \A s \in Shadows, n \in Nodes : \A cb \in listeners'[s][n] : cb \in listeners[s][n] \/ Asks(c, s, n, cb)
      <4>1. request[c].kind = "subscribe"
        BY <2>2
      <4>2. \A s \in Shadows, n \in Nodes : \A cb \in listeners'[s][n] :
              \/ cb \in listeners[s][n]
              \/ /\ s = keyOf[c]
                 /\ request[c] = [kind |-> "subscribe", node |-> n, callback |-> cb]
        BY <2>4, <3>0, <4>1, WithListenerAdds, Zenon
      <4> QED BY <4>2, Zenon DEF Asks
    <3> QED BY <2>1, <2>2, <3>1 DEF Traced, Kept, Attached
  <2> QED BY <2>1, <2>3, <2>4
<1>3. CASE RunUnsubscribe(c)
  <2>1. UNCHANGED <<nodeMap, session>>
    BY <1>3 DEF RunUnsubscribe, Q!RunAtOnce, Q!Finish
  <2>2. \A s \in Shadows, n \in Nodes : listeners'[s][n] \subseteq listeners[s][n]
    BY <1>3 DEF RunUnsubscribe, IInv, TypeOK
  <2> QED BY <2>1, <2>2, SameTraced DEF IInv
<1> QED BY <1>1, <1>2, <1>3 DEF Run

LEMMA StepTraced == IInv /\ Dated /\ [Next]_vars => Traced
<1> SUFFICES ASSUME IInv, Dated, [Next]_vars PROVE Traced
  OBVIOUS
<1> USE DEF IInv
<1>1. CASE Initialize \/ UNCHANGED vars
  BY <1>1, SameTraced DEF Initialize, vars, mapVars, queueVars
<1>2. CASE ResetSession \/ Clear
  BY <1>2 DEF ResetSession, Clear, EndSession, NoListeners, Traced
<1>3. ASSUME NEW n \in Nodes, UnregisterNode(n) PROVE Traced
  <2>1. /\ nodeMap[n] \in Shadows /\ session' = session
        /\ listeners' = [listeners EXCEPT ![nodeMap[n]][n] = {}]
        /\ \A m \in Nodes : m # n => nodeMap'[m] = nodeMap[m]
    BY <1>3 DEF UnregisterNode, Unbind, queueVars, TypeOK
  <2> QED BY <2>1, UnbindTraced
<1>4. ASSUME NEW n \in Nodes, NEW s \in Shadows, RegisterNode(n, s) PROVE Traced
  <2>1. session' = session /\ nodeMap' = [nodeMap EXCEPT ![n] = s]
    BY <1>4 DEF RegisterNode, Bind, queueVars
  <2>2. CASE nodeMap[n] \notin {NoShadow, s}
    <3>1. nodeMap[n] \in Shadows /\ listeners' = [listeners EXCEPT ![nodeMap[n]][n] = {}]
      BY <1>4, <2>2 DEF RegisterNode, Bind, Unbind, TypeOK
    <3>2. \A m \in Nodes : m # n => nodeMap'[m] = nodeMap[m]
      BY <2>1 DEF TypeOK
    <3> QED BY <2>1, <3>1, <3>2, UnbindTraced
  <2>3. CASE nodeMap[n] \in {NoShadow, s}
    <3>1. UNCHANGED listeners
      BY <1>4, <2>3 DEF RegisterNode, Bind
    <3>2. \A m \in Nodes : nodeMap'[m] = nodeMap[m] \/ nodeMap[m] = NoShadow
      BY <2>1, <2>3 DEF TypeOK
    <3> QED BY <2>1, <3>1, <3>2, SameTraced
  <2> QED BY <2>2, <2>3
<1>5. ASSUME NEW c \in Calls, NEW r \in Request, Call(c, r) PROVE Traced
  BY <1>5, SameTraced DEF Call, Enter, Q!Enqueue, mapVars
<1> QED BY <1>1, <1>2, <1>3, <1>4, <1>5, RunTraced DEF Next

LEMMA StepAsked == AskedInv /\ [MCNext]_mcVars => AskedInv'
<1> SUFFICES ASSUME AskedInv, [MCNext]_mcVars PROVE AskedInv'
  OBVIOUS
<1>0. /\ [Next]_vars /\ caught \subseteq caught'
      /\ \/ UNCHANGED mcVars
         \/ \A c \in Calls : Astray(c)' \/ (session' # session /\ Unsettled(c)) => c \in caught'
  BY DEF MCNext, mcVars
<1>1. UncutInv' /\ IInv /\ Dated /\ TypeOK
  BY StepUncut DEF AskedInv, UncutInv, DatedInv, Dated, IInv
<1>2. PendingAreHere'
  <2> SUFFICES ASSUME NEW c \in Calls, Unsettled(c)', c \notin caught'
               PROVE  sessionOf'[c] = session' /\ nodeMap'[request'[c].node] = keyOf'[c]
    BY DEF PendingAreHere
  <2>1. CASE UNCHANGED mcVars
    BY <2>1 DEF AskedInv, PendingAreHere, mcVars, vars, queueVars, mapVars, Unsettled
  <2>2. CASE ~UNCHANGED mcVars
    <3>1. nodeMap'[request'[c].node] = keyOf'[c] /\ (session' # session => ~Unsettled(c)) /\ c \notin caught
      BY <1>0, <2>2 DEF Astray
    <3> QED BY <1>0, <1>1, <3>1, CallsStay DEF AskedInv, PendingAreHere
  <2> QED BY <2>1, <2>2
<1>3. ListenersHaveTheirCall'
  <2> SUFFICES ASSUME NEW s \in Shadows, NEW n \in Nodes, NEW cb \in listeners'[s][n]
               PROVE  \E c \in Calls :
                        /\ request'[c] = [kind |-> "subscribe", node |-> n, callback |-> cb]
                        /\ phase'[c] = "resolved" /\ keyOf'[c] = s
                        /\ c \in caught' \/ (sessionOf'[c] = session' /\ nodeMap'[n] = s)
    BY DEF ListenersHaveTheirCall
  <2>1. CASE Kept(s, n, cb)
    <3>1. PICK c \in Calls : /\ request[c] = [kind |-> "subscribe", node |-> n, callback |-> cb]
                             /\ phase[c] = "resolved" /\ keyOf[c] = s
                             /\ c \in caught \/ (sessionOf[c] = session /\ nodeMap[n] = s)
      BY <2>1 DEF AskedInv, ListenersHaveTheirCall, Kept
    <3>2. /\ phase'[c] = "resolved" /\ keyOf'[c] = keyOf[c] /\ sessionOf'[c] = sessionOf[c] /\ request'[c] = request[c]
      BY <1>0, <1>1, <3>1, CallsStay
    <3> QED BY <1>0, <2>1, <3>1, <3>2 DEF Kept
  <2>2. CASE Attached(s, n, cb)
    <3>1. PICK c \in Calls : /\ phase[c] = "running" /\ phase'[c] = "resolved" /\ Asks(c, s, n, cb)
                             /\ UNCHANGED <<session, nodeMap, keyOf, sessionOf, request>>
      BY <2>2 DEF Attached
    <3>2. c \in caught \/ (sessionOf[c] = session /\ nodeMap[n] = s)
      BY <3>1 DEF AskedInv, PendingAreHere, Unsettled, Asks
    <3> QED BY <1>0, <3>1, <3>2 DEF Asks
  <2> QED BY <1>0, <1>1, <2>1, <2>2, StepTraced DEF Traced
<1> QED BY <1>1, <1>2, <1>3 DEF AskedInv

\* Whoever listens asked to and was told so, in this session and for the shadow its
\* node is registered with now; only calls that were pending when a session ended, or
\* when their node left, can have attached a listener elsewhere (subscribeToNode's
\* awaits against resetSession, registerNode and unregisterNode).
THEOREM ListenersAsked == MCSpec => []ListenersHaveTheirCall
<1>1. MCInit => AskedInv
  BY InitUncut DEF MCInit, Init, Q!Init, AskedInv, PendingAreHere, Unsettled, ListenersHaveTheirCall, NoListeners
<1>2. AskedInv => ListenersHaveTheirCall
  BY DEF AskedInv
<1> QED BY <1>1, <1>2, StepAsked, PTL DEF MCSpec
=============================================================================
