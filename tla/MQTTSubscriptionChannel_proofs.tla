------------------- MODULE MQTTSubscriptionChannel_proofs -------------------
(***************************************************************************)
(* For any nodes, shadows, callbacks and operations, any number of topics  *)
(* and sessions, sessions that end at any moment and installs that fail:   *)
(*   - the channel's queue is used as SerialQueue describes, hence no two  *)
(*     operations of a node run together, and an install that comes back   *)
(*     finds the set it made;                                              *)
(*   - while no node loses its shadow behind the channel's back, what the  *)
(*     channel believes attached is attached, and a subscribe that         *)
(*     resolves is served;                                                 *)
(*   - while in addition sessions end only between operations, a removed   *)
(*     callback is never reached and no listener given up stays.           *)
(*                                                                         *)
(* The steps are first brought to a few shapes that mention only what the  *)
(* invariants read (Shape); each invariant is then kept shape by shape.    *)
(***************************************************************************)
EXTENDS MCMQTTSubscriptionChannel, FiniteSets, TLAPS

\* The channel's queue, for the theorems of SerialQueue.
CP == INSTANCE SerialQueue_proofs
       WITH Keys <- Nodes, NoKey <- NoNode, MaxSession <- 0,
            phase <- opPhase, keyOf <- opNode, prev <- opPrev,
            ahead <- opAhead, tail <- opTail,
            sessionOf <- [o \in Ops |-> 0], session <- 0

\* The queue of the module and the queue of the cited theorems are the same.
LEMMA SameStep == [C!Next]_(C!vars) => [CP!Next]_(CP!vars)
BY Zenon DEF C!Next, C!vars, C!Enqueue, C!ChainUpTo, C!Start, C!Released,
  C!Settle, C!Finish, C!RunAtOnce, C!Forget, C!Outcome,
  CP!Next, CP!vars, CP!Enqueue, CP!ChainUpTo, CP!Start, CP!Released,
  CP!Settle, CP!Finish, CP!RunAtOnce, CP!Forget, CP!Outcome

LEMMA SameInit == C!Init => CP!Init
BY Zenon DEF C!Init, CP!Init

ChanQueue == CP!TypeOK /\ CP!ChainInv

LEMMA ChanQueueStep == ChanQueue /\ [C!Next]_(C!vars) => ChanQueue'
<1> SUFFICES ASSUME ChanQueue, [C!Next]_(C!vars) PROVE ChanQueue'
  OBVIOUS
<1>1. [CP!Next]_(CP!vars)
  BY SameStep
<1>2. CP!TypeOK'
  BY <1>1, CP!StepType, ChannelAssumption DEF ChanQueue
<1>3. CP!ChainInv'
  BY <1>1, CP!StepChain, ChannelAssumption DEF ChanQueue
<1> QED
  BY <1>2, <1>3 DEF ChanQueue

LEMMA ChanQueueInit == C!Init => ChanQueue
BY SameInit, CP!InitType, CP!InitChain, ChannelAssumption DEF ChanQueue

-----------------------------------------------------------------------------
QueuePhases == {"idle", "queued", "running", "resolved", "rejected"}
Settled == {"resolved", "rejected"}

\* Nobody else runs for the operation's node.
Alone(o) == \A p \in Ops : p # o /\ opNode[p] = opNode[o] => opPhase[p] # "running"

OpBecomes(o, p) == opPhase' = [opPhase EXCEPT ![o] = p] /\ UNCHANGED opNode

LEMMA OpType == ChanQueue => /\ opPhase \in [Ops -> QueuePhases]
                             /\ opNode \in [Ops -> Nodes \cup {NoNode}]
BY DEF ChanQueue, CP!TypeOK, CP!Phase, CP!Outcome, QueuePhases

LEMMA NoneAheadIsAlone ==
  ASSUME ChanQueue, NEW o \in Ops, opPhase[o] \in {"queued", "running"}, opAhead[o] = {}
  PROVE  Alone(o)
<1> SUFFICES ASSUME NEW p \in Ops, p # o, opNode[p] = opNode[o], opPhase[p] = "running"
             PROVE  FALSE
  BY DEF Alone
<1>1. opAhead[p] = {}
  BY DEF ChanQueue, CP!ChainInv, CP!RunningHasNoneAhead
<1>2. o \in opAhead[p] \/ p \in opAhead[o]
  BY DEF ChanQueue, CP!ChainInv, CP!ChainIsTotal, CP!Unsettled, CP!SameQueue
<1> QED BY <1>1, <1>2

LEMMA ReleasedIsAlone ==
  ASSUME ChanQueue, NEW o \in Ops, C!Released(o)
  PROVE  opPhase[o] = "queued" /\ Alone(o)
<1>1. CP!Released(o)
  BY DEF C!Released, CP!Released, C!Outcome, CP!Outcome
<1>2. opAhead[o] = {} /\ opPhase[o] = "queued"
  BY <1>1, CP!ReleasedHasNoneAhead, ChannelAssumption DEF ChanQueue
<1> QED BY <1>2, NoneAheadIsAlone

LEMMA OpStarts ==
  ASSUME ChanQueue, NEW o \in Ops, C!Start(o)
  PROVE  opPhase[o] = "queued" /\ Alone(o) /\ OpBecomes(o, "running")
BY ReleasedIsAlone DEF C!Start, OpBecomes

LEMMA OpRunsThrough ==
  ASSUME ChanQueue, NEW o \in Ops, NEW p, C!RunAtOnce(o, p)
  PROVE  opPhase[o] = "queued" /\ Alone(o) /\ OpBecomes(o, p)
BY ReleasedIsAlone DEF C!RunAtOnce, C!Finish, OpBecomes

LEMMA OpSettles ==
  ASSUME ChanQueue, NEW o \in Ops, NEW p, C!Settle(o, p)
  PROVE  opPhase[o] = "running" /\ Alone(o) /\ OpBecomes(o, p)
<1>1. opPhase[o] = "running"
  BY DEF C!Settle
<1>2. opAhead[o] = {}
  BY <1>1 DEF ChanQueue, CP!ChainInv, CP!RunningHasNoneAhead
<1> QED BY <1>1, <1>2, NoneAheadIsAlone DEF C!Settle, C!Finish, OpBecomes

-----------------------------------------------------------------------------
(* Every step of the channel is a step of its queue, or none. *)

LEMMA StepOfQueue == [Next]_vars => [C!Next]_(C!vars)
<1> SUFFICES ASSUME [Next]_vars PROVE C!Next \/ UNCHANGED opVars
  BY DEF C!vars, opVars
<1> USE DEF C!Outcome
<1>1. ASSUME NEW o \in Ops, NEW n \in Nodes, NEW a \in Ask, Call(o, n, a)
      PROVE  C!Next
  BY <1>1 DEF Call, C!Next
<1>2. ASSUME NEW o \in Ops, C!Start(o) PROVE C!Next
  BY <1>2 DEF C!Next
<1>3. ASSUME NEW o \in Ops, NEW p \in C!Outcome, C!Settle(o, p) \/ C!RunAtOnce(o, p)
      PROVE  C!Next
  BY <1>3 DEF C!Next
<1>4. ASSUME NEW o \in Ops, Step(o) PROVE C!Next \/ UNCHANGED opVars
  <2>1. CASE SubscribeUninitialized(o)
    BY <1>3, <2>1 DEF SubscribeUninitialized
  <2>2. CASE Join(o)
    BY <1>3, <2>2 DEF Join
  <2>3. CASE Install(o)
    BY <1>2, <2>3 DEF Install
  <2>4. CASE Installed(o)
    BY <1>3, <2>4 DEF Installed
  <2>5. CASE RollBack(o)
    BY <1>3, <2>5 DEF RollBack
  <2>6. CASE RemoveOne(o)
    BY <1>3, <2>6 DEF RemoveOne
  <2>7. CASE DetachUnregistered(o)
    BY <1>3, <2>7 DEF DetachUnregistered
  <2>8. CASE Detach(o)
    BY <1>2, <2>8 DEF Detach
  <2>9. CASE Detached(o)
    BY <1>3, <2>9 DEF Detached
  <2>10. CASE PurgeBinding(o)
    BY <2>10 DEF PurgeBinding
  <2>11. CASE OrchestratorRuns(o)
    BY <2>11 DEF OrchestratorRuns
  <2> QED
    BY <1>4, <2>1, <2>2, <2>3, <2>4, <2>5, <2>6, <2>7, <2>8, <2>9, <2>10, <2>11 DEF Step
<1>5. ASSUME NEW n \in Nodes, Others(n) PROVE UNCHANGED opVars
  BY <1>5 DEF Others
<1>6. CASE Lifecycle
  BY <1>6 DEF Lifecycle
<1>7. CASE UNCHANGED vars
  BY <1>7 DEF vars
<1> QED
  BY <1>1, <1>4, <1>5, <1>6, <1>7 DEF Next

-----------------------------------------------------------------------------
(* The inductive invariant. *)

ChanType ==
  /\ phase \in [Ops -> QueuePhases]
  /\ keyOf \in [Ops -> Shadows \cup {NoShadow}]
  /\ sessionOf \in [Ops -> Nat]
  /\ session \in Nat
  /\ initialized \in BOOLEAN
  /\ born \in Nat /\ born <= session
  /\ nodeMap \in [Nodes -> Shadows \cup {NoShadow}]
  /\ listeners \in [Shadows -> [Nodes -> SUBSET Ops]]
  /\ request \in [Ops -> O!Request \cup {O!NoRequest}]
  /\ stage \in [Ops -> {"none", "connecting", "wiring"}]
  /\ target \in [Ops -> Nat]
  /\ ask \in [Ops -> Ask \cup {[kind |-> "none"]}]
  /\ installed \in [Nodes -> Ops \cup {NoOp}]
  /\ audience \in [Ops -> SUBSET Apps]
  /\ generation \in [Nodes -> Nat]

\* Each operation is in step with the one call it may have made.
CallsFit ==
  \A o \in Ops :
    /\ opPhase[o] # "idle" => opNode[o] \in Nodes
    /\ opPhase[o] \in {"idle", "queued"} => phase[o] = "idle"
    /\ opPhase[o] = "running" => phase[o] # "idle"
    /\ opPhase[o] \in Settled => phase[o] \notin {"queued", "running"}
    /\ phase[o] = "idle" => request[o] = O!NoRequest
    /\ phase[o] # "idle" =>
         /\ keyOf[o] \in Shadows
         /\ sessionOf[o] <= session
         /\ sessionOf[o] = session => initialized
         /\ IF ask[o].kind = "subscribe"
              THEN request[o] = [kind |-> "subscribe", node |-> opNode[o], callback |-> o]
              ELSE \E l \in Ops :
                     request[o] = [kind |-> "unsubscribe", node |-> opNode[o], callback |-> l]
    /\ stage[o] # "none" => phase[o] = "running" /\ ask[o].kind = "subscribe"
    /\ stage[o] = "wiring" => sessionOf[o] <= target[o] /\ target[o] <= session

\* What the channel believes attached was asked for by an operation that has
\* not failed, in the session the generation says.
InstalledFits ==
  \A n \in Nodes :
    installed[n] # NoOp =>
      /\ opNode[installed[n]] = n
      /\ ask[installed[n]].kind = "subscribe"
      /\ opPhase[installed[n]] \in {"running", "resolved"}
      /\ phase[installed[n]] # "idle"
      /\ opPhase[installed[n]] = "resolved" => phase[installed[n]] = "resolved"
      /\ generation[n] = sessionOf[installed[n]] + 1

\* A listener the orchestrator is asked to drop is nobody's current one.
GivenUpIsNotInstalled ==
  \A o \in Ops :
    request[o].kind = "unsubscribe" =>
      /\ opPhase[request[o].callback] \notin {"idle", "queued"}
      /\ \A n \in Nodes : installed[n] # request[o].callback

\* A current listener of this session whose call resolved is attached.
InstalledServed ==
  \A n \in Nodes :
    installed[n] # NoOp /\ sessionOf[installed[n]] = session /\ phase[installed[n]] = "resolved"
      => installed[n] \in listeners[keyOf[installed[n]]][n]

\* Operations run in the session that made their call, for the node's shadow.
RunningIsOfSession ==
  \A o \in Ops :
    opPhase[o] = "running" => sessionOf[o] = session /\ nodeMap[opNode[o]] = keyOf[o]

\* Who is attached resolved in this session, for this node and its shadow.
AttachedFits ==
  \A s \in Shadows, n \in Nodes : \A l \in listeners[s][n] :
    /\ opNode[l] = n
    /\ ask[l].kind = "subscribe"
    /\ phase[l] = "resolved"
    /\ sessionOf[l] = session
    /\ nodeMap[n] = s

\* An unsubscribe of l is about to run.
Leaving(s, n, l) ==
  \E o \in Ops :
    /\ opPhase[o] = "running"
    /\ phase[o] = "queued"
    /\ keyOf[o] = s
    /\ request[o] = [kind |-> "unsubscribe", node |-> n, callback |-> l]

\* Who is attached is current, or silenced and about to be unsubscribed.
AttachedCurrent ==
  \A s \in Shadows, n \in Nodes : \A l \in listeners[s][n] :
    installed[n] = l \/ (audience[l] = {} /\ Leaving(s, n, l))

\* What holds whatever happens to sessions and registrations.
BaseInv ==
  ChanQueue /\ ChanType /\ CallsFit /\ InstallFindsItsSet /\ InstalledFits /\ GivenUpIsNotInstalled

-----------------------------------------------------------------------------
(* What a step of a call does, and nothing else. *)

CallBecomes(c, p, st, t) ==
  /\ phase[c] \in {"queued", "running"}
  /\ phase' = [phase EXCEPT ![c] = p]
  /\ stage' = [stage EXCEPT ![c] = st]
  /\ target' = [target EXCEPT ![c] = t]
  /\ st # "none" => p = "running" /\ ask[c].kind = "subscribe"
  /\ st = "wiring" => sessionOf[c] <= t /\ t <= session
  /\ UNCHANGED <<keyOf, sessionOf, session, initialized, born, nodeMap, request>>

Attaches(c) ==
  /\ ask[c].kind = "subscribe"
  /\ phase[c] = "running"
  /\ listeners' = O!WithListener(c)

Removes(c) ==
  /\ ask[c].kind # "subscribe"
  /\ phase[c] = "queued"
  /\ initialized /\ born <= sessionOf[c] => 
       listeners' = [listeners EXCEPT ![keyOf[c]][request[c].node] = @ \ {request[c].callback}]
  /\ ~(initialized /\ born <= sessionOf[c]) => listeners' = listeners

RunEffect(c, p, st, t) ==
  /\ CallBecomes(c, p, st, t)
  /\ \/ p # "resolved" /\ ask[c].kind = "subscribe" /\ UNCHANGED listeners
     \/ /\ p = "resolved" /\ ask[c].kind = "subscribe" /\ UNCHANGED listeners
        /\ stage[c] = "wiring" /\ target[c] # session
     \/ p = "resolved" /\ Attaches(c)
     \/ p = "resolved" /\ Removes(c)

LEMMA RequestKinds ==
  ASSUME ChanType, CallsFit, NEW c \in Ops
  PROVE  /\ request[c].kind = "subscribe" => ask[c].kind = "subscribe" /\ phase[c] # "idle"
         /\ request[c].kind = "unsubscribe" => ask[c].kind # "subscribe" /\ phase[c] # "idle"
         /\ stage[c] # "none" => ask[c].kind = "subscribe" /\ phase[c] = "running"
<1>1. CASE phase[c] = "idle"
  <2>1. request[c] = [kind |-> "none"]
    BY <1>1 DEF CallsFit, O!NoRequest
  <2>2. request[c].kind = "none"
    BY <2>1
  <2> QED BY <1>1, <2>2 DEF CallsFit
<1>2. CASE phase[c] # "idle" /\ ask[c].kind = "subscribe"
  <2>1. request[c] = [kind |-> "subscribe", node |-> opNode[c], callback |-> c]
    BY <1>2 DEF CallsFit
  <2>2. request[c].kind = "subscribe"
    BY <2>1
  <2> QED BY <1>2, <2>2 DEF CallsFit
<1>3. CASE phase[c] # "idle" /\ ask[c].kind # "subscribe"
  <2>1. PICK l \in Ops : request[c] = [kind |-> "unsubscribe", node |-> opNode[c], callback |-> l]
    BY <1>3 DEF CallsFit
  <2>2. request[c].kind = "unsubscribe"
    BY <2>1
  <2> QED BY <1>3, <2>2 DEF CallsFit
<1> QED BY <1>1, <1>2, <1>3

LEMMA UnsubscribeIs ==
  ASSUME ChanType, CallsFit, NEW c \in Ops, request[c].kind = "unsubscribe"
  PROVE  /\ request[c].node = opNode[c]
         /\ request[c].callback \in Ops
         /\ request[c] = [kind |-> "unsubscribe", node |-> opNode[c], callback |-> request[c].callback]
<1>1. PICK l \in Ops : request[c] = [kind |-> "unsubscribe", node |-> opNode[c], callback |-> l]
  BY RequestKinds DEF CallsFit
<1> QED BY <1>1

LEMMA QueueMove ==
  ASSUME ChanType, NEW c \in Ops, NEW p \in QueuePhases,
         \/ O!Q!Start(c) /\ p = "running"
         \/ O!Q!Settle(c, p)
         \/ O!Q!RunAtOnce(c, p)
  PROVE  /\ phase[c] \in {"queued", "running"}
         /\ phase' = [phase EXCEPT ![c] = p]
         /\ UNCHANGED <<keyOf, sessionOf, session>>
BY DEF O!Q!Start, O!Q!Settle, O!Q!RunAtOnce, O!Q!Released, O!Q!Finish

Runs(c) ==
  \E p \in {"running", "resolved", "rejected"}, st \in {"none", "connecting", "wiring"}, t \in Nat :
    RunEffect(c, p, st, t)

LEMMA LeaveMove ==
  ASSUME ChanType, CallsFit, NEW c \in Ops, NEW p \in Settled, O!Leave(c, p),
         UNCHANGED <<initialized, born, nodeMap, request>>
  PROVE  CallBecomes(c, p, "none", 0)
BY QueueMove DEF O!Leave, CallBecomes, Settled, QueuePhases

LEMMA RunHasEffect ==
  ASSUME ChanType, CallsFit, NEW c \in Ops, O!Run(c)
  PROVE  Runs(c)
<1> USE DEF QueuePhases, Settled
<1>0. 0 \in Nat /\ target[c] \in Nat /\ session \in Nat
  BY DEF ChanType
<1>1. CASE O!BeginSubscribe(c)
  <2>1. ask[c].kind = "subscribe"
    BY <1>1, RequestKinds DEF O!BeginSubscribe
  <2>2. UNCHANGED listeners
    BY <1>1 DEF O!BeginSubscribe, O!mapVars
  <2>3. target' = [target EXCEPT ![c] = target[c]]
    BY <1>1 DEF ChanType, O!BeginSubscribe
  <2>4. CallBecomes(c, "running", "connecting", target[c])
    BY <1>1, <2>1, <2>3, QueueMove DEF CallBecomes, O!BeginSubscribe, O!mapVars
  <2> QED BY <1>0, <2>1, <2>2, <2>4 DEF RunEffect, Runs
<1>2. CASE O!BeginWithoutTransport(c)
  <2>1. ask[c].kind = "subscribe"
    BY <1>2, RequestKinds DEF O!BeginWithoutTransport
  <2>2. UNCHANGED listeners
    BY <1>2 DEF O!BeginWithoutTransport, O!mapVars
  <2>3. /\ phase[c] = "queued" /\ phase' = [phase EXCEPT ![c] = "rejected"]
        /\ UNCHANGED <<keyOf, sessionOf, session>>
    BY <1>2, QueueMove DEF O!BeginWithoutTransport, O!Q!RunAtOnce, O!Q!Released
  <2>4. stage[c] = "none"
    BY <2>3, RequestKinds
  <2>5. /\ target' = [target EXCEPT ![c] = target[c]]
        /\ stage' = [stage EXCEPT ![c] = "none"]
    BY <1>2, <2>4 DEF ChanType, O!BeginWithoutTransport
  <2>6. CallBecomes(c, "rejected", "none", target[c])
    BY <1>2, <2>3, <2>5 DEF CallBecomes, O!BeginWithoutTransport, O!mapVars
  <2> QED BY <1>0, <2>1, <2>2, <2>6 DEF RunEffect, Runs
<1>3. CASE O!NotConnected(c) \/ O!WireRefused(c)
  <2>1. ask[c].kind = "subscribe"
    BY <1>3, RequestKinds DEF O!NotConnected, O!WireRefused
  <2>2. CallBecomes(c, "rejected", "none", 0)
    BY <1>3, LeaveMove DEF O!NotConnected, O!WireRefused, O!mapVars
  <2> QED BY <1>0, <1>3, <2>1, <2>2 DEF RunEffect, Runs, O!NotConnected, O!WireRefused, O!mapVars
<1>4. CASE O!JoinSubscription(c)
  <2>1. ask[c].kind = "subscribe" /\ phase[c] = "running"
    BY <1>4, RequestKinds DEF O!JoinSubscription
  <2>2. CallBecomes(c, "resolved", "none", 0)
    BY <1>4, LeaveMove DEF O!JoinSubscription
  <2>3. Attaches(c)
    BY <1>4, <2>1 DEF Attaches, O!JoinSubscription
  <2> QED BY <1>0, <2>2, <2>3 DEF RunEffect, Runs
<1>5. CASE O!StartWiring(c)
  <2>1. ask[c].kind = "subscribe" /\ phase[c] = "running"
    BY <1>5, RequestKinds DEF O!StartWiring
  <2>2. sessionOf[c] <= session
    BY <2>1 DEF CallsFit
  <2>3. phase' = [phase EXCEPT ![c] = "running"]
    BY <1>5, <2>1 DEF O!StartWiring, O!queueVars, ChanType
  <2>4. /\ UNCHANGED <<keyOf, sessionOf, session, initialized, born, nodeMap, request>>
        /\ stage' = [stage EXCEPT ![c] = "wiring"]
        /\ target' = [target EXCEPT ![c] = session]
    BY <1>5 DEF O!StartWiring, O!queueVars, O!mapVars
  <2>5. session <= session
    BY <1>0
  <2>6. CallBecomes(c, "running", "wiring", session)
    BY <2>1, <2>2, <2>3, <2>4, <2>5 DEF CallBecomes
  <2> QED BY <1>0, <1>5, <2>1, <2>6 DEF RunEffect, Runs, O!StartWiring, O!mapVars
<1>6. CASE O!WireNext(c)
  <2>1. ask[c].kind = "subscribe" /\ phase[c] = "running"
    BY <1>6, RequestKinds DEF O!WireNext
  <2>2. UNCHANGED listeners
    BY <1>6 DEF O!WireNext, O!mapVars
  <2>3. CASE O!InstanceLive(c)
    <3>1. UNCHANGED <<phase, keyOf, sessionOf, session, stage, target>>
      BY <1>6, <2>3 DEF O!WireNext, O!queueVars
    <3>2. /\ phase' = [phase EXCEPT ![c] = "running"]
          /\ stage' = [stage EXCEPT ![c] = "wiring"]
          /\ target' = [target EXCEPT ![c] = target[c]]
      BY <1>6, <2>1, <3>1 DEF O!WireNext, ChanType
    <3>3. sessionOf[c] <= target[c] /\ target[c] <= session
      BY <1>6 DEF O!WireNext, CallsFit
    <3>4. CallBecomes(c, "running", "wiring", target[c])
      BY <1>6, <2>1, <3>1, <3>2, <3>3 DEF CallBecomes, O!WireNext, O!mapVars
    <3> QED BY <1>0, <2>1, <2>2, <3>4 DEF RunEffect, Runs
  <2>4. CASE ~O!InstanceLive(c)
    <3>1. CallBecomes(c, "rejected", "none", 0)
      BY <1>6, <2>4, LeaveMove DEF O!WireNext, O!mapVars
    <3> QED BY <1>0, <2>1, <2>2, <3>1 DEF RunEffect, Runs
  <2> QED BY <2>3, <2>4
<1>7. CASE O!WireLast(c)
  <2>1. ask[c].kind = "subscribe" /\ phase[c] = "running"
    BY <1>7, RequestKinds DEF O!WireLast
  <2>2. CallBecomes(c, "resolved", "none", 0)
    BY <1>7, LeaveMove DEF O!WireLast
  <2>3. CASE target[c] = session
    <3>1. Attaches(c)
      BY <1>7, <2>1, <2>3 DEF Attaches, O!WireLast
    <3> QED BY <1>0, <2>2, <3>1 DEF RunEffect, Runs
  <2>4. CASE target[c] # session
    <3>1. UNCHANGED listeners /\ stage[c] = "wiring"
      BY <1>7, <2>4 DEF O!WireLast
    <3> QED BY <1>0, <2>1, <2>2, <2>4, <3>1 DEF RunEffect, Runs
  <2> QED BY <2>3, <2>4
<1>8. CASE O!RunUnsubscribe(c)
  <2>1. ask[c].kind # "subscribe" /\ phase[c] = "queued"
    BY <1>8, RequestKinds DEF O!RunUnsubscribe, O!Q!RunAtOnce, O!Q!Released
  <2>2. /\ phase' = [phase EXCEPT ![c] = "resolved"]
        /\ UNCHANGED <<keyOf, sessionOf, session>>
    BY <1>8, QueueMove DEF O!RunUnsubscribe
  <2>3. stage[c] = "none"
    BY <2>1, RequestKinds
  <2>4. /\ target' = [target EXCEPT ![c] = target[c]]
        /\ stage' = [stage EXCEPT ![c] = "none"]
    BY <1>8, <2>3 DEF ChanType, O!RunUnsubscribe
  <2>5. CallBecomes(c, "resolved", "none", target[c])
    BY <1>8, <2>1, <2>2, <2>4 DEF CallBecomes, O!RunUnsubscribe
  <2>6. Removes(c)
    <3> DEFINE s == keyOf[c]
               n == request[c].node
               l == request[c].callback
    <3>1. s \in Shadows
      BY <2>1 DEF CallsFit
    <3>2. O!InstanceLive(c) /\ listeners[s][n] # {}
            => listeners' = [listeners EXCEPT ![s][n] = @ \ {l}]
      BY <1>8 DEF O!RunUnsubscribe
    <3>3. ~(O!InstanceLive(c) /\ listeners[s][n] # {}) => listeners' = listeners
      BY <1>8 DEF O!RunUnsubscribe
    <3> HIDE DEF s, n, l
    <3>4. listeners[s][n] = {} => [listeners EXCEPT ![s][n] = @ \ {l}] = listeners
      BY <3>1 DEF ChanType
    <3>5. O!InstanceLive(c) => listeners' = [listeners EXCEPT ![s][n] = @ \ {l}]
      BY <3>2, <3>3, <3>4
    <3>6. O!InstanceLive(c) <=> initialized /\ born <= sessionOf[c]
      BY DEF O!InstanceLive
    <3> QED BY <2>1, <3>3, <3>5, <3>6 DEF Removes, s, n, l
  <2> QED BY <1>0, <2>5, <2>6 DEF RunEffect, Runs
<1> QED
  BY <1>1, <1>2, <1>3, <1>4, <1>5, <1>6, <1>7, <1>8 DEF O!Run

-----------------------------------------------------------------------------
(* The shapes of the channel's steps. *)

ListenerMaps == [Shadows -> [Nodes -> SUBSET Ops]]

\* No node loses its shadow.
Kept == \A n \in Nodes : nodeMap[n] \in {NoShadow, nodeMap'[n]}

LEMMA BindEffect ==
  ASSUME ChanType, NEW n \in Nodes, NEW s \in Shadows, O!Bind(n, s)
  PROVE  /\ initialized
         /\ nodeMap' = [nodeMap EXCEPT ![n] = s]
         /\ listeners' \in ListenerMaps
         /\ nodeMap[n] \in {NoShadow, s} => UNCHANGED listeners
<1>1. initialized /\ nodeMap' = [nodeMap EXCEPT ![n] = s]
  BY DEF O!Bind
<1>2. CASE nodeMap[n] \notin {NoShadow, s}
  <2>1. listeners' = [listeners EXCEPT ![nodeMap[n]][n] = {}] /\ nodeMap[n] \in Shadows
    BY <1>2 DEF O!Bind, O!Unbind, ChanType
  <2>2. listeners' \in ListenerMaps
    BY <2>1 DEF ChanType, ListenerMaps
  <2> QED BY <1>1, <1>2, <2>2
<1>3. CASE nodeMap[n] \in {NoShadow, s}
  BY <1>1, <1>3 DEF O!Bind, ChanType, ListenerMaps
<1> QED BY <1>2, <1>3

LEMMA UnregisterEffect ==
  ASSUME ChanType, NEW n \in Nodes, O!UnregisterNode(n)
  PROVE  /\ initialized
         /\ nodeMap[n] # NoShadow
         /\ nodeMap' = [nodeMap EXCEPT ![n] = NoShadow]
         /\ listeners' \in ListenerMaps
<1>1. initialized /\ nodeMap[n] # NoShadow /\ nodeMap' = [nodeMap EXCEPT ![n] = NoShadow]
  BY DEF O!UnregisterNode
<1>2. listeners' = [listeners EXCEPT ![nodeMap[n]][n] = {}] /\ nodeMap[n] \in Shadows
  BY <1>1 DEF O!UnregisterNode, O!Unbind, ChanType
<1>3. listeners' \in ListenerMaps
  BY <1>2 DEF ChanType, ListenerMaps
<1> QED BY <1>1, <1>3

\* The calls are left alone.
CallsStill == UNCHANGED <<phase, keyOf, sessionOf, session, initialized, born, request, stage, target>>

\* An operation ends; its call, if it made one, is over.
OpEnds(o, p) ==
  /\ OpBecomes(o, p)
  /\ opPhase[o] \in {"queued", "running"}
  /\ phase[o] \notin {"queued", "running"}
  /\ CallsStill /\ UNCHANGED ask
  /\ nodeMap' \in [Nodes -> Shadows \cup {NoShadow}]
  /\ listeners' \in ListenerMaps
  /\ Kept => UNCHANGED listeners

\* An operation makes its call.
OpCalls(o, s, r) ==
  /\ OpBecomes(o, "running")
  /\ opPhase[o] = "queued"
  /\ phase' = [phase EXCEPT ![o] = "queued"]
  /\ keyOf' = [keyOf EXCEPT ![o] = s]
  /\ sessionOf' = [sessionOf EXCEPT ![o] = session]
  /\ request' = [request EXCEPT ![o] = r]
  /\ initialized
  /\ UNCHANGED <<session, initialized, born, stage, target, ask>>
  /\ nodeMap' \in [Nodes -> Shadows \cup {NoShadow}]
  /\ listeners' \in ListenerMaps
  /\ Kept => UNCHANGED listeners

ChanMaps ==
  /\ installed' \in [Nodes -> Ops \cup {NoOp}]
  /\ audience' \in [Ops -> SUBSET Apps]
  /\ generation' \in [Nodes -> Nat]

LEMMA EndingFits ==
  ASSUME ChanType, ChanQueue, CallsFit, NEW o \in Ops, NEW p \in Settled, OpEnds(o, p), ChanMaps
  PROVE  ChanType' /\ CallsFit'
<1>1. ChanType'
  BY DEF ChanType, OpEnds, CallsStill, ChanMaps, ListenerMaps
<1>2. CallsFit'
  BY OpType DEF CallsFit, OpEnds, CallsStill, OpBecomes, Settled, QueuePhases
<1> QED BY <1>1, <1>2

LEMMA CallingFits ==
  ASSUME ChanType, ChanQueue, CallsFit, NEW o \in Ops, NEW s \in Shadows, NEW r \in O!Request,
         OpCalls(o, s, r), ChanMaps,
         r.node = opNode[o],
         IF ask[o].kind = "subscribe"
           THEN r = [kind |-> "subscribe", node |-> opNode[o], callback |-> o]
           ELSE \E l \in Ops : r = [kind |-> "unsubscribe", node |-> opNode[o], callback |-> l]
  PROVE  ChanType' /\ CallsFit'
<1>1. ChanType'
  BY DEF ChanType, OpCalls, ChanMaps, ListenerMaps, QueuePhases
<1>2. CallsFit'
  <2> SUFFICES ASSUME NEW q \in Ops PROVE CallsFit!(q)'
    BY DEF CallsFit
  <2>1. CASE q = o
    BY <2>1, OpType DEF ChanType, CallsFit, OpCalls, OpBecomes, Settled, QueuePhases
  <2>2. CASE q # o
    BY <2>2, OpType DEF ChanType, CallsFit, OpCalls, OpBecomes, Settled, QueuePhases
  <2> QED BY <2>1, <2>2
<1> QED BY <1>1, <1>2

LEMMA AskingFits ==
  ASSUME ChanType, ChanQueue, CallsFit, NEW o \in Ops, NEW n \in Nodes, NEW a \in Ask, Call(o, n, a)
  PROVE  /\ ChanType' /\ CallsFit'
         /\ opPhase[o] = "idle" /\ phase[o] = "idle"
         /\ opPhase' = [opPhase EXCEPT ![o] = "queued"]
         /\ opNode' = [opNode EXCEPT ![o] = n]
<1>1. /\ opPhase[o] = "idle"
      /\ opPhase' = [opPhase EXCEPT ![o] = "queued"]
      /\ opNode' = [opNode EXCEPT ![o] = n]
      /\ ask' = [ask EXCEPT ![o] = a]
      /\ UNCHANGED <<orchVars, chanVars>>
  BY DEF Call, C!Enqueue
<1>2. /\ CallsStill /\ UNCHANGED <<nodeMap, listeners, installed, audience, generation>>
  BY <1>1 DEF CallsStill, orchVars, queueVars, chanVars
<1>3. ChanType'
  BY <1>1, <1>2 DEF ChanType, CallsStill
<1>4. phase[o] = "idle"
  BY <1>1 DEF CallsFit
<1>5. CallsFit'
  <2> SUFFICES ASSUME NEW q \in Ops PROVE CallsFit!(q)'
    BY DEF CallsFit
  <2>1. CASE q = o
    BY <1>1, <1>2, <1>4, <2>1, OpType DEF CallsFit, CallsStill, Settled, QueuePhases
  <2>2. CASE q # o
    BY <1>1, <1>2, <2>2, OpType DEF ChanType, CallsFit, CallsStill, Settled, QueuePhases
  <2> QED BY <2>1, <2>2
<1> QED BY <1>1, <1>3, <1>4, <1>5

LEMMA WithListenerIs ==
  ASSUME ChanType, CallsFit, NEW c \in Ops, ask[c].kind = "subscribe", phase[c] # "idle"
  PROVE  /\ keyOf[c] \in Shadows /\ opNode[c] \in Nodes
         /\ O!WithListener(c) = [listeners EXCEPT ![keyOf[c]][opNode[c]] = @ \cup {c}]
<1>1. request[c] = [kind |-> "subscribe", node |-> opNode[c], callback |-> c]
  BY DEF CallsFit
<1>2. request[c].node = opNode[c] /\ request[c].callback = c
  BY <1>1
<1>3. opPhase[c] # "idle"
  BY DEF CallsFit
<1> QED BY <1>2, <1>3 DEF O!WithListener, CallsFit

LEMMA RunningFits ==
  ASSUME ChanType, ChanQueue, CallsFit, NEW c \in Ops,
         NEW p \in {"running", "resolved", "rejected"},
         NEW st \in {"none", "connecting", "wiring"}, NEW t \in Nat,
         RunEffect(c, p, st, t), UNCHANGED <<opVars, ask, chanVars>>
  PROVE  ChanType' /\ CallsFit' /\ opPhase[c] = "running"
<1>1. CallBecomes(c, p, st, t)
  BY DEF RunEffect
<1>2. UNCHANGED <<opPhase, opNode, ask, installed, audience, generation>>
  BY DEF opVars, chanVars
<1>3. opPhase[c] = "running" /\ keyOf[c] \in Shadows /\ phase[c] # "idle"
  BY <1>1, OpType DEF CallsFit, CallBecomes, Settled, QueuePhases
<1>4. listeners' \in ListenerMaps
  <2>1. CASE UNCHANGED listeners
    BY <2>1 DEF ChanType, ListenerMaps
  <2> DEFINE s == keyOf[c]
             n == opNode[c]
  <2>0. s \in Shadows /\ n \in Nodes
    BY <1>3 DEF CallsFit
  <2>2. CASE Attaches(c)
    <3>1. listeners' = [listeners EXCEPT ![s][n] = @ \cup {c}]
      BY <1>3, <2>2, WithListenerIs DEF Attaches
    <3> HIDE DEF s, n
    <3> QED BY <2>0, <3>1 DEF ChanType, ListenerMaps
  <2>3. CASE Removes(c)
    <3>1. PICK l \in Ops : request[c] = [kind |-> "unsubscribe", node |-> n, callback |-> l]
      BY <1>3, <2>3 DEF Removes, CallsFit
    <3>2. listeners' = [listeners EXCEPT ![s][n] = @ \ {l}] \/ listeners' = listeners
      BY <2>3, <3>1 DEF Removes
    <3> DEFINE left == listeners[s][n] \ {l}
    <3> HIDE DEF s, n
    <3>3. left \in SUBSET Ops
      BY <2>0 DEF ChanType
    <3>4. [listeners EXCEPT ![s][n] = @ \ {l}] = [listeners EXCEPT ![s][n] = left]
      BY <2>0 DEF ChanType
    <3> HIDE DEF left
    <3>5. [listeners EXCEPT ![s][n] = left] \in ListenerMaps
      BY <2>0, <3>3 DEF ChanType, ListenerMaps
    <3> QED BY <3>2, <3>4, <3>5 DEF ChanType, ListenerMaps
  <2> QED BY <2>1, <2>2, <2>3 DEF RunEffect
<1>5. ChanType'
  BY <1>1, <1>2, <1>4 DEF ChanType, CallBecomes, ListenerMaps, QueuePhases
<1>6. CallsFit'
  <2> SUFFICES ASSUME NEW q \in Ops PROVE CallsFit!(q)'
    BY DEF CallsFit
  <2>1. CASE q = c
    BY <1>1, <1>2, <1>3, <2>1, OpType DEF ChanType, CallsFit, CallBecomes, Settled, QueuePhases
  <2>2. CASE q # c
    BY <1>1, <1>2, <2>2, OpType DEF ChanType, CallsFit, CallBecomes, Settled, QueuePhases
  <2> QED BY <2>1, <2>2
<1> QED BY <1>3, <1>5, <1>6

\* A session ends.
Ends ==
  /\ session' = session + 1
  /\ nodeMap' = [n \in Nodes |-> NoShadow]
  /\ listeners' = O!NoListeners
  /\ initialized
  /\ initialized' \in BOOLEAN
  /\ UNCHANGED <<phase, keyOf, sessionOf, born, request, stage, target,
                 opPhase, opNode, ask, installed, audience, generation>>

LEMMA LifecycleEffect ==
  ASSUME ChanType, Lifecycle
  PROVE  \/ Ends
         \/ /\ ~initialized /\ initialized' = TRUE /\ born' = session
            /\ UNCHANGED <<phase, keyOf, sessionOf, session, nodeMap, listeners, request, stage, target,
                           opPhase, opNode, ask, installed, audience, generation>>
<1>1. CASE O!Initialize
  BY <1>1 DEF Lifecycle, O!Initialize, O!queueVars, O!mapVars, opVars, chanVars
<1>2. CASE O!ResetSession \/ O!Clear
  BY <1>2 DEF Lifecycle, O!ResetSession, O!Clear, O!EndSession, O!Q!Forget, Ends, opVars, chanVars,
      ChanType
<1> QED BY <1>1, <1>2 DEF Lifecycle

LEMMA LifecycleFits ==
  ASSUME ChanType, ChanQueue, CallsFit, Lifecycle
  PROVE  ChanType' /\ CallsFit'
<1>1. CASE Ends
  BY <1>1 DEF Ends, ChanType, CallsFit, O!NoListeners
<1>2. CASE /\ ~initialized /\ initialized' = TRUE /\ born' = session
           /\ UNCHANGED <<phase, keyOf, sessionOf, session, nodeMap, listeners, request, stage, target,
                           opPhase, opNode, ask, installed, audience, generation>>
  BY <1>2 DEF ChanType, CallsFit
<1> QED BY <1>1, <1>2, LifecycleEffect

\* A node is registered, moved or unregistered.
Registers ==
  /\ CallsStill
  /\ initialized
  /\ nodeMap' \in [Nodes -> Shadows \cup {NoShadow}]
  /\ listeners' \in ListenerMaps
  /\ Kept => UNCHANGED listeners
  /\ UNCHANGED <<opPhase, opNode, ask, installed, audience, generation>>

LEMMA RegistersFits ==
  ASSUME ChanType, ChanQueue, CallsFit, Registers
  PROVE  ChanType' /\ CallsFit'
BY DEF Registers, ChanType, CallsFit, CallsStill, ListenerMaps

-----------------------------------------------------------------------------
(* The channel's actions, by shape. *)

ChanInv == CallsFit /\ InstallFindsItsSet /\ InstalledFits /\ GivenUpIsNotInstalled

LEMMA EndingKeeps ==
  ASSUME BaseInv, NEW o \in Ops, NEW p \in Settled, OpEnds(o, p), ChanMaps,
         UNCHANGED <<installed, generation>>,
         opPhase[o] = "queued" \/ ask[o].kind # "subscribe" \/ (p = "resolved" /\ phase[o] = "resolved")
  PROVE  ChanType' /\ ChanInv'
<1>1. ChanType' /\ CallsFit'
  BY EndingFits DEF BaseInv
<1>2. InstallFindsItsSet'
  BY OpType DEF BaseInv, InstallFindsItsSet, OpEnds, OpBecomes, Settled
<1>3. InstalledFits'
  BY OpType DEF BaseInv, ChanType, InstalledFits, OpEnds, OpBecomes, CallsStill, Settled
<1>4. GivenUpIsNotInstalled'
  BY OpType DEF BaseInv, GivenUpIsNotInstalled, OpEnds, OpBecomes, CallsStill, Settled
<1> QED BY <1>1, <1>2, <1>3, <1>4 DEF ChanInv

LEMMA DroppingKeeps ==
  ASSUME BaseInv, NEW o \in Ops, NEW p \in Settled, OpEnds(o, p), ChanMaps, Alone(o),
         opNode[o] \in Nodes,
         installed' = [installed EXCEPT ![opNode[o]] = NoOp],
         generation' = [generation EXCEPT ![opNode[o]] = 0]
  PROVE  ChanType' /\ ChanInv'
<1>1. ChanType' /\ CallsFit'
  BY EndingFits DEF BaseInv
<1>2. InstallFindsItsSet'
  BY OpType DEF BaseInv, ChanType, InstallFindsItsSet, OpEnds, OpBecomes, Settled, Alone
<1>3. InstalledFits'
  <2> SUFFICES ASSUME NEW n \in Nodes, installed'[n] # NoOp PROVE InstalledFits!(n)'
    BY DEF InstalledFits
  <2>1. n # opNode[o] /\ installed'[n] = installed[n] /\ generation'[n] = generation[n]
    BY DEF BaseInv, ChanType
  <2>2. installed[n] # o
    BY <2>1, ChannelAssumption DEF BaseInv, InstalledFits
  <2> QED
    BY <2>1, <2>2, OpType DEF BaseInv, ChanType, InstalledFits, OpEnds, OpBecomes, CallsStill, Settled
<1>4. GivenUpIsNotInstalled'
  <2> SUFFICES ASSUME NEW q \in Ops, request[q].kind = "unsubscribe"
               PROVE  /\ opPhase'[request[q].callback] \notin {"idle", "queued"}
                      /\ \A n \in Nodes : installed'[n] # request[q].callback
    BY DEF GivenUpIsNotInstalled, OpEnds, CallsStill
  <2>1. /\ opPhase[request[q].callback] \notin {"idle", "queued"}
        /\ \A n \in Nodes : installed[n] # request[q].callback
    BY DEF BaseInv, GivenUpIsNotInstalled
  <2>2. request[q].callback \in Ops
    BY UnsubscribeIs DEF BaseInv
  <2> QED
    BY <2>1, <2>2, OpType, ChannelAssumption DEF BaseInv, ChanType, OpEnds, OpBecomes, Settled
<1> QED BY <1>1, <1>2, <1>3, <1>4 DEF ChanInv

LEMMA InstallKeeps ==
  ASSUME BaseInv, NEW o \in Ops, NEW s \in Shadows,
         OpCalls(o, s, [kind |-> "subscribe", node |-> opNode[o], callback |-> o]),
         Alone(o), opNode[o] \in Nodes, ask[o].kind = "subscribe", UNCHANGED audience,
         installed' = [installed EXCEPT ![opNode[o]] = o],
         generation' = [generation EXCEPT ![opNode[o]] = session + 1]
  PROVE  ChanType' /\ ChanInv'
<1> DEFINE r == [kind |-> "subscribe", node |-> opNode[o], callback |-> o]
<1>0. r \in O!Request /\ r.node = opNode[o] /\ r.kind = "subscribe"
  BY DEF O!Request
<1>1. ChanMaps
  BY DEF BaseInv, ChanType, ChanMaps
<1>2. ChanType' /\ CallsFit'
  BY <1>0, <1>1, CallingFits DEF BaseInv
<1> HIDE DEF r
<1>3. InstallFindsItsSet'
  BY OpType DEF BaseInv, ChanType, InstallFindsItsSet, OpCalls, OpBecomes, Alone
<1>4. InstalledFits'
  <2> SUFFICES ASSUME NEW n \in Nodes, installed'[n] # NoOp PROVE InstalledFits!(n)'
    BY DEF InstalledFits
  <2>1. CASE n = opNode[o]
    BY <2>1, OpType DEF BaseInv, ChanType, OpCalls, OpBecomes
  <2>2. CASE n # opNode[o]
    <3>1. /\ installed'[n] = installed[n] /\ generation'[n] = generation[n]
          /\ installed[n] # o /\ installed[n] \in Ops
      BY <2>2, ChannelAssumption DEF BaseInv, ChanType, InstalledFits
    <3> QED
      BY <3>1, OpType DEF BaseInv, ChanType, InstalledFits, OpCalls, OpBecomes
  <2> QED BY <2>1, <2>2
<1>5. GivenUpIsNotInstalled'
  <2> SUFFICES ASSUME NEW q \in Ops, request'[q].kind = "unsubscribe"
               PROVE  /\ opPhase'[request'[q].callback] \notin {"idle", "queued"}
                      /\ \A n \in Nodes : installed'[n] # request'[q].callback
    BY DEF GivenUpIsNotInstalled
  <2>1. q # o /\ request'[q] = request[q]
    BY <1>0 DEF OpCalls, BaseInv, ChanType, r
  <2>2. /\ opPhase[request[q].callback] \notin {"idle", "queued"}
        /\ \A n \in Nodes : installed[n] # request[q].callback
    BY <2>1 DEF BaseInv, GivenUpIsNotInstalled
  <2>3. request[q].callback \in Ops
    BY <2>1, UnsubscribeIs DEF BaseInv
  <2>4. request[q].callback # o
    BY <2>2 DEF OpCalls
  <2> QED
    BY <2>1, <2>2, <2>3, <2>4, OpType DEF BaseInv, ChanType, OpCalls, OpBecomes
<1> QED BY <1>2, <1>3, <1>4, <1>5 DEF ChanInv

LEMMA DetachKeeps ==
  ASSUME BaseInv, NEW o \in Ops, NEW s \in Shadows, NEW l \in Ops,
         OpCalls(o, s, [kind |-> "unsubscribe", node |-> opNode[o], callback |-> l]),
         Alone(o), opNode[o] \in Nodes, ask[o].kind # "subscribe",
         installed[opNode[o]] = l,
         audience' = [audience EXCEPT ![l] = {}],
         installed' = [installed EXCEPT ![opNode[o]] = NoOp],
         generation' = [generation EXCEPT ![opNode[o]] = 0]
  PROVE  ChanType' /\ ChanInv'
<1> DEFINE r == [kind |-> "unsubscribe", node |-> opNode[o], callback |-> l]
<1>0. r \in O!Request /\ r.node = opNode[o] /\ r.callback = l
  BY DEF O!Request
<1>1. ChanMaps
  BY DEF BaseInv, ChanType, ChanMaps
<1>2. ChanType' /\ CallsFit'
  BY <1>0, <1>1, CallingFits DEF BaseInv
<1> HIDE DEF r
<1>3. InstallFindsItsSet'
  BY OpType DEF BaseInv, ChanType, InstallFindsItsSet, OpCalls, OpBecomes, Alone
<1>4. InstalledFits'
  <2> SUFFICES ASSUME NEW n \in Nodes, installed'[n] # NoOp PROVE InstalledFits!(n)'
    BY DEF InstalledFits
  <2>1. /\ n # opNode[o] /\ installed'[n] = installed[n] /\ generation'[n] = generation[n]
        /\ installed[n] # o /\ installed[n] \in Ops
    BY ChannelAssumption DEF BaseInv, ChanType, InstalledFits
  <2> QED
    BY <2>1, OpType DEF BaseInv, ChanType, InstalledFits, OpCalls, OpBecomes
<1>5. GivenUpIsNotInstalled'
  <2> SUFFICES ASSUME NEW q \in Ops, request'[q].kind = "unsubscribe"
               PROVE  /\ opPhase'[request'[q].callback] \notin {"idle", "queued"}
                      /\ \A n \in Nodes : installed'[n] # request'[q].callback
    BY DEF GivenUpIsNotInstalled
  <2>1. CASE q = o
    <3>1. request'[q].callback = l
      BY <1>0, <2>1 DEF OpCalls, BaseInv, ChanType, r
    <3>2. \A n \in Nodes : n # opNode[o] => installed[n] # l
      BY ChannelAssumption DEF BaseInv, InstalledFits
    <3>3. opPhase[l] \in {"running", "resolved"} /\ l # o
      BY ChannelAssumption DEF BaseInv, InstalledFits, OpCalls
    <3> QED
      BY <3>1, <3>2, <3>3, OpType, ChannelAssumption DEF BaseInv, ChanType, OpCalls, OpBecomes
  <2>2. CASE q # o
    <3>1. request'[q] = request[q]
      BY <2>2 DEF OpCalls, BaseInv, ChanType
    <3>2. /\ opPhase[request[q].callback] \notin {"idle", "queued"}
          /\ \A n \in Nodes : installed[n] # request[q].callback
      BY <3>1 DEF BaseInv, GivenUpIsNotInstalled
    <3>3. request[q].callback \in Ops
      BY <3>1, UnsubscribeIs DEF BaseInv
    <3> QED
      BY <3>1, <3>2, <3>3, OpType, ChannelAssumption DEF BaseInv, ChanType, OpCalls, OpBecomes
  <2> QED BY <2>1, <2>2
<1> QED BY <1>2, <1>3, <1>4, <1>5 DEF ChanInv

LEMMA AskingKeeps ==
  ASSUME BaseInv, NEW o \in Ops, NEW n \in Nodes, NEW a \in Ask, Call(o, n, a)
  PROVE  ChanType' /\ ChanInv'
<1>1. /\ ChanType' /\ CallsFit'
      /\ opPhase[o] = "idle" /\ phase[o] = "idle"
      /\ opPhase' = [opPhase EXCEPT ![o] = "queued"]
      /\ opNode' = [opNode EXCEPT ![o] = n]
  BY AskingFits DEF BaseInv
<1>2. /\ ask' = [ask EXCEPT ![o] = a]
      /\ CallsStill /\ UNCHANGED <<installed, generation>>
  BY DEF Call, CallsStill, orchVars, queueVars, chanVars
<1>3. \A m \in Nodes : installed[m] # o
  BY <1>1, ChannelAssumption DEF BaseInv, InstalledFits
<1>4. InstallFindsItsSet'
  BY <1>1, <1>2, OpType DEF BaseInv, ChanType, InstallFindsItsSet
<1>5. InstalledFits'
  BY <1>1, <1>2, <1>3, OpType DEF BaseInv, ChanType, InstalledFits, CallsStill
<1>6. GivenUpIsNotInstalled'
  BY <1>1, <1>2, OpType DEF BaseInv, GivenUpIsNotInstalled, CallsStill
<1> QED BY <1>1, <1>4, <1>5, <1>6 DEF ChanInv

LEMMA RunningKeeps ==
  ASSUME BaseInv, NEW c \in Ops, OrchestratorRuns(c)
  PROVE  ChanType' /\ ChanInv'
<1>1. Runs(c) /\ UNCHANGED <<opVars, ask, chanVars>>
  BY RunHasEffect DEF BaseInv, OrchestratorRuns
<1>2. PICK p \in {"running", "resolved", "rejected"}, st \in {"none", "connecting", "wiring"}, t \in Nat :
        RunEffect(c, p, st, t)
  BY <1>1 DEF Runs
<1>3. ChanType' /\ CallsFit' /\ opPhase[c] = "running"
  BY <1>1, <1>2, RunningFits DEF BaseInv
<1>4. /\ UNCHANGED <<opPhase, opNode, ask, installed, generation, sessionOf, request>>
      /\ phase' = [phase EXCEPT ![c] = p]
  BY <1>1, <1>2 DEF opVars, chanVars, RunEffect, CallBecomes
<1>5. InstallFindsItsSet' /\ GivenUpIsNotInstalled'
  BY <1>4 DEF BaseInv, InstallFindsItsSet, GivenUpIsNotInstalled
<1>6. InstalledFits'
  BY <1>3, <1>4 DEF BaseInv, ChanType, InstalledFits
<1> QED BY <1>3, <1>5, <1>6 DEF ChanInv

LEMMA LifecycleKeeps ==
  ASSUME BaseInv, Lifecycle
  PROVE  ChanType' /\ ChanInv'
<1>1. ChanType' /\ CallsFit'
  BY LifecycleFits DEF BaseInv
<1>2. UNCHANGED <<phase, sessionOf, request, opPhase, opNode, ask, installed, generation>>
  BY LifecycleEffect DEF BaseInv, Ends
<1>3. InstallFindsItsSet' /\ GivenUpIsNotInstalled' /\ InstalledFits'
  BY <1>2 DEF BaseInv, InstallFindsItsSet, GivenUpIsNotInstalled, InstalledFits
<1> QED BY <1>1, <1>3 DEF ChanInv

LEMMA RegistersKeeps ==
  ASSUME BaseInv, Registers
  PROVE  ChanType' /\ ChanInv'
<1>1. ChanType' /\ CallsFit'
  BY RegistersFits DEF BaseInv
<1>2. InstallFindsItsSet' /\ GivenUpIsNotInstalled' /\ InstalledFits'
  BY DEF BaseInv, InstallFindsItsSet, GivenUpIsNotInstalled, InstalledFits, Registers, CallsStill
<1> QED BY <1>1, <1>2 DEF ChanInv

LEMMA OthersRegister ==
  ASSUME ChanType, NEW n \in Nodes, Others(n)
  PROVE  Registers
<1>1. CASE \E s \in Shadows : O!RegisterNode(n, s)
  <2>1. PICK s \in Shadows : O!RegisterNode(n, s)
    BY <1>1
  <2>2. /\ initialized
        /\ nodeMap' = [nodeMap EXCEPT ![n] = s]
        /\ listeners' \in ListenerMaps
        /\ nodeMap[n] \in {NoShadow, s} => UNCHANGED listeners
    BY <2>1, BindEffect DEF O!RegisterNode
  <2>3. CallsStill /\ UNCHANGED <<opPhase, opNode, ask, installed, audience, generation>>
    BY <2>1 DEF Others, O!RegisterNode, O!queueVars, CallsStill, opVars, chanVars
  <2> QED BY <2>2, <2>3 DEF Registers, ChanType, Kept
<1>2. CASE O!UnregisterNode(n)
  <2>1. /\ initialized
        /\ nodeMap[n] # NoShadow
        /\ nodeMap' = [nodeMap EXCEPT ![n] = NoShadow]
        /\ listeners' \in ListenerMaps
    BY <1>2, UnregisterEffect
  <2>2. CallsStill /\ UNCHANGED <<opPhase, opNode, ask, installed, audience, generation>>
    BY <1>2 DEF Others, O!UnregisterNode, O!queueVars, CallsStill, opVars, chanVars
  <2> QED BY <2>1, <2>2 DEF Registers, ChanType, Kept
<1> QED BY <1>1, <1>2 DEF Others

LEMMA PurgeRegisters ==
  ASSUME ChanType, CallsFit, NEW o \in Ops, PurgeBinding(o)
  PROVE  Registers \/ UNCHANGED <<opPhase, opNode, orchVars, ask, chanVars>>
<1>1. CASE initialized /\ nodeMap[opNode[o]] # NoShadow
  <2>1. opNode[o] \in Nodes
    BY DEF PurgeBinding, C!Outcome, CallsFit
  <2>2. O!UnregisterNode(opNode[o]) /\ UNCHANGED <<opVars, ask, chanVars>>
    BY <1>1 DEF PurgeBinding
  <2>3. /\ initialized
        /\ nodeMap[opNode[o]] # NoShadow
        /\ nodeMap' = [nodeMap EXCEPT ![opNode[o]] = NoShadow]
        /\ listeners' \in ListenerMaps
    BY <2>1, <2>2, UnregisterEffect
  <2>4. CallsStill /\ UNCHANGED <<opPhase, opNode, ask, installed, audience, generation>>
    BY <2>2 DEF O!UnregisterNode, O!queueVars, CallsStill, opVars, chanVars
  <2> QED BY <2>1, <2>3, <2>4 DEF Registers, ChanType, Kept
<1>2. CASE ~(initialized /\ nodeMap[opNode[o]] # NoShadow)
  BY <1>2 DEF PurgeBinding, opVars
<1> QED BY <1>1, <1>2

\* What the actions of an operation come to.
Quiet(o) ==
  \E p \in Settled :
    /\ OpEnds(o, p) /\ Alone(o) /\ opNode[o] \in Nodes
    /\ ChanMaps /\ UNCHANGED <<installed, generation>>
    /\ opPhase[o] = "queued" \/ ask[o].kind # "subscribe" \/ (p = "resolved" /\ phase[o] = "resolved")
    /\ \A l \in Ops : l # installed[opNode[o]] => audience'[l] = audience[l]
    /\ p = "resolved" /\ ask[o].kind = "subscribe" => installed[opNode[o]] # NoOp

Drops(o) ==
  \E p \in Settled :
    /\ OpEnds(o, p) /\ Alone(o) /\ opNode[o] \in Nodes
    /\ ChanMaps
    /\ installed' = [installed EXCEPT ![opNode[o]] = NoOp]
    /\ generation' = [generation EXCEPT ![opNode[o]] = 0]
    /\ UNCHANGED <<nodeMap, listeners>>
    /\ \A l \in Ops : audience'[l] \in {audience[l], {}}
    /\ \/ ask[o].kind = "subscribe" /\ p = "rejected" /\ phase[o] = "rejected"
       \/ /\ ask[o].kind # "subscribe" /\ opPhase[o] = "queued"
          /\ ~initialized \/ nodeMap[opNode[o]] = NoShadow

Installs(o) ==
  \E s \in Shadows :
    /\ OpCalls(o, s, [kind |-> "subscribe", node |-> opNode[o], callback |-> o])
    /\ Alone(o) /\ opNode[o] \in Nodes /\ ask[o].kind = "subscribe" /\ UNCHANGED audience
    /\ nodeMap' = [nodeMap EXCEPT ![opNode[o]] = s]
    /\ installed[opNode[o]] = NoOp \/ generation[opNode[o]] # session + 1
    /\ installed' = [installed EXCEPT ![opNode[o]] = o]
    /\ generation' = [generation EXCEPT ![opNode[o]] = session + 1]

Detaches(o) ==
  \E s \in Shadows, l \in Ops :
    /\ OpCalls(o, s, [kind |-> "unsubscribe", node |-> opNode[o], callback |-> l])
    /\ Alone(o) /\ opNode[o] \in Nodes /\ ask[o].kind # "subscribe"
    /\ installed[opNode[o]] = l
    /\ UNCHANGED <<nodeMap, listeners>> /\ nodeMap[opNode[o]] = s
    /\ audience' = [audience EXCEPT ![l] = {}]
    /\ installed' = [installed EXCEPT ![opNode[o]] = NoOp]
    /\ generation' = [generation EXCEPT ![opNode[o]] = 0]

LEMMA QueuedOp ==
  ASSUME BaseInv, NEW o \in Ops, NEW p \in Settled, C!RunAtOnce(o, p), UNCHANGED ask,
         CallsStill, nodeMap' \in [Nodes -> Shadows \cup {NoShadow}], listeners' \in ListenerMaps,
         Kept => UNCHANGED listeners
  PROVE  OpEnds(o, p) /\ Alone(o) /\ opPhase[o] = "queued" /\ opNode[o] \in Nodes
BY OpRunsThrough DEF BaseInv, CallsFit, OpEnds

LEMMA RunningOp ==
  ASSUME BaseInv, NEW o \in Ops, NEW p \in Settled, C!Settle(o, p), UNCHANGED <<orchVars, ask>>,
         phase[o] \in Settled
  PROVE  OpEnds(o, p) /\ Alone(o) /\ opPhase[o] = "running" /\ opNode[o] \in Nodes
<1>1. OpBecomes(o, p) /\ Alone(o) /\ opPhase[o] = "running"
  BY OpSettles DEF BaseInv
<1>2. CallsStill /\ UNCHANGED <<nodeMap, listeners>>
  BY DEF orchVars, queueVars, CallsStill
<1> QED BY <1>1, <1>2 DEF BaseInv, ChanType, CallsFit, OpEnds, Settled, ListenerMaps

LEMMA OrchStill ==
  ASSUME ChanType, UNCHANGED orchVars
  PROVE  /\ CallsStill /\ UNCHANGED <<nodeMap, listeners>>
         /\ nodeMap' \in [Nodes -> Shadows \cup {NoShadow}] /\ listeners' \in ListenerMaps
BY DEF orchVars, queueVars, CallsStill, ChanType, ListenerMaps

LEMMA UninitializedIs ==
  ASSUME BaseInv, NEW o \in Ops, SubscribeUninitialized(o)
  PROVE  Quiet(o)
<1>1. OpEnds(o, "rejected") /\ Alone(o) /\ opPhase[o] = "queued" /\ opNode[o] \in Nodes
  BY QueuedOp, OrchStill DEF SubscribeUninitialized, BaseInv, Settled
<1>2. ChanMaps /\ UNCHANGED <<installed, audience, generation>>
  BY DEF SubscribeUninitialized, chanVars, ChanMaps, BaseInv, ChanType
<1> QED BY <1>1, <1>2 DEF Quiet, Settled

LEMMA AskedShadow ==
  ASSUME ChanType, NEW o \in Ops, ask[o].kind = "subscribe"
  PROVE  ask[o].shadow \in Shadows /\ ask[o].app \in Apps
BY DEF ChanType, Ask

LEMMA JoinIs ==
  ASSUME BaseInv, NEW o \in Ops, Join(o)
  PROVE  Quiet(o)
<1> DEFINE n == opNode[o]
<1>1. opPhase[o] = "queued" /\ n \in Nodes
  BY OpRunsThrough DEF Join, BaseInv, CallsFit
<1>2. ask[o].shadow \in Shadows /\ ask[o].app \in Apps
  BY AskedShadow DEF Join, BaseInv
<1>3. /\ initialized
      /\ nodeMap' = [nodeMap EXCEPT ![n] = ask[o].shadow]
      /\ listeners' \in ListenerMaps
      /\ nodeMap[n] \in {NoShadow, ask[o].shadow} => UNCHANGED listeners
  BY <1>1, <1>2, BindEffect DEF Join, BaseInv
<1>4. Kept => UNCHANGED listeners
  BY <1>1, <1>3 DEF Kept, BaseInv, ChanType
<1>5. CallsStill /\ nodeMap' \in [Nodes -> Shadows \cup {NoShadow}]
  BY <1>1, <1>2, <1>3 DEF Join, CallsStill, queueVars, BaseInv, ChanType
<1>6. OpEnds(o, "resolved") /\ Alone(o)
  BY <1>3, <1>4, <1>5, QueuedOp DEF Join, Settled
<1>7. /\ installed[n] # NoOp /\ installed[n] \in Ops
      /\ generation[n] = O!Generation
      /\ generation' = [generation EXCEPT ![n] = O!Generation]
      /\ UNCHANGED installed
      /\ audience' = [audience EXCEPT ![installed[n]] = @ \cup {ask[o].app}]
  BY <1>1 DEF Join, Attached, BaseInv, ChanType
<1>8. UNCHANGED generation
  BY <1>7 DEF BaseInv, ChanType
<1>9. ChanMaps
  BY <1>2, <1>7, <1>8 DEF ChanMaps, BaseInv, ChanType
<1>10. \A l \in Ops : l # installed[n] => audience'[l] = audience[l]
  BY <1>7 DEF BaseInv, ChanType
<1> QED BY <1>1, <1>6, <1>7, <1>8, <1>9, <1>10 DEF Quiet, Settled

LEMMA InstalledIs ==
  ASSUME BaseInv, NEW o \in Ops, Installed(o)
  PROVE  Quiet(o)
<1> DEFINE n == opNode[o]
<1>1. OpEnds(o, "resolved") /\ Alone(o) /\ opPhase[o] = "running" /\ n \in Nodes
  BY RunningOp DEF Installed, Settled, orchVars
<1>2. /\ installed[n] # NoOp /\ installed[n] \in Ops
      /\ UNCHANGED <<installed, generation>>
      /\ audience' = [audience EXCEPT ![installed[n]] = @ \cup {ask[o].app}]
      /\ ask[o].app \in Apps
  BY <1>1, AskedShadow DEF Installed, BaseInv, ChanType
<1>3. ChanMaps
  BY <1>2 DEF ChanMaps, BaseInv, ChanType
<1>4. \A l \in Ops : l # installed[n] => audience'[l] = audience[l]
  BY <1>2 DEF BaseInv, ChanType
<1>5. phase[o] = "resolved"
  BY DEF Installed
<1> QED BY <1>1, <1>2, <1>3, <1>4, <1>5 DEF Quiet, Settled

LEMMA RemainingIs ==
  ASSUME ChanType, NEW o \in Ops, opNode[o] \in Nodes
  PROVE  Remaining(o) \in SUBSET Apps
BY DEF Remaining, ChanType

LEMMA RemoveOneIs ==
  ASSUME BaseInv, NEW o \in Ops, RemoveOne(o)
  PROVE  Quiet(o)
<1> DEFINE n == opNode[o]
<1>1. OpEnds(o, "resolved") /\ Alone(o) /\ opPhase[o] = "queued" /\ n \in Nodes
  BY QueuedOp, OrchStill DEF RemoveOne, BaseInv, Settled
<1>2. /\ UNCHANGED <<installed, generation>>
      /\ ask[o].kind # "subscribe"
      /\ audience' = IF installed[n] = NoOp THEN audience
                     ELSE [audience EXCEPT ![installed[n]] = Remaining(o)]
  BY DEF RemoveOne
<1>3. ChanMaps /\ \A l \in Ops : l # installed[n] => audience'[l] = audience[l]
  BY <1>1, <1>2, RemainingIs DEF ChanMaps, BaseInv, ChanType
<1> QED BY <1>1, <1>2, <1>3 DEF Quiet, Settled

LEMMA DetachedIs ==
  ASSUME BaseInv, NEW o \in Ops, Detached(o)
  PROVE  Quiet(o)
<1>1. OpEnds(o, "resolved") /\ Alone(o) /\ opPhase[o] = "running" /\ opNode[o] \in Nodes
  BY RunningOp DEF Detached, Settled, orchVars, C!Outcome
<1>2. ChanMaps /\ UNCHANGED <<installed, audience, generation>> /\ ask[o].kind # "subscribe"
  BY DEF Detached, chanVars, ChanMaps, BaseInv, ChanType
<1> QED BY <1>1, <1>2 DEF Quiet, Settled

LEMMA RollBackIs ==
  ASSUME BaseInv, NEW o \in Ops, RollBack(o)
  PROVE  Drops(o)
<1>1. OpEnds(o, "rejected") /\ Alone(o) /\ opPhase[o] = "running" /\ opNode[o] \in Nodes
  BY RunningOp DEF RollBack, Settled, orchVars
<1>2. /\ installed' = [installed EXCEPT ![opNode[o]] = NoOp]
      /\ generation' = [generation EXCEPT ![opNode[o]] = 0]
      /\ UNCHANGED audience
      /\ ask[o].kind = "subscribe" /\ phase[o] = "rejected"
      /\ UNCHANGED <<nodeMap, listeners>>
  BY DEF RollBack, orchVars
<1>3. ChanMaps
  BY <1>2 DEF ChanMaps, BaseInv, ChanType
<1> QED BY <1>1, <1>2, <1>3 DEF Drops, Settled

LEMMA DetachUnregisteredIs ==
  ASSUME BaseInv, NEW o \in Ops, DetachUnregistered(o)
  PROVE  Drops(o)
<1>1. OpEnds(o, "resolved") /\ Alone(o) /\ opPhase[o] = "queued" /\ opNode[o] \in Nodes
  BY QueuedOp, OrchStill DEF DetachUnregistered, BaseInv, Settled
<1>2. /\ installed' = [installed EXCEPT ![opNode[o]] = NoOp]
      /\ generation' = [generation EXCEPT ![opNode[o]] = 0]
      /\ audience' = [audience EXCEPT ![installed[opNode[o]]] = {}]
      /\ ask[o].kind # "subscribe"
      /\ ~initialized \/ nodeMap[opNode[o]] = NoShadow
      /\ UNCHANGED <<nodeMap, listeners>>
  BY DEF DetachUnregistered, DropLocal, Leaves, orchVars
<1>3. ChanMaps /\ \A l \in Ops : audience'[l] \in {audience[l], {}}
  BY <1>2 DEF ChanMaps, BaseInv, ChanType
<1> QED BY <1>1, <1>2, <1>3 DEF Drops, Settled

LEMMA EnterIs ==
  ASSUME ChanType, NEW o \in Ops, NEW r, NEW s, O!Enter(o, r, s)
  PROVE  /\ phase' = [phase EXCEPT ![o] = "queued"]
         /\ keyOf' = [keyOf EXCEPT ![o] = s]
         /\ sessionOf' = [sessionOf EXCEPT ![o] = session]
         /\ request' = [request EXCEPT ![o] = r]
         /\ UNCHANGED session
BY DEF O!Enter, O!Q!Enqueue

LEMMA InstallIs ==
  ASSUME BaseInv, NEW o \in Ops, Install(o)
  PROVE  Installs(o)
<1> DEFINE n == opNode[o]
           s == ask[o].shadow
           r == [kind |-> "subscribe", node |-> n, callback |-> o]
<1>1. opPhase[o] = "queued" /\ Alone(o) /\ OpBecomes(o, "running") /\ n \in Nodes
  BY OpStarts DEF Install, BaseInv, CallsFit
<1>2. s \in Shadows /\ ask[o].kind = "subscribe"
  BY AskedShadow DEF Install, BaseInv
<1>3. /\ initialized
      /\ nodeMap' = [nodeMap EXCEPT ![n] = s]
      /\ listeners' \in ListenerMaps
      /\ nodeMap[n] \in {NoShadow, s} => UNCHANGED listeners
  BY <1>1, <1>2, BindEffect DEF Install, BaseInv
<1>4. Kept => UNCHANGED listeners
  BY <1>1, <1>3 DEF Kept, BaseInv, ChanType
<1>5. /\ phase' = [phase EXCEPT ![o] = "queued"]
      /\ keyOf' = [keyOf EXCEPT ![o] = s]
      /\ sessionOf' = [sessionOf EXCEPT ![o] = session]
      /\ request' = [request EXCEPT ![o] = r]
      /\ UNCHANGED session
  BY EnterIs DEF Install, BaseInv
<1>6. /\ UNCHANGED <<initialized, born, stage, target, ask, audience>>
      /\ installed' = [installed EXCEPT ![n] = o]
      /\ generation' = [generation EXCEPT ![n] = O!Generation]
      /\ ~Attached(n)
  BY DEF Install
<1>7. O!Generation = session + 1
  BY <1>3 DEF O!Generation
<1>8. installed[n] = NoOp \/ generation[n] # session + 1
  BY <1>6, <1>7 DEF Attached
<1>9. nodeMap' \in [Nodes -> Shadows \cup {NoShadow}]
  BY <1>1, <1>2, <1>3 DEF BaseInv, ChanType
<1>10. OpCalls(o, s, r)
  BY <1>1, <1>3, <1>4, <1>5, <1>6, <1>9 DEF OpCalls
<1> QED BY <1>1, <1>2, <1>3, <1>6, <1>7, <1>8, <1>10 DEF Installs

LEMMA DetachIs ==
  ASSUME BaseInv, NEW o \in Ops, Detach(o)
  PROVE  Detaches(o)
<1> DEFINE n == opNode[o]
           l == installed[n]
           s == nodeMap[n]
           r == [kind |-> "unsubscribe", node |-> n, callback |-> l]
<1>1. opPhase[o] = "queued" /\ Alone(o) /\ OpBecomes(o, "running") /\ n \in Nodes
  BY OpStarts DEF Detach, BaseInv, CallsFit
<1>2. ask[o].kind # "subscribe" /\ l # NoOp /\ l \in Ops
  BY <1>1 DEF Detach, Leaves, BaseInv, ChanType
<1>3. r.node = n
  OBVIOUS
<1>4. /\ initialized /\ s # NoShadow
      /\ O!Enter(o, r, s)
      /\ UNCHANGED <<initialized, born, O!mapVars, stage, target, wired>>
  BY <1>3 DEF Detach, O!Call
<1>5. s \in Shadows
  BY <1>1, <1>4 DEF BaseInv, ChanType
<1>6. /\ phase' = [phase EXCEPT ![o] = "queued"]
      /\ keyOf' = [keyOf EXCEPT ![o] = s]
      /\ sessionOf' = [sessionOf EXCEPT ![o] = session]
      /\ request' = [request EXCEPT ![o] = r]
      /\ UNCHANGED session
  BY <1>4, EnterIs DEF BaseInv
<1>7. UNCHANGED <<nodeMap, listeners>>
  BY <1>4 DEF O!mapVars
<1>8. nodeMap' \in [Nodes -> Shadows \cup {NoShadow}] /\ listeners' \in ListenerMaps
  BY <1>7 DEF BaseInv, ChanType, ListenerMaps
<1>9. /\ UNCHANGED ask
      /\ installed' = [installed EXCEPT ![n] = NoOp]
      /\ generation' = [generation EXCEPT ![n] = 0]
      /\ audience' = [audience EXCEPT ![l] = {}]
  BY DEF Detach, DropLocal
<1>10. OpCalls(o, s, r)
  BY <1>1, <1>4, <1>6, <1>7, <1>8, <1>9 DEF OpCalls
<1> QED BY <1>1, <1>2, <1>5, <1>7, <1>9, <1>10 DEF Detaches

-----------------------------------------------------------------------------
\* Every step is of one of the shapes.
Same == UNCHANGED <<opPhase, opNode, orchVars, ask, chanVars>>

Shape ==
  \/ \E o \in Ops :
       \/ \E n \in Nodes, a \in Ask : Call(o, n, a)
       \/ Quiet(o)
       \/ Drops(o)
       \/ Installs(o)
       \/ Detaches(o)
       \/ OrchestratorRuns(o)
  \/ Registers
  \/ Lifecycle
  \/ Same

LEMMA StepShape == BaseInv /\ [Next]_vars => Shape
<1> SUFFICES ASSUME BaseInv, [Next]_vars PROVE Shape
  OBVIOUS
<1>1. ASSUME NEW o \in Ops, Step(o) PROVE Shape
  <2>1. CASE SubscribeUninitialized(o) \/ Join(o) \/ Installed(o) \/ RemoveOne(o) \/ Detached(o)
    BY <2>1, UninitializedIs, JoinIs, InstalledIs, RemoveOneIs, DetachedIs DEF Shape
  <2>2. CASE RollBack(o) \/ DetachUnregistered(o)
    BY <2>2, RollBackIs, DetachUnregisteredIs DEF Shape
  <2>3. CASE Install(o)
    BY <2>3, InstallIs DEF Shape
  <2>4. CASE Detach(o)
    BY <2>4, DetachIs DEF Shape
  <2>5. CASE PurgeBinding(o)
    BY <2>5, PurgeRegisters DEF Shape, Same, BaseInv
  <2>6. CASE OrchestratorRuns(o)
    BY <2>6 DEF Shape
  <2> QED BY <1>1, <2>1, <2>2, <2>3, <2>4, <2>5, <2>6 DEF Step
<1>2. ASSUME NEW n \in Nodes, Others(n) PROVE Shape
  BY <1>2, OthersRegister DEF Shape, BaseInv
<1>3. CASE UNCHANGED vars
  BY <1>3 DEF vars, opVars, Shape, Same
<1> QED BY <1>1, <1>2, <1>3 DEF Next, Shape

LEMMA SameKeeps ==
  ASSUME BaseInv, Same
  PROVE  ChanType' /\ ChanInv'
<1>1. CallsStill /\ UNCHANGED <<nodeMap, listeners, opPhase, opNode, ask, installed, audience, generation>>
  BY DEF Same, CallsStill, orchVars, queueVars, chanVars
<1>2. ChanType'
  BY <1>1 DEF BaseInv, ChanType, CallsStill
<1>3. CallsFit' /\ InstallFindsItsSet'
  BY <1>1 DEF BaseInv, CallsFit, InstallFindsItsSet, CallsStill
<1>4. InstalledFits' /\ GivenUpIsNotInstalled'
  BY <1>1 DEF BaseInv, InstalledFits, GivenUpIsNotInstalled, CallsStill
<1> QED BY <1>2, <1>3, <1>4 DEF ChanInv

LEMMA StepBase == BaseInv /\ [Next]_vars => BaseInv'
<1> SUFFICES ASSUME BaseInv, [Next]_vars PROVE BaseInv'
  OBVIOUS
<1>1. ChanQueue'
  BY ChanQueueStep, StepOfQueue DEF BaseInv
<1>2. ChanType' /\ ChanInv'
  <2>1. CASE \E o \in Ops : Quiet(o)
    BY <2>1, EndingKeeps DEF Quiet
  <2>2. CASE \E o \in Ops : Drops(o)
    BY <2>2, DroppingKeeps DEF Drops
  <2>3. CASE \E o \in Ops : Installs(o)
    BY <2>3, InstallKeeps DEF Installs
  <2>4. CASE \E o \in Ops : Detaches(o)
    BY <2>4, DetachKeeps DEF Detaches
  <2> QED
    BY <2>1, <2>2, <2>3, <2>4, StepShape, AskingKeeps, RunningKeeps, LifecycleKeeps,
       RegistersKeeps, SameKeeps
    DEF Shape
<1> QED BY <1>1, <1>2 DEF BaseInv, ChanInv

LEMMA InitBase == Init => BaseInv
<1> SUFFICES ASSUME Init PROVE BaseInv
  OBVIOUS
<1>1. ChanQueue
  BY ChanQueueInit DEF Init
<1>2. /\ phase = [o \in Ops |-> "idle"]
      /\ keyOf = [o \in Ops |-> NoShadow]
      /\ sessionOf = [o \in Ops |-> 0]
      /\ session = 0
  BY DEF Init, O!Init, O!Q!Init
<1>3. ChanType
  <2>1. listeners \in [Shadows -> [Nodes -> SUBSET Ops]]
    BY DEF Init, O!Init, O!NoListeners
  <2>2. /\ request \in [Ops -> O!Request \cup {O!NoRequest}]
        /\ ask \in [Ops -> Ask \cup {[kind |-> "none"]}]
    BY DEF Init, O!Init
  <2>3. /\ stage \in [Ops -> {"none", "connecting", "wiring"}]
        /\ target \in [Ops -> Nat]
        /\ initialized \in BOOLEAN /\ born = 0
        /\ nodeMap \in [Nodes -> Shadows \cup {NoShadow}]
    BY DEF Init, O!Init
  <2>4. /\ installed \in [Nodes -> Ops \cup {NoOp}]
        /\ audience \in [Ops -> SUBSET Apps]
        /\ generation \in [Nodes -> Nat]
    BY DEF Init
  <2> QED BY <1>2, <2>1, <2>2, <2>3, <2>4 DEF ChanType, QueuePhases
<1>4. opPhase = [o \in Ops |-> "idle"]
  BY DEF Init, C!Init
<1>5. CallsFit /\ InstallFindsItsSet
  BY <1>2, <1>4 DEF Init, O!Init, CallsFit, InstallFindsItsSet, Settled
<1>6. InstalledFits /\ GivenUpIsNotInstalled
  <2>1. \A o \in Ops : request[o].kind = "none"
    BY DEF Init, O!Init, O!NoRequest
  <2> QED BY <2>1 DEF Init, InstalledFits, GivenUpIsNotInstalled
<1> QED BY <1>1, <1>3, <1>5, <1>6 DEF BaseInv

\* However sessions end and nodes are unregistered meanwhile: the entry a running
\* subscribe made is neither deleted nor replaced (installSubscriber after its await).
THEOREM InstallsFindTheirSets == Spec => []InstallFindsItsSet
<1>1. BaseInv => InstallFindsItsSet
  BY DEF BaseInv
<1> QED BY <1>1, InitBase, StepBase, PTL DEF Spec

\* The channel uses its chains as SerialQueue specifies.
THEOREM QueueImplemented == Spec => C!Spec
<1>1. Init => C!Init
  BY DEF Init
<1> QED BY <1>1, StepOfQueue, PTL DEF Spec, C!Spec

\* Two operations of one node never run together (runSerial over nodeOps, which
\* no session's end empties).
THEOREM Exclusion == Spec => []C!ExclusivePerSession
<1>1. BaseInv => C!ExclusivePerSession
  BY DEF BaseInv, ChanQueue, C!ExclusivePerSession, C!SameQueue, CP!ChainInv, CP!ChainIsTotal,
         CP!RunningHasNoneAhead, CP!Unsettled, CP!SameQueue
<1> QED BY <1>1, InitBase, StepBase, PTL DEF Spec

\* Whoever waits for a node has an operation of that node that runs or may run: the
\* channel's chains never stand still.
THEOREM NodesGoOn == IsFiniteSet(Ops) => (Spec => []C!SomebodyGoesOn)
<1> SUFFICES ASSUME IsFiniteSet(Ops) PROVE Spec => []C!SomebodyGoesOn
  OBVIOUS
<1>1. Spec => CP!Spec
  BY QueueImplemented, SameInit, SameStep, PTL DEF C!Spec, CP!Spec
<1>2. CP!Spec => []CP!SomebodyGoesOn
  <2>1. CP!IsFiniteSet(Ops)
    BY Zenon DEF IsFiniteSet, CP!IsFiniteSet
  <2> QED BY <2>1, CP!QueueGoesOn, ChannelAssumption
<1>3. CP!SomebodyGoesOn => C!SomebodyGoesOn
  BY DEF CP!SomebodyGoesOn, C!SomebodyGoesOn, CP!SameQueue, C!SameQueue, CP!Released, C!Released, CP!Outcome, C!Outcome
<1> QED BY <1>1, <1>2, <1>3, PTL

-----------------------------------------------------------------------------

LEMMA AttachesIs ==
  ASSUME ChanType, CallsFit, NEW c \in Ops, Attaches(c)
  PROVE  /\ keyOf[c] \in Shadows /\ opNode[c] \in Nodes
         /\ \A s \in Shadows, n \in Nodes :
              listeners'[s][n] = IF s = keyOf[c] /\ n = opNode[c]
                                 THEN listeners[s][n] \cup {c} ELSE listeners[s][n]
<1> DEFINE k == keyOf[c]
           m == opNode[c]
<1>1. /\ k \in Shadows /\ m \in Nodes
      /\ listeners' = [listeners EXCEPT ![k][m] = @ \cup {c}]
  BY WithListenerIs DEF Attaches
<1> HIDE DEF k, m
<1>2. \A s \in Shadows, n \in Nodes :
        listeners'[s][n] = IF s = k /\ n = m THEN listeners[s][n] \cup {c} ELSE listeners[s][n]
  BY <1>1 DEF ChanType
<1> QED BY <1>1, <1>2 DEF k, m

LEMMA RemovesIs ==
  ASSUME ChanType, CallsFit, NEW c \in Ops, Removes(c)
  PROVE  /\ keyOf[c] \in Shadows /\ opNode[c] \in Nodes
         /\ request[c].kind = "unsubscribe" /\ request[c].node = opNode[c]
         /\ \A s \in Shadows, n \in Nodes :
              listeners'[s][n] = IF s = keyOf[c] /\ n = opNode[c] /\ initialized /\ born <= sessionOf[c]
                                 THEN listeners[s][n] \ {request[c].callback} ELSE listeners[s][n]
<1> DEFINE k == keyOf[c]
           m == opNode[c]
           x == request[c].callback
<1>1. phase[c] # "idle" /\ k \in Shadows /\ m \in Nodes
  BY DEF Removes, CallsFit
<1>2. PICK l \in Ops : request[c] = [kind |-> "unsubscribe", node |-> m, callback |-> l]
  BY <1>1 DEF Removes, CallsFit
<1>3. request[c].kind = "unsubscribe" /\ request[c].node = m
  BY <1>2
<1>4. CASE initialized /\ born <= sessionOf[c]
  <2>1. listeners' = [listeners EXCEPT ![k][m] = @ \ {x}]
    BY <1>3, <1>4 DEF Removes
  <2> HIDE DEF k, m, x
  <2>2. \A s \in Shadows, n \in Nodes :
          listeners'[s][n] = IF s = k /\ n = m THEN listeners[s][n] \ {x} ELSE listeners[s][n]
    BY <1>1, <2>1 DEF ChanType
  <2> QED BY <1>1, <1>3, <1>4, <2>2 DEF k, m, x
<1>5. CASE ~(initialized /\ born <= sessionOf[c])
  BY <1>1, <1>3, <1>5 DEF Removes
<1> QED BY <1>4, <1>5

\* The node keeps its shadow while the session lasts.
StayedRegistered == session' = session => Kept

LEMMA RunningServed ==
  ASSUME BaseInv, InstalledServed, NEW c \in Ops, OrchestratorRuns(c)
  PROVE  InstalledServed'
<1>1. Runs(c) /\ UNCHANGED <<opVars, ask, chanVars>>
  BY RunHasEffect DEF BaseInv, OrchestratorRuns
<1>2. PICK p \in {"running", "resolved", "rejected"}, st \in {"none", "connecting", "wiring"}, t \in Nat :
        RunEffect(c, p, st, t)
  BY <1>1 DEF Runs
<1>3. UNCHANGED <<opNode, installed, keyOf, sessionOf, session, request>> /\ phase' = [phase EXCEPT ![c] = p]
  BY <1>1, <1>2 DEF opVars, chanVars, RunEffect, CallBecomes
<1> SUFFICES ASSUME NEW n \in Nodes, installed[n] # NoOp, sessionOf[installed[n]] = session,
                    phase'[installed[n]] = "resolved"
             PROVE  installed[n] \in listeners'[keyOf[installed[n]]][n]
  BY <1>3 DEF InstalledServed
<1> DEFINE l == installed[n]
<1>4. /\ l \in Ops /\ opNode[l] = n /\ ask[l].kind = "subscribe" /\ phase[l] # "idle" /\ keyOf[l] \in Shadows
      /\ sessionOf[l] = session
  BY DEF BaseInv, ChanType, InstalledFits, CallsFit
<1>5. CASE l = c
  <2>1. p = "resolved"
    BY <1>3, <1>5 DEF BaseInv, ChanType
  <2>2. ~(stage[c] = "wiring" /\ target[c] # session)
    <3>1. sessionOf[c] = session /\ target[c] \in Nat /\ session \in Nat
      BY <1>4, <1>5 DEF BaseInv, ChanType
    <3>2. stage[c] = "wiring" => sessionOf[c] <= target[c] /\ target[c] <= session
      BY DEF BaseInv, CallsFit
    <3> QED BY <3>1, <3>2
  <2>3. Attaches(c)
    BY <1>2, <1>4, <1>5, <2>1, <2>2 DEF RunEffect, Removes
  <2> QED BY <1>4, <1>5, <2>3, AttachesIs DEF BaseInv
<1>6. CASE l # c
  <2>1. l \in listeners[keyOf[l]][n]
    BY <1>3, <1>4, <1>6 DEF InstalledServed, BaseInv, ChanType
  <2>2. CASE UNCHANGED listeners
    BY <2>1, <2>2
  <2>3. CASE Attaches(c)
    <3>1. \A s \in Shadows, m \in Nodes : listeners[s][m] \subseteq listeners'[s][m]
      <4>1. \A s \in Shadows, m \in Nodes :
              listeners'[s][m] = IF s = keyOf[c] /\ m = opNode[c]
                                 THEN listeners[s][m] \cup {c} ELSE listeners[s][m]
        BY <2>3, AttachesIs DEF BaseInv
      <4> QED BY <4>1
    <3>2. listeners[keyOf[l]][n] \subseteq listeners'[keyOf[l]][n]
      BY <1>4, <3>1
    <3> QED BY <2>1, <3>2
  <2>4. CASE Removes(c)
    <3>1. request[c].kind = "unsubscribe"
      BY <2>4, RemovesIs DEF BaseInv
    <3>2. l # request[c].callback
      BY <3>1 DEF BaseInv, GivenUpIsNotInstalled
    <3>3. \A s \in Shadows, m \in Nodes :
            listeners'[s][m] \in {listeners[s][m], listeners[s][m] \ {request[c].callback}}
      <4>1. \A s \in Shadows, m \in Nodes :
              listeners'[s][m] = IF s = keyOf[c] /\ m = opNode[c] /\ initialized /\ born <= sessionOf[c]
                                 THEN listeners[s][m] \ {request[c].callback} ELSE listeners[s][m]
        BY <2>4, RemovesIs DEF BaseInv
      <4> DEFINE applies(s, m) == s = keyOf[c] /\ m = opNode[c] /\ initialized /\ born <= sessionOf[c]
      <4>2. \A s \in Shadows, m \in Nodes :
              listeners'[s][m] = IF applies(s, m)
                                 THEN listeners[s][m] \ {request[c].callback} ELSE listeners[s][m]
        BY <4>1
      <4> HIDE DEF applies
      <4> QED BY <4>2
    <3>4. listeners'[keyOf[l]][n] \in {listeners[keyOf[l]][n], listeners[keyOf[l]][n] \ {request[c].callback}}
      BY <1>4, <3>3
    <3> QED BY <2>1, <3>2, <3>4
  <2> QED BY <1>2, <2>2, <2>3, <2>4 DEF RunEffect
<1> QED BY <1>5, <1>6

\* What is installed and resolved stays attached.
LEMMA ServedStep ==
  ASSUME BaseInv, InstalledServed, Shape, StayedRegistered
  PROVE  InstalledServed'
<1>0. \A n \in Nodes : installed[n] # NoOp =>
        /\ installed[n] \in Ops /\ opNode[installed[n]] = n /\ phase[installed[n]] # "idle"
        /\ opPhase[installed[n]] \in {"running", "resolved"}
        /\ sessionOf[installed[n]] <= session /\ sessionOf[installed[n]] \in Nat
  BY DEF BaseInv, ChanType, InstalledFits, CallsFit
<1>1. ASSUME NEW o \in Ops, NEW n \in Nodes, NEW a \in Ask, Call(o, n, a)
      PROVE  InstalledServed'
  <2>1. UNCHANGED <<phase, keyOf, sessionOf, session, listeners, installed>>
    BY <1>1 DEF Call, orchVars, queueVars, chanVars
  <2> QED BY <2>1 DEF InstalledServed
<1>2. ASSUME NEW o \in Ops, Quiet(o) PROVE InstalledServed'
  <2>1. UNCHANGED <<phase, keyOf, sessionOf, session, installed>>
    BY <1>2 DEF Quiet, OpEnds, CallsStill
  <2>2. UNCHANGED listeners
    BY <1>2, <2>1 DEF Quiet, OpEnds, StayedRegistered
  <2> QED BY <2>1, <2>2 DEF InstalledServed
<1>3. ASSUME NEW o \in Ops, Drops(o) PROVE InstalledServed'
  <2>1. /\ UNCHANGED <<phase, keyOf, sessionOf, session, listeners>>
        /\ installed' = [installed EXCEPT ![opNode[o]] = NoOp]
    BY <1>3 DEF Drops, OpEnds, CallsStill
  <2> QED BY <2>1 DEF InstalledServed, BaseInv, ChanType
<1>4. ASSUME NEW o \in Ops, Installs(o) PROVE InstalledServed'
  <2>1. /\ opPhase[o] = "queued"
        /\ phase' = [phase EXCEPT ![o] = "queued"]
        /\ \A q \in Ops : q # o => keyOf'[q] = keyOf[q] /\ sessionOf'[q] = sessionOf[q]
        /\ UNCHANGED session
        /\ installed' = [installed EXCEPT ![opNode[o]] = o]
    BY <1>4 DEF Installs, OpCalls, BaseInv, ChanType
  <2>2. UNCHANGED listeners
    BY <1>4, <2>1 DEF Installs, OpCalls, StayedRegistered
  <2> QED BY <1>0, <2>1, <2>2 DEF InstalledServed, BaseInv, ChanType
<1>5. ASSUME NEW o \in Ops, Detaches(o) PROVE InstalledServed'
  <2>1. /\ opPhase[o] = "queued"
        /\ phase' = [phase EXCEPT ![o] = "queued"]
        /\ \A q \in Ops : q # o => keyOf'[q] = keyOf[q] /\ sessionOf'[q] = sessionOf[q]
        /\ UNCHANGED <<session, listeners>>
        /\ installed' = [installed EXCEPT ![opNode[o]] = NoOp]
    BY <1>5 DEF Detaches, OpCalls, BaseInv, ChanType
  <2> QED BY <1>0, <2>1 DEF InstalledServed, BaseInv, ChanType
<1>6. CASE Registers
  <2>1. UNCHANGED <<phase, keyOf, sessionOf, session, installed>>
    BY <1>6 DEF Registers, CallsStill
  <2>2. UNCHANGED listeners
    BY <1>6, <2>1 DEF Registers, StayedRegistered
  <2> QED BY <2>1, <2>2 DEF InstalledServed
<1>7. CASE Lifecycle
  <2>1. CASE Ends
    BY <1>0, <2>1 DEF Ends, InstalledServed, BaseInv, ChanType
  <2>2. CASE UNCHANGED <<phase, keyOf, sessionOf, session, installed, listeners>>
    BY <2>2 DEF InstalledServed
  <2> QED BY <1>7, <2>1, <2>2, LifecycleEffect DEF BaseInv
<1>8. CASE Same
  <2>1. UNCHANGED <<phase, keyOf, sessionOf, session, listeners, installed>>
    BY <1>8 DEF Same, orchVars, queueVars, chanVars
  <2> QED BY <2>1 DEF InstalledServed
<1> QED
  BY <1>1, <1>2, <1>3, <1>4, <1>5, <1>6, <1>7, <1>8, RunningServed DEF Shape

\* With nothing running, the generation tells the session of the listener's call.
LEMMA AllServed == BaseInv /\ InstalledServed => SubscribersServed
<1> SUFFICES ASSUME BaseInv, InstalledServed, NEW n \in Nodes, initialized, Attached(n),
                    \A o \in Ops : opNode[o] = n => opPhase[o] # "running"
             PROVE  Served(n)
  BY DEF SubscribersServed
<1> DEFINE l == installed[n]
<1>1. /\ l \in Ops /\ l # NoOp /\ generation[n] = session + 1
  BY DEF Attached, O!Generation, BaseInv, ChanType
<1>2. /\ opNode[l] = n /\ opPhase[l] \in {"running", "resolved"} /\ phase[l] # "idle"
      /\ opPhase[l] = "resolved" => phase[l] = "resolved"
      /\ generation[n] = sessionOf[l] + 1
  BY <1>1 DEF BaseInv, InstalledFits
<1>3. phase[l] = "resolved"
  BY <1>1, <1>2
<1>4. sessionOf[l] = session
  <2>1. sessionOf[l] \in Nat /\ session \in Nat
    BY <1>1 DEF BaseInv, ChanType
  <2> HIDE DEF l
  <2> QED BY <1>1, <1>2, <2>1
<1>5. l \in listeners[keyOf[l]][n]
  BY <1>1, <1>3, <1>4 DEF InstalledServed
<1>6. keyOf[l] \in Shadows
  BY <1>1, <1>2 DEF BaseInv, CallsFit
<1> QED BY <1>5, <1>6 DEF Served

ServedInv == BaseInv /\ (~unregistered => InstalledServed)

LEMMA StepServed == ServedInv /\ [MCNext]_MCvars => ServedInv'
<1> SUFFICES ASSUME ServedInv, [MCNext]_MCvars PROVE ServedInv'
  OBVIOUS
<1>1. BaseInv /\ BaseInv' /\ Shape
  BY StepBase, StepShape DEF ServedInv, MCNext, MCvars
<1>2. CASE UNCHANGED MCvars
  <2>1. UNCHANGED <<phase, keyOf, sessionOf, session, listeners, installed, unregistered>>
    BY <1>2 DEF MCvars, vars, orchVars, queueVars, chanVars
  <2> QED BY <1>1, <2>1 DEF ServedInv, InstalledServed
<1>3. CASE MCNext /\ ~unregistered'
  <2>1. StayedRegistered /\ ~unregistered
    BY <1>3 DEF MCNext, StayedRegistered, Kept
  <2> QED BY <1>1, <2>1, ServedStep DEF ServedInv
<1>4. CASE MCNext /\ unregistered'
  BY <1>1, <1>4 DEF ServedInv
<1> QED BY <1>2, <1>3, <1>4

LEMMA InitServed == MCInit => ServedInv
BY InitBase DEF MCInit, Init, ServedInv, InstalledServed

\* Sessions ending at any moment: a listener that the channel believes attached in the
\* running session is attached, unless the node lost its shadow (installSubscriber's
\* generation check and rollback).
THEOREM RegisteredAreServed == MCSpec => []ServedWhileRegistered
<1>1. ServedInv => ServedWhileRegistered
  BY AllServed DEF ServedInv, ServedWhileRegistered
<1> QED BY <1>1, InitServed, StepServed, PTL DEF MCSpec

\* Only Join and Installed resolve a subscribe; nobody else then runs for the node.
LEMMA ResolvingStep ==
  ServedInv /\ ServedWhileRegistered' /\ [MCNext]_MCvars
    => [~unregistered' => SubscribeResolvesServed]_MCvars
<1> SUFFICES ASSUME ServedInv, ServedWhileRegistered', MCNext, ~unregistered',
                    NEW o \in Ops, ask[o].kind = "subscribe",
                    opPhase[o] # "resolved", opPhase'[o] = "resolved",
                    initialized', generation'[opNode[o]] = O!Generation'
             PROVE  Served(opNode[o])'
  BY DEF SubscribeResolvesServed
<1>1. BaseInv /\ Shape
  BY StepShape DEF ServedInv, MCNext
<1>2. Quiet(o)
  <2>1. ASSUME NEW q \in Ops, NEW n \in Nodes, NEW a \in Ask, Call(q, n, a) PROVE FALSE
    BY <1>1, <2>1, OpType DEF BaseInv, Call, C!Enqueue
  <2>2. ASSUME NEW q \in Ops, Quiet(q) PROVE q = o
    BY <1>1, <2>2, OpType DEF BaseInv, Quiet, OpEnds, OpBecomes
  <2>3. ASSUME NEW q \in Ops, Drops(q) PROVE FALSE
    <3>1. q = o
      BY <1>1, <2>3, OpType DEF BaseInv, Drops, OpEnds, OpBecomes
    <3> QED BY <1>1, <2>3, <3>1, OpType DEF BaseInv, Drops, OpEnds, OpBecomes
  <2>4. ASSUME NEW q \in Ops, Installs(q) \/ Detaches(q) PROVE FALSE
    BY <1>1, <2>4, OpType DEF BaseInv, Installs, Detaches, OpCalls, OpBecomes
  <2>5. ASSUME NEW q \in Ops, OrchestratorRuns(q) PROVE FALSE
    BY <2>5 DEF OrchestratorRuns, opVars
  <2>6. ~Registers /\ ~Lifecycle /\ ~Same
    BY DEF Registers, Lifecycle, Same, opVars
  <2> QED BY <1>1, <2>1, <2>2, <2>3, <2>4, <2>5, <2>6 DEF Shape
<1>3. PICK p \in Settled :
        /\ OpBecomes(o, p) /\ Alone(o) /\ opNode[o] \in Nodes /\ UNCHANGED installed
        /\ p = "resolved" => installed[opNode[o]] # NoOp
  BY <1>2 DEF Quiet, OpEnds
<1>4. p = "resolved"
  BY <1>1, <1>3, OpType DEF BaseInv, OpBecomes
<1>5. Attached(opNode[o])'
  BY <1>3, <1>4 DEF Attached, OpBecomes
<1>6. \A q \in Ops : opNode'[q] = opNode[o] => opPhase'[q] # "running"
  BY <1>1, <1>3, <1>4, OpType DEF BaseInv, OpBecomes, Alone
<1>7. UNCHANGED opNode
  BY <1>3 DEF OpBecomes
<1> QED BY <1>3, <1>5, <1>6, <1>7 DEF ServedWhileRegistered, SubscribersServed

\* A subscribe that resolves leaves its listener attached, unless the node lost its
\* shadow (subscribe's comment on the chain).
THEOREM ResolvingServes == MCSpec => ResolvesServed
BY InitServed, StepServed, RegisteredAreServed, ResolvingStep, PTL DEF MCSpec, ResolvesServed

-----------------------------------------------------------------------------
\* What holds in addition when no session's end cut into an operation.
UncutInv == RunningIsOfSession /\ AttachedFits /\ AttachedCurrent

LEMMA UncutQuiet ==
  ASSUME BaseInv, UncutInv, NEW o \in Ops, Quiet(o), StayedRegistered
  PROVE  UncutInv'
<1>1. /\ UNCHANGED <<phase, keyOf, sessionOf, session, request, ask, opNode, installed>>
      /\ opNode[o] \in Nodes
      /\ \A l \in Ops : l # installed[opNode[o]] => audience'[l] = audience[l]
      /\ phase[o] \notin {"queued", "running"}
      /\ \A q \in Ops : q # o => opPhase'[q] = opPhase[q]
      /\ \A q \in Ops : opPhase'[q] = "running" => opPhase[q] = "running"
  BY OpType DEF Quiet, OpEnds, OpBecomes, CallsStill, BaseInv, Settled
<1>2. Kept /\ UNCHANGED listeners
  BY <1>1 DEF Quiet, OpEnds, StayedRegistered
<1>3. RunningIsOfSession'
  <2> SUFFICES ASSUME NEW q \in Ops, opPhase'[q] = "running"
               PROVE  sessionOf[q] = session /\ nodeMap'[opNode[q]] = keyOf[q]
    BY <1>1 DEF RunningIsOfSession
  <2>1. opPhase[q] = "running"
    BY <1>1
  <2>2. opNode[q] \in Nodes /\ keyOf[q] \in Shadows
    BY <2>1 DEF BaseInv, CallsFit
  <2> QED BY <1>2, <2>1, <2>2, ChannelAssumption DEF UncutInv, RunningIsOfSession, Kept
<1>4. AttachedFits'
  BY <1>1, <1>2, ChannelAssumption DEF UncutInv, AttachedFits, Kept
<1>5. AttachedCurrent'
  <2> SUFFICES ASSUME NEW s \in Shadows, NEW n \in Nodes, NEW l \in listeners[s][n],
                      installed[n] # l
               PROVE  audience'[l] = {} /\ Leaving(s, n, l)'
    BY <1>1, <1>2 DEF AttachedCurrent
  <2>1. audience[l] = {} /\ Leaving(s, n, l) /\ opNode[l] = n /\ l \in Ops
    BY DEF UncutInv, AttachedCurrent, AttachedFits, BaseInv, ChanType
  <2>2. l # installed[opNode[o]]
    BY <1>1, <2>1, ChannelAssumption DEF BaseInv, InstalledFits
  <2>3. audience'[l] = {}
    BY <1>1, <2>1, <2>2
  <2>4. Leaving(s, n, l)'
    BY <1>1, <2>1 DEF Leaving
  <2> QED BY <2>3, <2>4
<1> QED BY <1>3, <1>4, <1>5 DEF UncutInv

\* Nothing of the node is attached any more when its entry is dropped.
LEMMA DropsNothingAttached ==
  ASSUME BaseInv, UncutInv, NEW o \in Ops, Drops(o), NEW s \in Shadows
  PROVE  listeners[s][opNode[o]] = {}
<1> DEFINE n == opNode[o]
<1> SUFFICES ASSUME NEW l \in listeners[s][n] PROVE FALSE
  OBVIOUS
<1>1. n \in Nodes /\ Alone(o)
  BY DEF Drops
<1>2. /\ l \in Ops /\ opNode[l] = n /\ phase[l] = "resolved" /\ sessionOf[l] = session
      /\ nodeMap[n] = s
  BY <1>1 DEF UncutInv, AttachedFits, BaseInv, ChanType
<1>3. initialized /\ nodeMap[n] # NoShadow
  BY <1>2, ChannelAssumption DEF BaseInv, CallsFit
<1>4. ask[o].kind = "subscribe" /\ phase[o] = "rejected"
  BY <1>3 DEF Drops
<1>5. opPhase[o] = "running"
  BY <1>4 DEF Drops, OpEnds, BaseInv, CallsFit
<1>6. installed[n] = o
  BY <1>4, <1>5 DEF BaseInv, InstallFindsItsSet
<1>7. l # o
  BY <1>2, <1>4
<1>8. Leaving(s, n, l)
  BY <1>1, <1>6, <1>7 DEF UncutInv, AttachedCurrent
<1>9. PICK q \in Ops : /\ opPhase[q] = "running" /\ phase[q] = "queued"
                       /\ request[q] = [kind |-> "unsubscribe", node |-> n, callback |-> l]
  BY <1>8 DEF Leaving
<1>10. request[q].kind = "unsubscribe" /\ request[q].node = n
  BY <1>9
<1>11. opNode[q] = n
  BY <1>10, UnsubscribeIs DEF BaseInv
<1> QED BY <1>1, <1>4, <1>9, <1>11 DEF Alone

LEMMA UncutDrops ==
  ASSUME BaseInv, UncutInv, NEW o \in Ops, Drops(o)
  PROVE  UncutInv'
<1>1. /\ UNCHANGED <<phase, keyOf, sessionOf, session, request, ask, opNode, listeners, nodeMap>>
      /\ opNode[o] \in Nodes
      /\ installed' = [installed EXCEPT ![opNode[o]] = NoOp]
      /\ \A l \in Ops : audience'[l] \in {audience[l], {}}
      /\ phase[o] \notin {"queued", "running"}
      /\ \A q \in Ops : q # o => opPhase'[q] = opPhase[q]
      /\ \A q \in Ops : opPhase'[q] = "running" => opPhase[q] = "running"
  BY OpType DEF Drops, OpEnds, OpBecomes, CallsStill, BaseInv, Settled
<1>2. RunningIsOfSession'
  BY <1>1 DEF UncutInv, RunningIsOfSession
<1>3. AttachedFits'
  BY <1>1 DEF UncutInv, AttachedFits
<1>4. AttachedCurrent'
  <2> SUFFICES ASSUME NEW s \in Shadows, NEW n \in Nodes, NEW l \in listeners[s][n],
                      installed'[n] # l
               PROVE  audience'[l] = {} /\ Leaving(s, n, l)'
    BY <1>1 DEF AttachedCurrent
  <2>1. n # opNode[o]
    BY DropsNothingAttached
  <2>2. installed[n] # l
    BY <1>1, <2>1 DEF BaseInv, ChanType
  <2>3. audience[l] = {} /\ Leaving(s, n, l) /\ l \in Ops
    BY <2>2 DEF UncutInv, AttachedCurrent, BaseInv, ChanType
  <2>4. audience'[l] = {}
    BY <1>1, <2>3
  <2>5. Leaving(s, n, l)'
    BY <1>1, <2>3 DEF Leaving
  <2> QED BY <2>4, <2>5
<1> QED BY <1>2, <1>3, <1>4 DEF UncutInv

LEMMA LeavingIs ==
  ASSUME BaseInv, NEW s, NEW n, NEW l, Leaving(s, n, l)
  PROVE  \E q \in Ops : /\ opPhase[q] = "running" /\ phase[q] = "queued" /\ opNode[q] = n
                        /\ keyOf[q] = s
                        /\ request[q] = [kind |-> "unsubscribe", node |-> n, callback |-> l]
<1>1. PICK q \in Ops : /\ opPhase[q] = "running" /\ phase[q] = "queued" /\ keyOf[q] = s
                       /\ request[q] = [kind |-> "unsubscribe", node |-> n, callback |-> l]
  BY DEF Leaving
<1>2. request[q].kind = "unsubscribe" /\ request[q].node = n
  BY <1>1
<1>3. opNode[q] = n
  BY <1>2, UnsubscribeIs DEF BaseInv
<1> QED BY <1>1, <1>3

LEMMA NobodyLeaves ==
  ASSUME BaseInv, NEW o \in Ops, Alone(o), opPhase[o] = "queued", NEW s, NEW l
  PROVE  ~Leaving(s, opNode[o], l)
<1> SUFFICES ASSUME Leaving(s, opNode[o], l) PROVE FALSE
  OBVIOUS
<1> DEFINE n == opNode[o]
<1> HIDE DEF n
<1>1. PICK q \in Ops : /\ opPhase[q] = "running" /\ phase[q] = "queued" /\ opNode[q] = n
                       /\ keyOf[q] = s
                       /\ request[q] = [kind |-> "unsubscribe", node |-> n, callback |-> l]
  BY LeavingIs DEF n
<1> QED BY <1>1 DEF Alone, n

\* A fresh listener replaces none that is attached.
LEMMA InstallsOnNothing ==
  ASSUME BaseInv, UncutInv, NEW o \in Ops, Installs(o), NEW s \in Shadows
  PROVE  listeners[s][opNode[o]] = {}
<1> DEFINE n == opNode[o]
<1> SUFFICES ASSUME NEW l \in listeners[s][n] PROVE FALSE
  OBVIOUS
<1>1. /\ n \in Nodes /\ Alone(o) /\ opPhase[o] = "queued"
      /\ installed[n] = NoOp \/ generation[n] # session + 1
  BY DEF Installs, OpCalls
<1>2. l \in Ops /\ sessionOf[l] = session
  BY <1>1 DEF UncutInv, AttachedFits, BaseInv, ChanType
<1>3. ~Leaving(s, n, l)
  BY <1>1, NobodyLeaves
<1>4. installed[n] = l
  BY <1>1, <1>3 DEF UncutInv, AttachedCurrent
<1>5. generation[n] = session + 1
  BY <1>1, <1>2, <1>4, ChannelAssumption DEF BaseInv, InstalledFits
<1> QED BY <1>1, <1>2, <1>4, <1>5, ChannelAssumption

LEMMA UncutInstalls ==
  ASSUME BaseInv, UncutInv, NEW o \in Ops, Installs(o), StayedRegistered
  PROVE  UncutInv'
<1>1. PICK k \in Shadows :
        /\ OpCalls(o, k, [kind |-> "subscribe", node |-> opNode[o], callback |-> o])
        /\ nodeMap' = [nodeMap EXCEPT ![opNode[o]] = k]
        /\ Alone(o) /\ opNode[o] \in Nodes /\ UNCHANGED audience
        /\ installed' = [installed EXCEPT ![opNode[o]] = o]
  BY DEF Installs
<1>2. /\ opPhase[o] = "queued" /\ phase[o] = "idle"
      /\ opPhase'[o] = "running" /\ phase'[o] = "queued"
      /\ keyOf'[o] = k /\ sessionOf'[o] = session
      /\ \A q \in Ops : q # o => /\ opPhase'[q] = opPhase[q] /\ phase'[q] = phase[q]
                                 /\ keyOf'[q] = keyOf[q] /\ sessionOf'[q] = sessionOf[q]
                                 /\ request'[q] = request[q]
      /\ UNCHANGED <<session, ask, opNode>>
  BY <1>1, OpType DEF OpCalls, OpBecomes, BaseInv, ChanType, CallsFit
<1>3. Kept /\ UNCHANGED listeners
  BY <1>1, <1>2 DEF OpCalls, StayedRegistered
<1>4. RunningIsOfSession'
  <2> SUFFICES ASSUME NEW q \in Ops, opPhase'[q] = "running"
               PROVE  sessionOf'[q] = session /\ nodeMap'[opNode[q]] = keyOf'[q]
    BY <1>2 DEF RunningIsOfSession
  <2>1. CASE q = o
    BY <1>1, <1>2, <2>1 DEF BaseInv, ChanType
  <2>2. CASE q # o
    <3>1. opPhase[q] = "running" /\ opNode[q] \in Nodes
      BY <1>2, <2>2 DEF BaseInv, CallsFit
    <3>2. opNode[q] # opNode[o]
      BY <1>1, <2>2, <3>1 DEF Alone
    <3> QED BY <1>1, <1>2, <2>2, <3>1, <3>2 DEF BaseInv, ChanType, UncutInv, RunningIsOfSession
  <2> QED BY <2>1, <2>2
<1>5. \A s \in Shadows, n \in Nodes : \A l \in listeners[s][n] :
        l \in Ops /\ opNode[l] = n /\ n # opNode[o] /\ phase[l] = "resolved" /\ l # o
  BY <1>2, InstallsOnNothing DEF UncutInv, AttachedFits, BaseInv, ChanType
<1>6. AttachedFits'
  BY <1>1, <1>2, <1>3, <1>5 DEF UncutInv, AttachedFits, BaseInv, ChanType
<1>7. AttachedCurrent'
  <2> SUFFICES ASSUME NEW s \in Shadows, NEW n \in Nodes, NEW l \in listeners[s][n],
                      installed'[n] # l
               PROVE  audience[l] = {} /\ Leaving(s, n, l)'
    BY <1>1, <1>3 DEF AttachedCurrent
  <2>1. installed[n] # l
    BY <1>1, <1>5 DEF BaseInv, ChanType
  <2>2. audience[l] = {} /\ Leaving(s, n, l)
    BY <2>1 DEF UncutInv, AttachedCurrent
  <2>3. Leaving(s, n, l)'
    BY <1>2, <2>2 DEF Leaving
  <2> QED BY <2>2, <2>3
<1> QED BY <1>4, <1>6, <1>7 DEF UncutInv

LEMMA UncutDetaches ==
  ASSUME BaseInv, UncutInv, NEW o \in Ops, Detaches(o)
  PROVE  UncutInv'
<1>1. PICK k \in Shadows, x \in Ops :
        /\ OpCalls(o, k, [kind |-> "unsubscribe", node |-> opNode[o], callback |-> x])
        /\ Alone(o) /\ opNode[o] \in Nodes
        /\ installed[opNode[o]] = x
        /\ UNCHANGED <<nodeMap, listeners>> /\ nodeMap[opNode[o]] = k
        /\ audience' = [audience EXCEPT ![x] = {}]
        /\ installed' = [installed EXCEPT ![opNode[o]] = NoOp]
  BY DEF Detaches
<1>2. /\ opPhase[o] = "queued" /\ phase[o] = "idle"
      /\ opPhase'[o] = "running" /\ phase'[o] = "queued"
      /\ keyOf'[o] = k /\ sessionOf'[o] = session
      /\ request'[o] = [kind |-> "unsubscribe", node |-> opNode[o], callback |-> x]
      /\ \A q \in Ops : q # o => /\ opPhase'[q] = opPhase[q] /\ phase'[q] = phase[q]
                                 /\ keyOf'[q] = keyOf[q] /\ sessionOf'[q] = sessionOf[q]
                                 /\ request'[q] = request[q]
      /\ UNCHANGED <<session, ask, opNode>>
  BY <1>1, OpType DEF OpCalls, OpBecomes, BaseInv, ChanType, CallsFit
<1>3. RunningIsOfSession'
  BY <1>1, <1>2 DEF UncutInv, RunningIsOfSession
<1>4. AttachedFits'
  <2>1. \A s \in Shadows, n \in Nodes : \A l \in listeners[s][n] : l \in Ops /\ l # o
    BY <1>2 DEF UncutInv, AttachedFits, BaseInv, ChanType
  <2> QED BY <1>1, <1>2, <2>1 DEF UncutInv, AttachedFits
<1>5. AttachedCurrent'
  <2> SUFFICES ASSUME NEW s \in Shadows, NEW n \in Nodes, NEW l \in listeners[s][n],
                      installed'[n] # l
               PROVE  audience'[l] = {} /\ Leaving(s, n, l)'
    BY <1>1 DEF AttachedCurrent
  <2>0. l \in Ops /\ opNode[l] = n /\ nodeMap[n] = s
    BY DEF UncutInv, AttachedFits, BaseInv, ChanType
  <2>1. CASE n = opNode[o]
    <3>1. ~Leaving(s, n, l)
      BY <1>1, <1>2, <2>1, NobodyLeaves
    <3>2. l = x
      BY <1>1, <2>1, <3>1 DEF UncutInv, AttachedCurrent
    <3>3. audience'[l] = {}
      BY <1>1, <3>2 DEF BaseInv, ChanType
    <3>4. s = k
      BY <1>1, <2>0, <2>1
    <3>5. Leaving(s, n, l)'
      BY <1>2, <2>1, <3>2, <3>4 DEF Leaving
    <3> QED BY <3>3, <3>5
  <2>2. CASE n # opNode[o]
    <3>1. installed[n] # l
      BY <1>1, <2>2 DEF BaseInv, ChanType
    <3>2. audience[l] = {} /\ Leaving(s, n, l)
      BY <3>1 DEF UncutInv, AttachedCurrent
    <3>3. audience'[l] = {}
      BY <1>1, <2>0, <3>2 DEF BaseInv, ChanType
    <3>4. Leaving(s, n, l)'
      BY <1>2, <3>2 DEF Leaving
    <3> QED BY <3>3, <3>4
  <2> QED BY <2>1, <2>2
<1> QED BY <1>3, <1>4, <1>5 DEF UncutInv

LEMMA UncutRuns ==
  ASSUME BaseInv, UncutInv, NEW c \in Ops, OrchestratorRuns(c)
  PROVE  UncutInv'
<1>1. Runs(c) /\ UNCHANGED <<opVars, ask, chanVars>>
  BY RunHasEffect DEF BaseInv, OrchestratorRuns
<1>2. PICK p \in {"running", "resolved", "rejected"}, st \in {"none", "connecting", "wiring"}, t \in Nat :
        RunEffect(c, p, st, t)
  BY <1>1 DEF Runs
<1>3. /\ UNCHANGED <<opPhase, opNode, ask, installed, audience, keyOf, sessionOf, session, request, nodeMap>>
      /\ phase[c] \in {"queued", "running"}
      /\ phase'[c] = p
      /\ \A q \in Ops : q # c => phase'[q] = phase[q]
  BY <1>1, <1>2 DEF opVars, chanVars, RunEffect, CallBecomes, BaseInv, ChanType
<1>4. opPhase[c] = "running"
  BY <1>1, <1>2, RunningFits DEF BaseInv
<1>5. RunningIsOfSession'
  BY <1>3 DEF UncutInv, RunningIsOfSession
<1>6. \A s \in Shadows, n \in Nodes : \A l \in listeners[s][n] : l # c
  BY <1>3 DEF UncutInv, AttachedFits
<1>7. CASE ask[c].kind = "subscribe" /\ (UNCHANGED listeners \/ (p = "resolved" /\ Attaches(c)))
  <2>0. request[c] = [kind |-> "subscribe", node |-> opNode[c], callback |-> c]
    BY <1>3, <1>7 DEF BaseInv, CallsFit
  <2>1. request[c].kind = "subscribe"
    BY <2>0
  <2>2. \A s \in Shadows, n \in Nodes : \A l \in listeners'[s][n] :
          l \in listeners[s][n] \/ (l = c /\ s = keyOf[c] /\ n = opNode[c] /\ p = "resolved")
    <3>1. CASE UNCHANGED listeners
      BY <3>1
    <3>2. CASE p = "resolved" /\ Attaches(c)
      <4>1. \A s \in Shadows, n \in Nodes :
              listeners'[s][n] = IF s = keyOf[c] /\ n = opNode[c]
                                 THEN listeners[s][n] \cup {c} ELSE listeners[s][n]
        BY <3>2, AttachesIs DEF BaseInv
      <4> SUFFICES ASSUME NEW s \in Shadows, NEW n \in Nodes, NEW l \in listeners'[s][n],
                          l \notin listeners[s][n]
                   PROVE  l = c /\ s = keyOf[c] /\ n = opNode[c]
        BY <3>2
      <4>2. CASE s = keyOf[c] /\ n = opNode[c]
        BY <4>1, <4>2
      <4>3. CASE ~(s = keyOf[c] /\ n = opNode[c])
        BY <4>1, <4>3
      <4> QED BY <4>2, <4>3
    <3> QED BY <1>7, <3>1, <3>2
  <2>3. AttachedFits'
    <3> SUFFICES ASSUME NEW s \in Shadows, NEW n \in Nodes, NEW l \in listeners'[s][n]
                 PROVE  /\ opNode[l] = n
                        /\ ask[l].kind = "subscribe"
                        /\ phase'[l] = "resolved"
                        /\ sessionOf[l] = session
                        /\ nodeMap[n] = s
      BY <1>3 DEF AttachedFits
    <3>1. CASE l \in listeners[s][n]
      BY <1>3, <1>6, <3>1 DEF UncutInv, AttachedFits, BaseInv, ChanType
    <3>2. CASE l = c /\ s = keyOf[c] /\ n = opNode[c] /\ p = "resolved"
      BY <1>3, <1>4, <1>7, <3>2 DEF UncutInv, RunningIsOfSession
    <3> QED BY <2>2, <3>1, <3>2
  <2>4. AttachedCurrent'
    <3> SUFFICES ASSUME NEW s \in Shadows, NEW n \in Nodes, NEW l \in listeners'[s][n],
                        installed[n] # l
                 PROVE  audience[l] = {} /\ Leaving(s, n, l)'
      BY <1>3 DEF AttachedCurrent
    <3>1. l \in listeners[s][n]
      BY <1>4, <1>7, <2>2 DEF BaseInv, InstallFindsItsSet
    <3>2. audience[l] = {} /\ Leaving(s, n, l)
      BY <3>1 DEF UncutInv, AttachedCurrent
    <3>3. PICK q \in Ops : /\ opPhase[q] = "running" /\ phase[q] = "queued" /\ keyOf[q] = s
                           /\ request[q] = [kind |-> "unsubscribe", node |-> n, callback |-> l]
      BY <3>2 DEF Leaving
    <3>4. q # c
      BY <2>1, <3>3
    <3>5. Leaving(s, n, l)'
      BY <1>3, <3>3, <3>4 DEF Leaving
    <3> QED BY <3>2, <3>5
  <2> QED BY <1>5, <2>3, <2>4 DEF UncutInv
<1>8. CASE Removes(c)
  <2>0. /\ keyOf[c] \in Shadows /\ opNode[c] \in Nodes
        /\ request[c].kind = "unsubscribe" /\ request[c].node = opNode[c]
        /\ \A s \in Shadows, n \in Nodes :
             listeners'[s][n] = IF s = keyOf[c] /\ n = opNode[c] /\ initialized /\ born <= sessionOf[c]
                                THEN listeners[s][n] \ {request[c].callback} ELSE listeners[s][n]
    BY <1>8, RemovesIs DEF BaseInv
  <2>1. sessionOf[c] = session /\ initialized /\ born <= session
    BY <1>3, <1>4 DEF UncutInv, RunningIsOfSession, BaseInv, ChanType, CallsFit
  <2>2. \A s \in Shadows, n \in Nodes :
          listeners'[s][n] = IF s = keyOf[c] /\ n = opNode[c]
                             THEN listeners[s][n] \ {request[c].callback} ELSE listeners[s][n]
    BY <2>0, <2>1
  <2>3. AttachedFits'
    <3>1. \A s \in Shadows, n \in Nodes : listeners'[s][n] \subseteq listeners[s][n]
      BY <2>2
    <3> QED BY <1>3, <1>6, <3>1 DEF UncutInv, AttachedFits, BaseInv, ChanType
  <2>4. AttachedCurrent'
    <3> SUFFICES ASSUME NEW s \in Shadows, NEW n \in Nodes, NEW l \in listeners'[s][n],
                        installed[n] # l
                 PROVE  audience[l] = {} /\ Leaving(s, n, l)'
      BY <1>3 DEF AttachedCurrent
    <3>1. l \in listeners[s][n]
      BY <2>2
    <3>2. audience[l] = {} /\ Leaving(s, n, l)
      BY <3>1 DEF UncutInv, AttachedCurrent
    <3>3. PICK q \in Ops : /\ opPhase[q] = "running" /\ phase[q] = "queued" /\ opNode[q] = n
                           /\ keyOf[q] = s
                           /\ request[q] = [kind |-> "unsubscribe", node |-> n, callback |-> l]
      BY <3>2, LeavingIs
    <3>4. request[q].callback = l
      BY <3>3
    <3>5. q # c
      BY <2>2, <3>3, <3>4
    <3>6. Leaving(s, n, l)'
      BY <1>3, <3>3, <3>5 DEF Leaving
    <3> QED BY <3>2, <3>6
  <2> QED BY <1>5, <2>3, <2>4 DEF UncutInv
<1> QED BY <1>2, <1>7, <1>8 DEF RunEffect, Attaches

LEMMA UncutAsks ==
  ASSUME BaseInv, UncutInv, NEW o \in Ops, NEW n \in Nodes, NEW a \in Ask, Call(o, n, a)
  PROVE  UncutInv'
<1>1. /\ opPhase[o] = "idle" /\ phase[o] = "idle"
      /\ opPhase' = [opPhase EXCEPT ![o] = "queued"]
      /\ opNode' = [opNode EXCEPT ![o] = n]
      /\ ask' = [ask EXCEPT ![o] = a]
      /\ UNCHANGED <<phase, keyOf, sessionOf, session, request, nodeMap, listeners, installed, audience>>
  BY AskingFits DEF BaseInv, Call, orchVars, queueVars, chanVars
<1>2. \A q \in Ops : q # o => opPhase'[q] = opPhase[q] /\ opNode'[q] = opNode[q] /\ ask'[q] = ask[q]
  BY <1>1, OpType DEF BaseInv, ChanType
<1>3. RunningIsOfSession'
  BY <1>1, <1>2, OpType DEF UncutInv, RunningIsOfSession, BaseInv
<1>4. \A s \in Shadows, m \in Nodes : \A l \in listeners[s][m] : l \in Ops /\ l # o
  BY <1>1 DEF UncutInv, AttachedFits, BaseInv, ChanType
<1>5. AttachedFits'
  BY <1>1, <1>2, <1>4 DEF UncutInv, AttachedFits
<1>6. AttachedCurrent'
  BY <1>1, <1>2 DEF UncutInv, AttachedCurrent, Leaving
<1> QED BY <1>3, <1>5, <1>6 DEF UncutInv

LEMMA UncutRegisters ==
  ASSUME BaseInv, UncutInv, Registers, StayedRegistered
  PROVE  UncutInv'
<1>1. /\ UNCHANGED <<phase, keyOf, sessionOf, session, request, ask, opPhase, opNode, installed, audience>>
  BY DEF Registers, CallsStill
<1>2. Kept /\ UNCHANGED listeners
  BY <1>1 DEF Registers, StayedRegistered
<1>3. RunningIsOfSession'
  <2> SUFFICES ASSUME NEW q \in Ops, opPhase[q] = "running"
               PROVE  sessionOf[q] = session /\ nodeMap'[opNode[q]] = keyOf[q]
    BY <1>1 DEF RunningIsOfSession
  <2>1. opNode[q] \in Nodes /\ keyOf[q] \in Shadows
    BY DEF BaseInv, CallsFit
  <2> QED BY <1>2, <2>1, ChannelAssumption DEF UncutInv, RunningIsOfSession, Kept
<1>4. AttachedFits'
  BY <1>1, <1>2, ChannelAssumption DEF UncutInv, AttachedFits, Kept
<1>5. AttachedCurrent'
  BY <1>1, <1>2 DEF UncutInv, AttachedCurrent, Leaving
<1> QED BY <1>3, <1>4, <1>5 DEF UncutInv

LEMMA UncutLifecycle ==
  ASSUME BaseInv, UncutInv, Lifecycle, session' # session => \A o \in Ops : ~Unsettled(o)
  PROVE  UncutInv'
<1>1. CASE Ends
  <2>1. UNCHANGED opPhase /\ session' # session
    BY <1>1 DEF Ends, BaseInv, ChanType
  <2>2. RunningIsOfSession'
    BY <2>1 DEF RunningIsOfSession, Unsettled
  <2>3. \A s \in Shadows, n \in Nodes : listeners'[s][n] = {}
    BY <1>1 DEF Ends, O!NoListeners
  <2> QED BY <2>2, <2>3 DEF UncutInv, AttachedFits, AttachedCurrent
<1>2. CASE UNCHANGED <<phase, keyOf, sessionOf, session, nodeMap, listeners, request,
                       opPhase, opNode, ask, installed, audience>>
  BY <1>2 DEF UncutInv, RunningIsOfSession, AttachedFits, AttachedCurrent, Leaving
<1> QED BY <1>1, <1>2, LifecycleEffect DEF BaseInv

LEMMA UncutSame ==
  ASSUME UncutInv, Same
  PROVE  UncutInv'
<1>1. UNCHANGED <<phase, keyOf, sessionOf, session, nodeMap, listeners, request,
                  opPhase, opNode, ask, installed, audience>>
  BY DEF Same, orchVars, queueVars, chanVars
<1> QED BY <1>1 DEF UncutInv, RunningIsOfSession, AttachedFits, AttachedCurrent, Leaving

LEMMA UncutStep ==
  ASSUME BaseInv, UncutInv, Shape, StayedRegistered,
         session' # session => \A o \in Ops : ~Unsettled(o)
  PROVE  UncutInv'
BY UncutAsks, UncutQuiet, UncutDrops, UncutInstalls, UncutDetaches, UncutRuns, UncutRegisters,
   UncutLifecycle, UncutSame DEF Shape

UncutIInv == BaseInv /\ (~cut /\ ~unregistered => UncutInv)

LEMMA StepUncut == UncutIInv /\ [MCNext]_MCvars => UncutIInv'
<1> SUFFICES ASSUME UncutIInv, [MCNext]_MCvars PROVE UncutIInv'
  OBVIOUS
<1>1. BaseInv /\ BaseInv' /\ Shape
  BY StepBase, StepShape DEF UncutIInv, MCNext, MCvars
<1>2. CASE UNCHANGED MCvars
  <2>1. Same /\ UNCHANGED <<cut, unregistered>>
    BY <1>2 DEF MCvars, vars, Same, opVars
  <2> QED BY <1>1, <2>1, UncutSame DEF UncutIInv
<1>3. CASE MCNext /\ ~cut' /\ ~unregistered'
  <2>1. StayedRegistered /\ ~unregistered
    BY <1>3 DEF MCNext, StayedRegistered, Kept
  <2>2. ~cut /\ (session' # session => \A o \in Ops : ~Unsettled(o))
    BY <1>3 DEF MCNext
  <2> QED BY <1>1, <2>1, <2>2, UncutStep DEF UncutIInv
<1>4. CASE MCNext /\ (cut' \/ unregistered')
  BY <1>1, <1>4 DEF UncutIInv
<1> QED BY <1>2, <1>3, <1>4

LEMMA InitUncut == MCInit => UncutIInv
<1> SUFFICES ASSUME MCInit PROVE UncutIInv
  OBVIOUS
<1>1. BaseInv
  BY InitBase DEF MCInit
<1>2. /\ opPhase = [o \in Ops |-> "idle"]
      /\ listeners = O!NoListeners
  BY DEF MCInit, Init, C!Init, O!Init
<1>3. UncutInv
  BY <1>2 DEF UncutInv, RunningIsOfSession, AttachedFits, AttachedCurrent, O!NoListeners
<1> QED BY <1>1, <1>3 DEF UncutIInv

\* An unsubscribed or replaced callback is never reached, while sessions end between
\* operations and no node loses its shadow (detachNode, the emptied set).
THEOREM RemovedIsNotReached == MCSpec => []UncutOnlyCurrentSetReached
<1>1. UncutIInv => UncutOnlyCurrentSetReached
  BY DEF UncutIInv, UncutInv, AttachedCurrent, UncutOnlyCurrentSetReached, OnlyCurrentSetReached
<1> QED BY <1>1, InitUncut, StepUncut, PTL DEF MCSpec

\* No listener the channel has given up stays on the orchestrator, while sessions end
\* between operations and no node loses its shadow (detachNode's unsubscribe).
THEOREM NothingStrays == MCSpec => []UncutNoStrayListener
<1>1. UncutIInv => UncutNoStrayListener
  <2> SUFFICES ASSUME BaseInv, UncutInv, NEW s \in Shadows, NEW n \in Nodes, NEW l \in listeners[s][n],
                      installed[n] # l
               PROVE  \E o \in Ops : opNode[o] = n /\ opPhase[o] = "running"
    BY DEF UncutIInv, UncutNoStrayListener, NoStrayListener
  <2>1. Leaving(s, n, l)
    BY DEF UncutInv, AttachedCurrent
  <2>2. PICK q \in Ops : /\ opPhase[q] = "running" /\ phase[q] = "queued" /\ opNode[q] = n
                         /\ keyOf[q] = s
                         /\ request[q] = [kind |-> "unsubscribe", node |-> n, callback |-> l]
    BY <2>1, LeavingIs
  <2> QED BY <2>2
<1> QED BY <1>1, InitUncut, StepUncut, PTL DEF MCSpec
=============================================================================
