----------------------- MODULE MQTTSubscriptionChannel -----------------------
(***************************************************************************)
(* services/MQTTSubscriptionChannel.ts over the orchestrator: one shared   *)
(* orchestrator listener per node fans messages out to a set of app        *)
(* callbacks.  The channel remembers that it attached the listener; the    *)
(* orchestrator may drop it without telling.                               *)
(*                                                                         *)
(* An operation is one invocation of subscribe or unsubscribe (or of       *)
(* ESPRMNeoSubscriptionManager.unsubscribeFromNode, a "purge", which goes  *)
(* on to unregister the node).  It makes at most one call on the           *)
(* orchestrator and installs at most one listener, so the same name stands *)
(* for the operation, for that call and for that listener.                 *)
(***************************************************************************)
EXTENDS Naturals, FiniteSets

CONSTANTS Nodes, Shadows,
          Apps,            \* app callbacks
          Ops,             \* invocations
          NoNode, NoShadow, NoOp,
          NumSuffixes, LiveSuffixes, MaxSession

ASSUME ChannelAssumption ==
  /\ NoOp \notin Ops /\ NoNode \notin Nodes /\ NoShadow \notin Shadows
  /\ NumSuffixes \in Nat \ {0} /\ LiveSuffixes \subseteq 1..NumSuffixes
  /\ MaxSession \in Nat

\* The channel's own queue: nodeOps, never emptied.
VARIABLES opPhase, opNode, opPrev, opAhead, opTail

opVars == <<opPhase, opNode, opPrev, opAhead, opTail>>

C == INSTANCE SerialQueue
       WITH Keys <- Nodes, NoKey <- NoNode, MaxSession <- 0,
            phase <- opPhase, keyOf <- opNode, prev <- opPrev,
            ahead <- opAhead, tail <- opTail,
            sessionOf <- [o \in Ops |-> 0], session <- 0

\* The orchestrator.
VARIABLES phase, keyOf, sessionOf, prev, ahead, tail, session,
          initialized, born, nodeMap, known, listeners, handler,
          request, stage, target, wired

queueVars == <<phase, keyOf, sessionOf, prev, ahead, tail, session>>
orchVars == <<queueVars, initialized, born, nodeMap, known, listeners, handler,
              request, stage, target, wired>>

O == INSTANCE NodeMQTTOrchestrator
       WITH Calls <- Ops, Callbacks <- Ops, NoCall <- NoOp

VARIABLES
  ask,         \* what each operation was called for
  installed,   \* nodeCallbacks and orchestratorListeners, which move together
  audience,    \* the set of app callbacks each listener closes over
  generation,  \* nodeGeneration; 0 where the map has no entry
  purged       \* the manager has unregistered the node after this operation

chanVars == <<installed, audience, generation>>
vars == <<opVars, orchVars, ask, chanVars, purged>>

Ask ==
  [kind : {"subscribe"}, shadow : Shadows, app : Apps]
    \cup [kind : {"remove"}, app : Apps]
    \cup [kind : {"detach", "purge"}]

Init ==
  /\ C!Init
  /\ O!Init
  /\ ask = [o \in Ops |-> [kind |-> "none"]]
  /\ installed = [n \in Nodes |-> NoOp]
  /\ audience = [o \in Ops |-> {}]
  /\ generation = [n \in Nodes |-> 0]
  /\ purged = {}

Unsettled(o) == opPhase[o] \in {"queued", "running"}

-----------------------------------------------------------------------------
(* The operations *)

Call(o, n, a) ==
  /\ C!Enqueue(o, n)
  /\ ask' = [ask EXCEPT ![o] = a]
  /\ UNCHANGED <<orchVars, chanVars, purged>>

\* Mutation: the generation is not compared.
AttachedOfOldSession(n) == installed[n] # NoOp

\* nodeCallbacks.has(nodeId), after a stale entry has been dropped.
Attached(n) == installed[n] # NoOp /\ generation[n] = O!Generation

\* registerNode throws when the orchestrator does not exist.
SubscribeUninitialized(o) ==
  /\ ask[o].kind = "subscribe"
  /\ ~initialized
  /\ C!RunAtOnce(o, "rejected")
  /\ UNCHANGED <<orchVars, ask, chanVars, purged>>

\* A later subscriber joins the node's listener.
Join(o) ==
  LET n == opNode[o]
  IN  /\ ask[o].kind = "subscribe"
      /\ Attached(n)
      /\ O!Bind(n, ask[o].shadow)
      /\ C!RunAtOnce(o, "resolved")
      /\ audience' = [audience EXCEPT ![installed[n]] = @ \cup {ask[o].app}]
      /\ generation' = [generation EXCEPT ![n] = O!Generation]
      /\ UNCHANGED <<queueVars, born, initialized, request, stage, target,
                     ask, installed, purged>>

\* The first subscriber makes a listener and calls the orchestrator.
Install(o) ==
  LET n == opNode[o]
  IN  /\ ask[o].kind = "subscribe"
      /\ ~Attached(n)
      /\ O!Bind(n, ask[o].shadow)
      /\ O!Enter(o, [kind |-> "subscribe", node |-> n, callback |-> o], ask[o].shadow)
      /\ C!Start(o)
      /\ installed' = [installed EXCEPT ![n] = o]
      /\ generation' = [generation EXCEPT ![n] = O!Generation]
      /\ UNCHANGED <<born, initialized, stage, target, ask, audience, purged>>

\* The orchestrator's subscribe resolved.
Installed(o) ==
  LET l == installed[opNode[o]]
  IN  /\ ask[o].kind = "subscribe"
      /\ phase[o] = "resolved"
      /\ l # NoOp
      /\ C!Settle(o, "resolved")
      /\ audience' = [audience EXCEPT ![l] = @ \cup {ask[o].app}]
      /\ UNCHANGED <<orchVars, ask, installed, generation, purged>>

\* Mutation: a failed install keeps its bookkeeping.
RollBackNothing(o) ==
  /\ ask[o].kind = "subscribe"
  /\ phase[o] = "rejected"
  /\ C!Settle(o, "rejected")
  /\ UNCHANGED <<orchVars, ask, chanVars, purged>>

\* The orchestrator's subscribe rejected.
RollBack(o) ==
  LET n == opNode[o]
  IN  /\ ask[o].kind = "subscribe"
      /\ phase[o] = "rejected"
      /\ C!Settle(o, "rejected")
      /\ installed' = [installed EXCEPT ![n] = NoOp]
      /\ generation' = [generation EXCEPT ![n] = 0]
      /\ UNCHANGED <<orchVars, ask, audience, purged>>

\* What an unsubscribe leaves of the callbacks the node's listener serves.
Remaining(o) ==
  IF ask[o].kind = "remove" /\ installed[opNode[o]] # NoOp
  THEN audience[installed[opNode[o]]] \ {ask[o].app}
  ELSE {}

\* Other subscribers remain, or the node is unknown.
RemoveOne(o) ==
  LET l == installed[opNode[o]]
  IN  /\ ask[o].kind \in {"remove", "detach", "purge"}
      /\ l = NoOp \/ Remaining(o) # {}
      /\ C!RunAtOnce(o, "resolved")
      /\ audience' = IF l = NoOp THEN audience ELSE [audience EXCEPT ![l] = Remaining(o)]
      /\ UNCHANGED <<orchVars, ask, installed, generation, purged>>

\* Mutation: the listener's callback set is not emptied.
DropLocalKeepingAudience(n) ==
  /\ installed' = [installed EXCEPT ![n] = NoOp]
  /\ generation' = [generation EXCEPT ![n] = 0]
  /\ UNCHANGED audience

DropLocal(n) ==
  /\ installed' = [installed EXCEPT ![n] = NoOp]
  /\ generation' = [generation EXCEPT ![n] = 0]
  /\ audience' = [audience EXCEPT ![installed[n]] = {}]

Leaves(o) ==
  /\ ask[o].kind \in {"remove", "detach", "purge"}
  /\ installed[opNode[o]] # NoOp
  /\ Remaining(o) = {}

\* detachNode, when the orchestrator has nothing to unsubscribe.
DetachUnregistered(o) ==
  LET n == opNode[o]
  IN  /\ Leaves(o)
      /\ ~initialized \/ nodeMap[n] = NoShadow
      /\ C!RunAtOnce(o, "resolved")
      /\ DropLocal(n)
      /\ UNCHANGED <<orchVars, ask, purged>>

\* Mutation: the orchestrator's listener is forgotten, not unsubscribed.
DetachLocally(o) ==
  /\ Leaves(o)
  /\ C!RunAtOnce(o, "resolved")
  /\ DropLocal(opNode[o])
  /\ UNCHANGED <<orchVars, ask, purged>>

\* detachNode drops the local state, then asks the orchestrator.
Detach(o) ==
  LET n == opNode[o]
  IN  /\ Leaves(o)
      /\ O!Call(o, [kind |-> "unsubscribe", node |-> n, callback |-> installed[n]])
      /\ C!Start(o)
      /\ DropLocal(n)
      /\ UNCHANGED <<ask, purged>>

\* A failure is logged only.
Detached(o) ==
  /\ ask[o].kind \in {"remove", "detach", "purge"}
  /\ phase[o] \in C!Outcome
  /\ C!Settle(o, "resolved")
  /\ UNCHANGED <<orchVars, ask, chanVars, purged>>

\* The manager goes on after the channel: unregisterNode.
PurgeBinding(o) ==
  LET n == opNode[o]
  IN  /\ ask[o].kind = "purge"
      /\ opPhase[o] \in C!Outcome
      /\ o \notin purged
      /\ purged' = purged \cup {o}
      /\ IF initialized /\ nodeMap[n] # NoShadow
           THEN O!UnregisterNode(n)
           ELSE UNCHANGED orchVars
      /\ UNCHANGED <<opVars, ask, chanVars>>

-----------------------------------------------------------------------------
(* The orchestrator's own steps, and what others do to it. *)

OrchestratorRuns(o) == O!Run(o) /\ UNCHANGED <<opVars, ask, chanVars, purged>>

Lifecycle ==
  /\ O!Initialize \/ O!ResetSession \/ O!Clear
  /\ UNCHANGED <<opVars, ask, chanVars, purged>>

\* ESPRMNeoNode's constructor registers the node first.  Its
\* unsubscribeFromMqttUpdates, and waitForNodeOnline, unregister it.
Others(n) ==
  /\ \/ \E s \in Shadows : O!RegisterNode(n, s)
     \/ O!UnregisterNode(n)
  /\ UNCHANGED <<opVars, ask, chanVars, purged>>

Step(o) ==
  \/ SubscribeUninitialized(o)
  \/ Join(o)
  \/ Install(o)
  \/ Installed(o)
  \/ RollBack(o)
  \/ RemoveOne(o)
  \/ DetachUnregistered(o)
  \/ Detach(o)
  \/ Detached(o)
  \/ PurgeBinding(o)
  \/ OrchestratorRuns(o)

Next ==
  \/ \E o \in Ops : Step(o) \/ \E n \in Nodes, a \in Ask : Call(o, n, a)
  \/ \E n \in Nodes : Others(n)
  \/ Lifecycle

Spec == Init /\ [][Next]_vars

\* The event loop runs what is ready, and each promise of the transport adapter
\* settles one way or the other.
Fairness == \A o \in Ops : WF_vars(Step(o))

-----------------------------------------------------------------------------
(* Properties *)

\* Type correctness.
TypeOK ==
  /\ C!TypeOK
  /\ O!TypeOK
  /\ ask \in [Ops -> Ask \cup {[kind |-> "none"]}]
  /\ installed \in [Nodes -> Ops \cup {NoOp}]
  /\ audience \in [Ops -> SUBSET Apps]
  /\ generation \in [Nodes -> Nat]
  /\ purged \subseteq Ops

\* The orchestrator still routes the node's messages to the node's listener.
Served(n) ==
  \E s \in Shadows : installed[n] \in listeners[s][n]

\* Whenever nothing is under way for a node whose bookkeeping belongs to the
\* running session, the listener the channel believes attached is attached
\* (installSubscriber's generation check and its rollback).
SubscribersServed ==
  \A n \in Nodes :
    /\ initialized
    /\ Attached(n)
    /\ \A o \in Ops : opNode[o] = n => opPhase[o] # "running"
    => Served(n)

\* An install that comes back finds the set it made: nobody deletes or
\* replaces a node's entry under a running subscribe (the "!" after the await).
InstallFindsItsSet ==
  \A o \in Ops :
    opPhase[o] = "running" /\ ask[o].kind = "subscribe" => installed[opNode[o]] = o

\* Only the node's current listener reaches app callbacks: an unsubscribed or
\* replaced one is attached to nothing or has an empty set, so nobody is called
\* twice or after being removed ("cannot reach a removed subscriber").
OnlyCurrentSetReached ==
  \A s \in Shadows, n \in Nodes : \A l \in listeners[s][n] :
    installed[n] = l \/ audience[l] = {}

\* A listener the channel has given up does not stay on the orchestrator.
NoStrayListener ==
  \A s \in Shadows, n \in Nodes : \A l \in listeners[s][n] :
    \/ installed[n] = l
    \/ \E o \in Ops : opNode[o] = n /\ opPhase[o] = "running"

\* Each operation of the channel is answered.
EveryOpSettles == C!EveryCallSettles

\* A step that resolves a subscribe in the running session leaves the node's
\* listener attached.
SubscribeResolvesServed ==
  \A o \in Ops :
    /\ ask[o].kind = "subscribe"
    /\ opPhase[o] # "resolved" /\ opPhase'[o] = "resolved"
    /\ initialized'
    /\ generation'[opNode[o]] = O!Generation'
    => Served(opNode[o])'

\* Who joins a node's callback set hears of the node: subscribe's comment has the
\* chain there so that a late subscriber cannot attach to dead state "and then
\* silently never receive updates".  The code does not keep this when the node was
\* unregistered on the orchestrator since the set was made.
JoinIsServed == [][\A o \in Ops : Join(o) => Served(opNode[o])']_vars
=============================================================================
