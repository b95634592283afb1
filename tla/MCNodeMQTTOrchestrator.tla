----------------------- MODULE MCNodeMQTTOrchestrator -----------------------
(* The orchestrator for model checking: constants, symmetry, and the history *)
(* that tells which runs and which calls of the program a session's end cut  *)
(* into, and which calls lost the registration they were made under.         *)
EXTENDS NodeMQTTOrchestrator, TLC

CONSTANTS c1, c2, n1, n2, s1, s2, f1, f2

MCCalls == {c1, c2}
MCNodes == {n1, n2}
MCShadows == {s1, s2}
MCCallbacks == {f1, f2}
MCLive == {1, 3}

\* The sets are interchangeable: no definition tells their members apart.
Symmetry ==
  Permutations(Calls) \cup Permutations(Nodes) \cup Permutations(Shadows)
    \cup Permutations(Callbacks)

VARIABLES
  cut,     \* a session has ended with calls pending
  caught   \* the calls that were pending when a session ended, or when their node
           \* left the shadow they were made for

\* The node of a pending call is not where the call will look for it.
Astray(c) == Unsettled(c) /\ nodeMap[request[c].node] # keyOf[c]

MCInit == Init /\ cut = FALSE /\ caught = {}
MCNext ==
  /\ Next
  /\ cut' = (cut \/ (session' # session /\ \E c \in Calls : Unsettled(c)))
  /\ caught' = caught \cup {c \in Calls : Astray(c)' \/ (session' # session /\ Unsettled(c))}

mcVars == <<vars, cut, caught>>
MCSpec == MCInit /\ [][MCNext]_mcVars

\* While sessions end only between operations, every handler on the wire has an
\* owner, so that nothing subscribed is forgotten, and a listener is given each
\* message once, unless an earlier subscribe broke off half-way
\* (cleanupSubscriptionIfIdle, resetSession, and the handler kept per subscription).
UncutWireIsSound == ~cut => DeliveredOnce /\ WiredIsOwned

\* Whoever listens asked to and was told so, in this session and for the shadow its
\* node is registered with now ("on failure no listener is added"; unregisterNode
\* and a rename take the listeners along). The calls that slipped through the awaits
\* between asking and attaching - a session ended, or the node left the shadow,
\* while they were pending - are the only ones whose listener can be elsewhere.
ListenersHaveTheirCall ==
  \A s \in Shadows, n \in Nodes : \A cb \in listeners[s][n] :
    \E c \in Calls :
      /\ request[c] = [kind |-> "subscribe", node |-> n, callback |-> cb]
      /\ phase[c] = "resolved"
      /\ keyOf[c] = s
      /\ c \in caught \/ (sessionOf[c] = session /\ nodeMap[n] = s)
=============================================================================
