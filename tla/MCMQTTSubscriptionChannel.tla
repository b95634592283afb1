---------------------- MODULE MCMQTTSubscriptionChannel ----------------------
(* The channel for model checking: constants, symmetry, and the history of     *)
(* what others did to it.                                                      *)
EXTENDS MQTTSubscriptionChannel, TLC

CONSTANTS o1, o2, o3, n1, s1, a1, a2

MCOps == {o1, o2, o3}
MCTwoOps == {o1, o2}
MCNodes == {n1}
MCShadows == {s1}
MCApps == {a1, a2}
MCOneApp == {a1}
MCLive == {1}

\* The sets are interchangeable: no definition tells their members apart.
Symmetry == Permutations(Ops) \cup Permutations(Apps)

VARIABLES
  cut,          \* a session has ended with operations pending
  unregistered  \* a node has been unregistered, or moved to another shadow, within a session

MCvars == <<vars, cut, unregistered>>

MCInit == Init /\ cut = FALSE /\ unregistered = FALSE

MCNext ==
  /\ Next
  /\ cut' = (cut \/ (session' # session /\ \E o \in Ops : Unsettled(o)))
  /\ unregistered' =
       (unregistered \/ (session' = session /\ \E n \in Nodes : nodeMap[n] \notin {NoShadow, nodeMap'[n]}))

MCSpec == MCInit /\ [][MCNext]_MCvars
MCFairSpec == MCSpec /\ Fairness

\* As long as nobody unregisters the node, what the channel believes attached is
\* attached, sessions ending at any moment (installSubscriber's generation check
\* and its rollback).
ServedWhileRegistered == ~unregistered => SubscribersServed

\* As long as nobody unregisters the node, a subscribe that resolves in the
\* running session is served (the order of attaching and resolving).
ResolvesServed == [][~unregistered' => SubscribeResolvesServed]_MCvars

\* While sessions end between operations and nobody unregisters the node, an
\* unsubscribed or replaced callback is never called ("cannot reach a removed
\* subscriber").
UncutOnlyCurrentSetReached == ~cut /\ ~unregistered => OnlyCurrentSetReached

\* While sessions end between operations and nobody unregisters the node, no
\* listener the channel gave up stays on the orchestrator.
UncutNoStrayListener == ~cut /\ ~unregistered => NoStrayListener
=============================================================================
