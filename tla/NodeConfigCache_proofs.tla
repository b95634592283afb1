------------------------- MODULE NodeConfigCache_proofs -------------------------
(* The configuration cache, proved for every set of nodes and of updates handled at  *)
(* once and every number of versions. CacheInv is inductive for every behaviour;      *)
(* UnmetInv adds, for those in which updates and removals follow one another, what      *)
(* makes a marker vouch for the configuration.                                           *)
EXTENDS MCNodeConfigCache, TLAPS

\* A logout finds and leaves nothing under way, and has cleared the markers when it
\* drops the configurations.
LogoutIsAlone ==
  /\ logout.at # "off" => live = {} /\ Quiet
  /\ logout.at = "clearing" => logout.ids = {n \in Nodes : markers[n] > 0}
  /\ logout.at = "dropping" => markers = Empty

\* Work under way is about a live node and a version it has published.
WorkHasNode ==
  \A h \in Handlers :
    IF handler[h].at = "idle" THEN handler[h] = Resting
    ELSE handler[h].node \in live /\ handler[h].ver \in 1..cloud[handler[h].node]

CacheInv == WorkHasNode /\ TypeOK /\ CacheIsApplied /\ LogoutIsAlone

LEMMA Versions == Version \subseteq Nat /\ 0 \in Version /\ Empty \in Blob
                  /\ Resting \in Handler /\ NotRemoving \in [node : Nodes \cup {NoNode}, blob : Blob]
BY CacheAssumption DEF Version, Empty, Blob, Resting, Handler, At, NotRemoving

LEMMA CacheStarts == Init => CacheInv
<1> SUFFICES ASSUME Init PROVE CacheInv
  OBVIOUS
<1>1. \A n \in Nodes : Empty[n] = 0
  BY DEF Empty
<1>2. TypeOK
  <2>1. cloud \in Blob
    BY CacheAssumption DEF Init, Blob, Version
  <2> QED
    BY <2>1, Versions DEF Init, TypeOK
<1>3. CacheIsApplied /\ LogoutIsAlone
  BY DEF Init, CacheIsApplied, LogoutIsAlone
<1>4. WorkHasNode
  BY DEF Init, WorkHasNode, Resting
<1> QED
  BY <1>2, <1>3, <1>4 DEF CacheInv

LEMMA CacheStep == CacheInv /\ [Next]_vars => CacheInv'
<1> SUFFICES ASSUME CacheInv, [Next]_vars PROVE CacheInv'
  OBVIOUS
<1> USE DEF storeVars
<1>0. TypeOK /\ WorkHasNode /\ LogoutIsAlone /\ CacheIsApplied
  BY DEF CacheInv
<1>1. ASSUME NEW n \in Nodes, Publish(n) PROVE CacheInv'
  <2>1. cloud[n] + 1 \in Version /\ cloud[n] \in Nat
    BY <1>0, <1>1, CacheAssumption DEF Publish, TypeOK, Blob, Version
  <2>2. TypeOK'
    BY <1>0, <1>1, <2>1 DEF Publish, TypeOK, Blob
  <2>3. CacheIsApplied' /\ LogoutIsAlone'
    BY <1>0, <1>1 DEF Publish, CacheIsApplied, LogoutIsAlone, Quiet
  <2>4. WorkHasNode'
    <3>1. cloud' = [cloud EXCEPT ![n] = cloud[n] + 1] /\ UNCHANGED <<handler, live>> /\ cloud \in Blob
          /\ live \subseteq Nodes
      BY <1>0, <1>1 DEF Publish, TypeOK
    <3>2. \A m \in Nodes : 1..cloud[m] \subseteq 1..cloud'[m]
      BY <2>1, <3>1 DEF Blob
    <3> QED
      BY <1>0, <3>1, <3>2 DEF WorkHasNode
  <2> QED
    BY <2>2, <2>3, <2>4 DEF CacheInv
<1>2. ASSUME NEW n \in Nodes, GetNode(n) PROVE CacheInv'
  <2>1. PICK config \in Version : stored' = [stored EXCEPT ![n] = config] /\ applied' = [applied EXCEPT ![n] = config]
    BY <1>0, <1>2 DEF GetNode, TypeOK, Blob
  <2>2. TypeOK'
    BY <1>0, <1>2, <2>1 DEF GetNode, TypeOK, Blob
  <2>3. CacheIsApplied'
    BY <1>0, <1>2, <2>1 DEF GetNode, TypeOK, Blob, CacheIsApplied
  <2>4. LogoutIsAlone' /\ WorkHasNode'
    BY <1>0, <1>2 DEF GetNode, LogoutIsAlone, WorkHasNode
  <2> QED
    BY <2>2, <2>3, <2>4 DEF CacheInv
<1>3. ASSUME NEW n \in Nodes, NEW h \in Handlers, ShadowUpdate(n, h) PROVE CacheInv'
  <2>1. stored' = [stored EXCEPT ![n] = applied[n]] /\ n \in live
        /\ UNCHANGED <<cloud, markers, live, applied, removing, logout, base>>
    BY <1>3 DEF ShadowUpdate, PersistWireConfig
  <2>2. handler' \in [Handlers -> Handler] /\ WorkHasNode'
    <3>1. CASE UNCHANGED handler
      BY <1>0, <2>1, <3>1 DEF TypeOK, WorkHasNode
    <3>2. ASSUME NEW v \in 1..cloud[n],
                 handler' = [handler EXCEPT ![h] = [Resting EXCEPT !.at = "comparing", !.node = n, !.ver = v]]
          PROVE  handler' \in [Handlers -> Handler] /\ WorkHasNode'
      <4> DEFINE work == [Resting EXCEPT !.at = "comparing", !.node = n, !.ver = v]
      <4>1. v \in Version
        BY <1>0, CacheAssumption DEF TypeOK, Blob, Version
      <4>2. work \in Handler /\ work.at = "comparing" /\ work.node = n /\ work.ver = v
        BY <4>1, Versions DEF Handler, At
      <4>3. handler' = [handler EXCEPT ![h] = work]
        BY <3>2
      <4> HIDE DEF work
      <4> QED
        BY <1>0, <2>1, <4>2, <4>3 DEF TypeOK, WorkHasNode
    <3> QED
      BY <1>3, <3>1, <3>2 DEF ShadowUpdate
  <2>3. TypeOK'
    BY <1>0, <2>1, <2>2 DEF TypeOK, Blob
  <2>4. CacheIsApplied' /\ LogoutIsAlone'
    BY <1>0, <2>1 DEF TypeOK, Blob, CacheIsApplied, LogoutIsAlone
  <2> QED
    BY <2>2, <2>3, <2>4 DEF CacheInv
<1>4. ASSUME NEW h \in Handlers, Handle(h) PROVE CacheInv'
  <2> DEFINE n == handler[h].node
  <2>1. handler[h] \in Handler /\ handler \in [Handlers -> Handler]
    BY <1>0 DEF TypeOK
  <2>2. handler[h].at # "idle" /\ UNCHANGED <<cloud, live, removing, logout>>
    BY <1>4 DEF Handle, Compare, SaveBaseline, Sync, SyncFailed, PersistMarker, SaveMarker
  <2>3. logout.at = "off" /\ n \in Nodes /\ n \in live /\ handler[h].ver \in 1..cloud[n]
    BY <1>0, <2>2 DEF LogoutIsAlone, Quiet, Resting, WorkHasNode, TypeOK
  <2>4. LogoutIsAlone'
    BY <2>2, <2>3 DEF LogoutIsAlone
  <2>5. ASSUME handler' \in [Handlers -> Handler],
               handler' = [handler EXCEPT ![h] = Resting]
               \/ /\ handler'[h].at # "idle" /\ handler'[h].node = n /\ handler'[h].ver = handler[h].ver
                  /\ \A g \in Handlers \ {h} : handler'[g] = handler[g]
        PROVE  WorkHasNode'
    <3>1. CASE handler' = [handler EXCEPT ![h] = Resting]
      BY <1>0, <2>1, <2>2, <3>1 DEF WorkHasNode, Resting
    <3>2. CASE /\ handler'[h].at # "idle" /\ handler'[h].node = n /\ handler'[h].ver = handler[h].ver
               /\ \A g \in Handlers \ {h} : handler'[g] = handler[g]
      BY <1>0, <2>2, <2>3, <3>2 DEF WorkHasNode
    <3> QED
      BY <2>5, <3>1, <3>2
  <2>6. ASSUME Done(h) PROVE handler' \in [Handlers -> Handler] /\ WorkHasNode'
    BY <2>1, <2>5, <2>6, Versions DEF Done
  <2>7. CASE Compare(h)
    <3>1. handler' \in [Handlers -> Handler] /\ WorkHasNode'
      <4>1. CASE handler' = [handler EXCEPT ![h].at = "baselining", ![h].blob = markers]
        <5>1. handler' \in [Handlers -> Handler]
          BY <1>0, <2>1, <4>1 DEF Handler, At, TypeOK
        <5> QED
          BY <2>1, <2>5, <4>1, <5>1 DEF Handler
      <4>2. CASE handler' = [handler EXCEPT ![h].at = "fetching", ![h].since = cloud[n]]
        <5>1. handler' \in [Handlers -> Handler]
          BY <1>0, <2>1, <2>3, <4>2 DEF Handler, At, TypeOK, Blob
        <5> QED
          BY <2>1, <2>5, <4>2, <5>1 DEF Handler
      <4> QED
        BY <2>6, <2>7, <4>1, <4>2 DEF Compare
    <3> QED
      BY <1>0, <2>4, <2>7, <3>1 DEF Compare, TypeOK, CacheIsApplied, CacheInv
  <2>8. CASE SaveBaseline(h)
    <3>1. handler[h].ver \in Version /\ handler[h].blob \in Blob /\ base \in Blob
      BY <1>0, <2>1 DEF Handler, TypeOK
    <3>2. markers' \in Blob /\ base' \in Blob
      BY <2>8, <3>1 DEF SaveBaseline, Blob
    <3> QED
      BY <1>0, <2>4, <2>6, <2>8, <3>2 DEF SaveBaseline, TypeOK, CacheIsApplied, CacheInv
  <2>9. ASSUME Marking(h) PROVE handler' \in [Handlers -> Handler] /\ WorkHasNode'
    <3>1. handler' \in [Handlers -> Handler]
      BY <2>1, <2>9, Versions DEF Marking, Handler, At
    <3> QED
      BY <2>1, <2>5, <2>9, <3>1 DEF Marking, Handler
  <2>10. CASE Sync(h)
    <3>1. PICK config \in handler[h].since..cloud[n] :
            applied' = [applied EXCEPT ![n] = config] /\ stored' = [stored EXCEPT ![n] = config]
      BY <2>10 DEF Sync
    <3>2. config \in Version /\ stored \in Blob /\ applied \in Blob
      BY <1>0, <2>1, <2>3, CacheAssumption DEF Handler, TypeOK, Blob, Version
    <3>3. stored' \in Blob /\ applied' \in Blob /\ CacheIsApplied'
      BY <1>0, <2>2, <2>3, <3>1, <3>2 DEF Blob, CacheIsApplied
    <3> QED
      BY <1>0, <2>4, <2>9, <2>10, <3>3 DEF Sync, TypeOK, CacheInv
  <2>11. CASE SyncFailed(h)
    BY <1>0, <2>4, <2>6, <2>11 DEF SyncFailed, TypeOK, CacheIsApplied, CacheInv
  <2>12. CASE PersistMarker(h)
    <3>1. handler' = [handler EXCEPT ![h].at = "saving", ![h].blob = markers]
      BY <2>12 DEF PersistMarker
    <3>2. handler' \in [Handlers -> Handler]
      BY <1>0, <2>1, <3>1 DEF Handler, At, TypeOK
    <3>3. WorkHasNode'
      BY <2>1, <2>5, <3>1, <3>2 DEF Handler
    <3> QED
      BY <1>0, <2>4, <2>12, <3>2, <3>3 DEF PersistMarker, TypeOK, CacheIsApplied, CacheInv
  <2>13. CASE SaveMarker(h)
    <3>1. handler[h].ver \in Version /\ handler[h].blob \in Blob
      BY <1>0, <2>1 DEF Handler, TypeOK
    <3>2. markers' \in Blob
      BY <2>13, <3>1 DEF SaveMarker, Blob
    <3> QED
      BY <1>0, <2>4, <2>6, <2>13, <3>2 DEF SaveMarker, TypeOK, CacheIsApplied, CacheInv
  <2> QED
    BY <1>4, <2>7, <2>8, <2>10, <2>11, <2>12, <2>13 DEF Handle
<1>5. ASSUME NEW n \in Nodes, RemoveNode(n) PROVE CacheInv'
  <2>1. stored' = [stored EXCEPT ![n] = 0] /\ removing' = [node |-> n, blob |-> markers] /\ logout.at = "off"
        /\ UNCHANGED <<cloud, markers, live, applied, handler, logout, base>>
    BY <1>5 DEF RemoveNode
  <2>2. TypeOK'
    BY <1>0, <2>1, Versions DEF TypeOK, Blob
  <2> QED
    BY <1>0, <2>1, <2>2 DEF TypeOK, Blob, CacheIsApplied, LogoutIsAlone, WorkHasNode, CacheInv
<1>6. ASSUME ClearMarker PROVE CacheInv'
  <2>1. removing.node \in Nodes /\ removing.blob \in Blob
    BY <1>0, <1>6 DEF ClearMarker, TypeOK
  <2>2. markers' \in Blob
    <3>1. [removing.blob EXCEPT ![removing.node] = 0] \in Blob
      BY <2>1, Versions DEF Blob
    <3> QED
      BY <1>0, <1>6, <3>1 DEF ClearMarker, TypeOK
  <2>3. base' \in Blob
    BY <1>0, <1>6, <2>1, Versions DEF ClearMarker, TypeOK, Blob
  <2>4. logout.at = "off"
    BY <1>0, <1>6, CacheAssumption DEF LogoutIsAlone, Quiet, NotRemoving, ClearMarker
  <2> QED
    BY <1>0, <1>6, <2>2, <2>3, <2>4, Versions DEF ClearMarker, TypeOK, CacheIsApplied, LogoutIsAlone, WorkHasNode, CacheInv
<1>7. ASSUME ClearNodeConfigCache PROVE CacheInv'
  <2>1. TypeOK'
    BY <1>0, <1>7, Versions DEF ClearNodeConfigCache, TypeOK
  <2>2. WorkHasNode'
    BY <1>7 DEF ClearNodeConfigCache, WorkHasNode, Quiet, Resting
  <2>3. LogoutIsAlone' /\ CacheIsApplied'
    BY <1>7 DEF ClearNodeConfigCache, LogoutIsAlone, Quiet, CacheIsApplied
  <2> QED
    BY <2>1, <2>2, <2>3 DEF CacheInv
<1>8. ASSUME ClearAllMarkers PROVE CacheInv'
  <2>1. markers' = Empty
    <3>1. CASE logout.ids = {}
      <4>1. \A n \in Nodes : markers[n] = 0
        BY <1>0, <1>8, <3>1 DEF ClearAllMarkers, LogoutIsAlone, TypeOK, Blob, Version
      <4> QED
        BY <1>0, <1>8, <3>1, <4>1 DEF ClearAllMarkers, TypeOK, Blob, Empty
    <3>2. CASE logout.ids # {}
      BY <1>8, <3>2 DEF ClearAllMarkers
    <3> QED
      BY <3>1, <3>2
  <2>2. TypeOK'
    BY <1>0, <1>8, <2>1, Versions DEF ClearAllMarkers, TypeOK
  <2>3. logout'.at = "dropping"
    BY <1>0, <1>8 DEF ClearAllMarkers, TypeOK
  <2> QED
    BY <1>0, <1>8, <2>1, <2>2, <2>3 DEF ClearAllMarkers, LogoutIsAlone, Quiet, CacheIsApplied, WorkHasNode, CacheInv
<1>9. ASSUME DropConfigs PROVE CacheInv'
  <2>1. Dropped(logout.ids) \in Blob
    BY <1>0, Versions DEF Dropped, TypeOK, Blob
  <2>2. TypeOK'
    BY <1>0, <1>9, <2>1 DEF DropConfigs, TypeOK
  <2>3. live = {}
    BY <1>0, <1>9 DEF DropConfigs, LogoutIsAlone
  <2> QED
    BY <1>0, <1>9, <2>2, <2>3 DEF DropConfigs, LogoutIsAlone, Quiet, CacheIsApplied, WorkHasNode, CacheInv
<1>10. ASSUME Login PROVE CacheInv'
  BY <1>0, <1>10 DEF Login, TypeOK, LogoutIsAlone, CacheIsApplied, WorkHasNode, CacheInv
<1>11. ASSUME Restart PROVE CacheInv'
  <2>1. TypeOK'
    BY <1>0, <1>11, Versions DEF Restart, TypeOK
  <2>2. WorkHasNode'
    BY <1>11 DEF Restart, WorkHasNode, Resting
  <2>3. LogoutIsAlone' /\ CacheIsApplied'
    BY <1>11 DEF Restart, LogoutIsAlone, CacheIsApplied
  <2> QED
    BY <2>1, <2>2, <2>3 DEF CacheInv
<1>12. ASSUME UNCHANGED vars PROVE CacheInv'
  BY <1>0, <1>12 DEF vars, TypeOK, LogoutIsAlone, Quiet, CacheIsApplied, WorkHasNode, CacheInv
<1> QED
  BY <1>1, <1>2, <1>3, <1>4, <1>5, <1>6, <1>7, <1>8, <1>9, <1>10, <1>11, <1>12 DEF Next

\* The invariant of every behaviour, type correctness included.
THEOREM CacheIsSound == Spec => []CacheInv
  BY CacheStarts, CacheStep, PTL DEF Spec

\* What is cached for a live node is what its object holds, for any nodes, any number
\* of updates at once and any versions (sync, persistWireConfig).
THEOREM StorageFollowsMemory == Spec => []CacheIsApplied
<1>1. CacheInv => CacheIsApplied
  BY DEF CacheInv
<1> QED
  BY <1>1, CacheIsSound, PTL

\* A logout that is over has left no marker and no configuration of a node that had one
\* (clearNodeConfigCache).
THEOREM LogoutForgets == Spec => LogoutClearsTracked
<1>1. CacheInv /\ [Next]_vars =>
        [logout.at = "dropping" /\ logout'.at = "done" =>
           markers' = Empty /\ \A n \in logout.ids : stored'[n] = 0]_vars
  <2> SUFFICES ASSUME CacheInv, Next, logout.at = "dropping", logout'.at = "done"
               PROVE  markers' = Empty /\ \A n \in logout.ids : stored'[n] = 0
    OBVIOUS
  <2>1. markers = Empty /\ logout.ids \subseteq Nodes /\ Quiet
    BY DEF CacheInv, LogoutIsAlone, TypeOK
  <2>2. logout # logout'
    OBVIOUS
  <2>3. CASE \E n \in Nodes : Publish(n) \/ GetNode(n) \/ RemoveNode(n) \/ \E h \in Handlers : ShadowUpdate(n, h)
    BY <2>2, <2>3 DEF Publish, GetNode, RemoveNode, ShadowUpdate
  <2>4. CASE \E h \in Handlers : Handle(h)
    BY <2>2, <2>4 DEF Handle, Compare, SaveBaseline, Sync, SyncFailed, PersistMarker, SaveMarker
  <2>5. CASE ClearMarker \/ ClearNodeConfigCache \/ ClearAllMarkers \/ Login \/ Restart
    BY <2>2, <2>5 DEF ClearMarker, ClearNodeConfigCache, ClearAllMarkers, Login, Restart
  <2>6. CASE DropConfigs
    BY <2>1, <2>6 DEF DropConfigs, Dropped, storeVars
  <2> QED
    BY <2>3, <2>4, <2>5, <2>6 DEF Next
<1> QED
  BY <1>1, CacheIsSound, PTL DEF Spec, LogoutClearsTracked

-----------------------------------------------------------------------------
(* One piece of work at a time *)

\* While updates and removals follow one another there is one at most.
AtMostOne ==
  /\ \A g, h \in Handlers : handler[g].at # "idle" /\ handler[h].at # "idle" => g = h
  /\ \A h \in Handlers : handler[h].at # "idle" => removing.node = NoNode

\* A marker is that of a published version, and cleared with its first sighting.
MarkersArePublished == \A n \in Nodes : markers[n] <= cloud[n] /\ (markers[n] = 0 => base[n] = 0)

\* What an update under way has read still holds, and what it is about to save the
\* configuration lives up to.
WorkIsCurrent ==
  /\ \A h \in Handlers : LET w == handler[h] IN
       /\ w.at \in {"baselining", "saving"} => w.blob = markers
       /\ w.at = "baselining" => markers[w.node] = 0
       /\ w.at = "fetching" => w.since >= w.ver /\ w.since >= markers[w.node]
       /\ w.at \in {"marking", "saving"} =>
            applied[w.node] >= w.ver /\ (stored[w.node] > 0 => stored[w.node] >= w.ver)
  /\ removing.node \in Nodes => removing.blob = markers

UnmetInv == AtMostOne /\ MarkersArePublished /\ WorkIsCurrent /\ MarkerVouches

LEMMA UnmetStarts == Init => UnmetInv
<1> SUFFICES ASSUME Init PROVE UnmetInv
  OBVIOUS
<1>1. \A n \in Nodes : Empty[n] = 0
  BY DEF Empty
<1>2. \A h \in Handlers : handler[h].at = "idle"
  BY DEF Init, Resting
<1>3. removing.node = NoNode /\ NoNode \notin Nodes
  BY CacheAssumption DEF Init, NotRemoving
<1>4. AtMostOne /\ WorkIsCurrent
  BY <1>2, <1>3 DEF AtMostOne, WorkIsCurrent
<1>5. MarkersArePublished /\ MarkerVouches
  BY <1>1 DEF Init, MarkersArePublished, MarkerVouches
<1> QED
  BY <1>4, <1>5 DEF UnmetInv

\* Work of one node at a time, and of one node, is one piece of work.
LEMMA OneAtATime ==
  CacheInv' /\ Met' = "nobody" => AtMostOne'
<1> SUFFICES ASSUME CacheInv', Met' = "nobody" PROVE AtMostOne'
  OBVIOUS
<1> DEFINE work(n) == {<<h>> : h \in {h \in Handlers : handler'[h].node = n}}
                      \cup (IF removing'.node = n THEN {<<>>} ELSE {})
<1>1. /\ ~\E n \in Nodes : \E w, x \in work(n) : w # x
      /\ ~\E m, n \in Nodes : m # n /\ work(m) # {} /\ work(n) # {}
  BY DEF Met, Work
<1>2. ASSUME NEW h \in Handlers, handler'[h].at # "idle"
      PROVE  handler'[h].node \in Nodes /\ <<h>> \in work(handler'[h].node)
  <2>1. handler'[h].node \in Nodes
    BY <1>2 DEF CacheInv, WorkHasNode, TypeOK
  <2> QED
    BY <2>1
<1>3. ASSUME NEW n \in Nodes, removing'.node = n PROVE <<>> \in work(n)
  BY <1>3
<1> HIDE DEF work
<1>4. ASSUME NEW g \in Handlers, NEW h \in Handlers, handler'[g].at # "idle", handler'[h].at # "idle" PROVE g = h
  <2>1. handler'[g].node = handler'[h].node
    BY <1>1, <1>2, <1>4
  <2>2. <<g>> = <<h>>
    BY <1>1, <1>2, <1>4, <2>1
  <2> QED
    BY <2>2
<1>5. ASSUME NEW h \in Handlers, handler'[h].at # "idle" PROVE removing'.node = NoNode
  <2>1. SUFFICES ASSUME removing'.node # NoNode PROVE FALSE
    OBVIOUS
  <2>2. removing'.node \in Nodes
    BY <2>1 DEF CacheInv, TypeOK
  <2>3. <<>> \in work(removing'.node)
    BY <1>3, <2>2
  <2>4. removing'.node = handler'[h].node
    BY <1>1, <1>2, <1>5, <2>2, <2>3
  <2>5. <<>> = <<h>>
    BY <1>1, <1>2, <1>5, <2>2, <2>3, <2>4
  <2> QED
    BY <2>5
<1> QED
  BY <1>4, <1>5 DEF AtMostOne

LEMMA UnmetStep ==
  ASSUME CacheInv, CacheInv', UnmetInv, Next, AtMostOne'
  PROVE  UnmetInv'
<1> USE DEF storeVars
<1>0. /\ TypeOK /\ WorkHasNode /\ LogoutIsAlone /\ AtMostOne /\ MarkersArePublished /\ WorkIsCurrent /\ MarkerVouches
      /\ TypeOK' /\ WorkHasNode' /\ AtMostOne'
  BY DEF CacheInv, UnmetInv
<1>t. \A n \in Nodes : /\ cloud[n] \in Nat /\ markers[n] \in Nat /\ stored[n] \in Nat /\ applied[n] \in Nat /\ base[n] \in Nat
                       /\ cloud'[n] \in Nat /\ markers'[n] \in Nat /\ stored'[n] \in Nat /\ applied'[n] \in Nat /\ base'[n] \in Nat
  BY <1>0, Versions DEF TypeOK, Blob
<1>h. \A h \in Handlers : /\ handler[h] \in Handler /\ handler[h].ver \in Nat /\ handler[h].since \in Nat
                          /\ handler[h].at # "idle" => handler[h].node \in Nodes
  BY <1>0, Versions DEF TypeOK, Handler, WorkHasNode
<1>1. ASSUME NEW n \in Nodes, Publish(n) PROVE UnmetInv'
  <2>1. /\ cloud' = [cloud EXCEPT ![n] = cloud[n] + 1]
        /\ UNCHANGED <<markers, stored, live, applied, handler, removing, logout, base>>
    BY <1>1 DEF Publish
  <2>2. MarkersArePublished'
    BY <1>0, <1>t, <2>1 DEF MarkersArePublished, TypeOK, Blob
  <2>3. WorkIsCurrent' /\ MarkerVouches'
    BY <1>0, <2>1 DEF WorkIsCurrent, MarkerVouches
  <2> QED
    BY <1>0, <2>2, <2>3 DEF UnmetInv
<1>2. ASSUME NEW n \in Nodes, GetNode(n) PROVE UnmetInv'
  <2> DEFINE config == IF stored[n] > 0 THEN stored[n] ELSE cloud[n]
  <2>1. /\ stored' = [stored EXCEPT ![n] = config] /\ applied' = [applied EXCEPT ![n] = config]
        /\ n \notin live /\ live' = live \cup {n}
        /\ UNCHANGED <<cloud, markers, handler, removing, logout, base>>
    BY <1>2 DEF GetNode
  <2>2. markers[n] > 0 /\ base[n] \notin {0, markers[n]} => config >= markers[n]
    BY <1>0, <1>t DEF MarkersArePublished, MarkerVouches
  <2> HIDE DEF config
  <2>3. stored'[n] = config /\ applied'[n] = config
        /\ \A m \in Nodes \ {n} : stored'[m] = stored[m] /\ applied'[m] = applied[m]
    BY <1>0, <2>1 DEF TypeOK, Blob
  <2>4. MarkersArePublished'
    BY <1>0, <2>1 DEF MarkersArePublished
  <2>5. WorkIsCurrent'
    <3>1. \A h \in Handlers : handler[h].at # "idle" => handler[h].node # n
      BY <1>0, <2>1 DEF WorkHasNode
    <3> QED
      BY <1>0, <1>h, <2>1, <2>3, <3>1 DEF WorkIsCurrent
  <2>6. MarkerVouches'
    BY <1>0, <2>1, <2>2, <2>3 DEF MarkerVouches
  <2> QED
    BY <1>0, <2>4, <2>5, <2>6 DEF UnmetInv
<1>3. ASSUME NEW n \in Nodes, NEW h \in Handlers, ShadowUpdate(n, h) PROVE UnmetInv'
  <2>1. stored' = [stored EXCEPT ![n] = applied[n]] /\ n \in live
        /\ UNCHANGED <<cloud, markers, live, applied, removing, logout, base>>
    BY <1>3 DEF ShadowUpdate, PersistWireConfig
  <2>2. \A g \in Handlers : handler'[g] = handler[g] \/ handler'[g].at = "comparing"
    BY <1>0, <1>3 DEF ShadowUpdate, TypeOK, Resting
  <2>3. stored'[n] = applied[n] /\ \A m \in Nodes \ {n} : stored'[m] = stored[m]
    BY <1>0, <2>1 DEF TypeOK, Blob
  <2>4. MarkersArePublished' /\ MarkerVouches'
    BY <1>0, <1>t, <2>1, <2>3 DEF MarkersArePublished, MarkerVouches
  <2>5. WorkIsCurrent'
    BY <1>0, <1>h, <1>t, <2>1, <2>2, <2>3 DEF WorkIsCurrent
  <2> QED
    BY <1>0, <2>4, <2>5 DEF UnmetInv
<1>4. ASSUME NEW h \in Handlers, Handle(h) PROVE UnmetInv'
  <2> DEFINE n == handler[h].node
             v == handler[h].ver
  <2>1. /\ handler[h].at # "idle" /\ n \in Nodes /\ n \in live /\ v \in 1..cloud[n] /\ v \in Nat
        /\ handler \in [Handlers -> Handler] /\ removing.node = NoNode /\ UNCHANGED <<cloud, live, removing, logout>>
        /\ \A g \in Handlers \ {h} : handler[g].at = "idle"
    <3>1. handler[h].at # "idle" /\ UNCHANGED <<cloud, live, removing, logout>>
      BY <1>4 DEF Handle, Compare, SaveBaseline, Sync, SyncFailed, PersistMarker, SaveMarker
    <3> QED
      BY <1>0, <1>h, <3>1 DEF WorkHasNode, AtMostOne, TypeOK
  <2>2. \A g \in Handlers \ {h} : handler'[g] = handler[g]
    BY <1>4, <2>1 DEF Handle, Compare, SaveBaseline, Sync, SyncFailed, PersistMarker, SaveMarker, Done, Marking
  <2>3. NoNode \notin Nodes
    BY CacheAssumption
  <2>4. WorkIsCurrent' <=>
          LET w == handler'[h] IN
          /\ w.at \in {"baselining", "saving"} => w.blob = markers'
          /\ w.at = "baselining" => markers'[w.node] = 0
          /\ w.at = "fetching" => w.since >= w.ver /\ w.since >= markers'[w.node]
          /\ w.at \in {"marking", "saving"} =>
               applied'[w.node] >= w.ver /\ (stored'[w.node] > 0 => stored'[w.node] >= w.ver)
    BY <2>1, <2>2, <2>3 DEF WorkIsCurrent
  <2>5. ASSUME Done(h) PROVE WorkIsCurrent'
    BY <2>1, <2>4, <2>5 DEF Done, Resting
  <2>6. CASE Compare(h)
    <3>1. UNCHANGED <<cloud, markers, stored, live, applied, base>>
      BY <2>6 DEF Compare
    <3>2. MarkersArePublished' /\ MarkerVouches'
      BY <1>0, <3>1 DEF MarkersArePublished, MarkerVouches
    <3>3. WorkIsCurrent'
      <4>1. CASE markers[n] = 0 /\ handler' = [handler EXCEPT ![h].at = "baselining", ![h].blob = markers]
        <5>1. handler'[h].at = "baselining" /\ handler'[h].blob = markers /\ handler'[h].node = n
          BY <1>h, <2>1, <4>1 DEF Handler
        <5> QED
          BY <2>4, <3>1, <4>1, <5>1
      <4>2. CASE handler' = [handler EXCEPT ![h].at = "fetching", ![h].since = cloud[n]]
        <5>1. handler'[h].at = "fetching" /\ handler'[h].since = cloud[n] /\ handler'[h].node = n /\ handler'[h].ver = v
          BY <1>h, <2>1, <4>2 DEF Handler
        <5>2. cloud[n] >= v /\ cloud[n] >= markers[n]
          BY <1>0, <1>t, <2>1 DEF MarkersArePublished
        <5> QED
          BY <2>4, <3>1, <5>1, <5>2
      <4> QED
        BY <2>5, <2>6, <4>1, <4>2 DEF Compare
    <3> QED
      BY <1>0, <3>2, <3>3 DEF UnmetInv
  <2>7. CASE SaveBaseline(h)
    <3>1. /\ handler[h].blob = markers /\ markers[n] = 0 /\ base[n] = 0
          /\ markers' = [markers EXCEPT ![n] = v] /\ base' = [base EXCEPT ![n] = v]
          /\ UNCHANGED <<cloud, stored, live, applied>> /\ Done(h)
      BY <1>0, <2>1, <2>7 DEF SaveBaseline, WorkIsCurrent, MarkersArePublished
    <3>2. markers'[n] = v /\ base'[n] = v /\ \A m \in Nodes \ {n} : markers'[m] = markers[m] /\ base'[m] = base[m]
      BY <1>0, <2>1, <3>1 DEF TypeOK, Blob
    <3>3. MarkersArePublished'
      BY <1>0, <1>t, <2>1, <3>1, <3>2 DEF MarkersArePublished
    <3>4. MarkerVouches'
      BY <1>0, <1>t, <2>1, <3>1, <3>2 DEF MarkerVouches
    <3> QED
      BY <1>0, <2>5, <3>1, <3>3, <3>4 DEF UnmetInv
  <2>8. CASE Sync(h)
    <3>1. PICK config \in handler[h].since..cloud[n] :
            applied' = [applied EXCEPT ![n] = config] /\ stored' = [stored EXCEPT ![n] = config]
      BY <2>8 DEF Sync
    <3>2. config >= v /\ config >= markers[n] /\ handler[h].at = "fetching" /\ Marking(h) /\ UNCHANGED <<markers, base>>
      BY <1>0, <1>h, <1>t, <2>1, <2>8, <3>1 DEF Sync, WorkIsCurrent
    <3>3. applied'[n] = config /\ stored'[n] = config
          /\ \A m \in Nodes \ {n} : applied'[m] = applied[m] /\ stored'[m] = stored[m]
      BY <1>0, <2>1, <3>1 DEF TypeOK, Blob
    <3>4. handler'[h].at = "marking" /\ handler'[h].node = n /\ handler'[h].ver = v
      BY <1>h, <2>1, <3>2 DEF Marking, Handler
    <3>5. WorkIsCurrent'
      BY <2>4, <3>2, <3>3, <3>4
    <3>6. MarkersArePublished' /\ MarkerVouches'
      BY <1>0, <2>1, <3>2, <3>3 DEF MarkersArePublished, MarkerVouches
    <3> QED
      BY <1>0, <3>5, <3>6 DEF UnmetInv
  <2>9. CASE SyncFailed(h)
    <3>1. UNCHANGED <<cloud, markers, stored, live, applied, base>> /\ Done(h)
      BY <2>9 DEF SyncFailed
    <3>2. MarkersArePublished' /\ MarkerVouches'
      BY <1>0, <3>1 DEF MarkersArePublished, MarkerVouches
    <3> QED
      BY <1>0, <2>5, <3>1, <3>2 DEF UnmetInv
  <2>10. CASE PersistMarker(h)
    <3>1. UNCHANGED <<cloud, markers, stored, live, applied, base>> /\ handler[h].at = "marking"
          /\ handler' = [handler EXCEPT ![h].at = "saving", ![h].blob = markers]
      BY <2>10 DEF PersistMarker
    <3>2. handler'[h].at = "saving" /\ handler'[h].blob = markers /\ handler'[h].node = n /\ handler'[h].ver = v
      BY <1>h, <2>1, <3>1 DEF Handler
    <3>3. WorkIsCurrent'
      BY <1>0, <2>4, <3>1, <3>2 DEF WorkIsCurrent
    <3>4. MarkersArePublished' /\ MarkerVouches'
      BY <1>0, <3>1 DEF MarkersArePublished, MarkerVouches
    <3> QED
      BY <1>0, <3>3, <3>4 DEF UnmetInv
  <2>11. CASE SaveMarker(h)
    <3>1. /\ handler[h].blob = markers /\ markers' = [markers EXCEPT ![n] = v]
          /\ applied[n] >= v /\ (stored[n] > 0 => stored[n] >= v)
          /\ UNCHANGED <<cloud, stored, live, applied, base>> /\ Done(h)
      BY <1>0, <2>1, <2>11 DEF SaveMarker, WorkIsCurrent
    <3>2. markers'[n] = v /\ \A m \in Nodes \ {n} : markers'[m] = markers[m]
      BY <1>0, <2>1, <3>1 DEF TypeOK, Blob
    <3>3. MarkersArePublished'
      BY <1>0, <1>t, <2>1, <3>1, <3>2 DEF MarkersArePublished
    <3>4. MarkerVouches'
      BY <1>0, <1>t, <2>1, <3>1, <3>2 DEF MarkerVouches
    <3> QED
      BY <1>0, <2>5, <3>1, <3>3, <3>4 DEF UnmetInv
  <2> QED
    BY <1>4, <2>6, <2>7, <2>8, <2>9, <2>10, <2>11 DEF Handle
<1>5. ASSUME NEW n \in Nodes, RemoveNode(n) PROVE UnmetInv'
  <2>1. stored' = [stored EXCEPT ![n] = 0] /\ removing' = [node |-> n, blob |-> markers]
        /\ UNCHANGED <<cloud, markers, live, applied, handler, logout, base>>
    BY <1>5 DEF RemoveNode
  <2>2. stored'[n] = 0 /\ \A m \in Nodes \ {n} : stored'[m] = stored[m]
    BY <1>0, <2>1 DEF TypeOK, Blob
  <2>3. WorkIsCurrent'
    BY <1>0, <1>h, <2>1, <2>2 DEF WorkIsCurrent
  <2>4. MarkersArePublished' /\ MarkerVouches'
    BY <1>0, <2>1, <2>2 DEF MarkersArePublished, MarkerVouches
  <2> QED
    BY <1>0, <2>3, <2>4 DEF UnmetInv
<1>6. ASSUME ClearMarker PROVE UnmetInv'
  <2> DEFINE n == removing.node
  <2>1. n \in Nodes /\ n # NoNode /\ removing.blob = markers /\ removing' = NotRemoving /\ NoNode \notin Nodes
        /\ UNCHANGED <<cloud, stored, live, applied, handler>>
    BY <1>0, <1>6, CacheAssumption DEF ClearMarker, WorkIsCurrent, TypeOK
  <2>2. markers'[n] = 0 /\ \A m \in Nodes \ {n} : markers'[m] = markers[m]
    BY <1>0, <1>6, <2>1 DEF ClearMarker, TypeOK, Blob
  <2>3. base'[n] = 0 /\ \A m \in Nodes \ {n} : base'[m] = base[m]
    BY <1>0, <1>6, <2>1, <2>2 DEF ClearMarker, TypeOK, Blob
  <2>4. \A h \in Handlers : handler[h].at = "idle"
    BY <1>0, <2>1 DEF AtMostOne
  <2>5. WorkIsCurrent'
    BY <2>1, <2>4 DEF WorkIsCurrent, NotRemoving
  <2>6. MarkersArePublished' /\ MarkerVouches'
    BY <1>0, <1>t, <2>1, <2>2, <2>3 DEF MarkersArePublished, MarkerVouches
  <2> QED
    BY <1>0, <2>5, <2>6 DEF UnmetInv
<1>7. ASSUME ClearNodeConfigCache PROVE UnmetInv'
  <2>1. live' = {} /\ UNCHANGED <<cloud, markers, stored, handler, removing, base>>
        /\ \A h \in Handlers : handler[h].at = "idle"
    BY <1>7 DEF ClearNodeConfigCache, Quiet, Resting
  <2> QED
    BY <1>0, <2>1 DEF UnmetInv, WorkIsCurrent, MarkersArePublished, MarkerVouches
<1>8. ASSUME ClearAllMarkers PROVE UnmetInv'
  <2>1. \A m \in Nodes : markers'[m] = 0 /\ base'[m] = 0
    <3>1. logout.ids = {} => \A m \in Nodes : markers[m] = 0
      BY <1>0, <1>t, <1>8 DEF ClearAllMarkers, LogoutIsAlone
    <3> QED
      BY <1>8, <3>1 DEF ClearAllMarkers, Empty
  <2>2. UNCHANGED <<cloud, stored, live, applied, handler, removing>> /\ removing.node \notin Nodes
        /\ \A h \in Handlers : handler[h].at = "idle"
    BY <1>0, <1>8, CacheAssumption DEF ClearAllMarkers, LogoutIsAlone, Quiet, Resting, NotRemoving
  <2> QED
    BY <1>0, <1>t, <2>1, <2>2 DEF UnmetInv, WorkIsCurrent, MarkersArePublished, MarkerVouches
<1>9. ASSUME DropConfigs PROVE UnmetInv'
  <2>1. \A m \in Nodes : markers[m] = 0
    BY <1>0, <1>9 DEF DropConfigs, LogoutIsAlone, Empty
  <2>2. UNCHANGED <<cloud, markers, live, applied, handler, removing, base>> /\ removing.node \notin Nodes
        /\ \A h \in Handlers : handler[h].at = "idle"
    BY <1>0, <1>9, CacheAssumption DEF DropConfigs, LogoutIsAlone, Quiet, Resting, NotRemoving
  <2> QED
    BY <1>0, <2>1, <2>2 DEF UnmetInv, WorkIsCurrent, MarkersArePublished, MarkerVouches
<1>10. ASSUME Login PROVE UnmetInv'
  BY <1>0, <1>10 DEF Login, UnmetInv, WorkIsCurrent, MarkersArePublished, MarkerVouches
<1>11. ASSUME Restart PROVE UnmetInv'
  <2>1. live' = {} /\ UNCHANGED <<cloud, markers, stored, base>> /\ removing'.node = NoNode /\ NoNode \notin Nodes
        /\ \A h \in Handlers : handler'[h].at = "idle"
    BY <1>11, CacheAssumption DEF Restart, Resting, NotRemoving
  <2>2. WorkIsCurrent'
    BY <2>1 DEF WorkIsCurrent
  <2>3. MarkersArePublished'
    BY <1>0, <2>1 DEF MarkersArePublished
  <2>4. MarkerVouches'
    BY <1>0, <2>1 DEF MarkerVouches
  <2> QED
    BY <1>0, <2>2, <2>3, <2>4 DEF UnmetInv
<1> QED
  BY <1>1, <1>2, <1>3, <1>4, <1>5, <1>6, <1>7, <1>8, <1>9, <1>10, <1>11 DEF Next

\* As long as updates and removals follow one another, a marker never runs ahead of the
\* configuration it stands for, cached or in memory, for any nodes, versions and order
\* of events, the end of the process included (refreshConfigIfNcfgChanged, sync,
\* persistNcfgVersionMarker).
THEOREM MarkersVouchAlone == MCSpec => []UnmetMarkerVouches
<1> DEFINE Inv == CacheInv /\ (met = "nobody" => UnmetInv) /\ met \in {"nobody", "other", "same"}
<1>1. MCInit => Inv
  BY CacheStarts, UnmetStarts DEF MCInit
<1>2. Inv /\ [MCNext]_<<vars, met>> => Inv'
  <2> SUFFICES ASSUME Inv, [MCNext]_<<vars, met>> PROVE Inv'
    OBVIOUS
  <2>1. CASE MCNext
    <3>1. CacheInv'
      BY <2>1, CacheStep DEF MCNext
    <3>2. Met' \in {"nobody", "other", "same"}
      BY DEF Met
    <3>3. met' \in {"nobody", "other", "same"} /\ (met' = "nobody" => met = "nobody" /\ Met' = "nobody")
      BY <2>1, <3>2 DEF MCNext
    <3>4. met' = "nobody" => UnmetInv'
      BY <2>1, <3>1, <3>3, OneAtATime, UnmetStep DEF MCNext
    <3> QED
      BY <3>1, <3>3, <3>4
  <2>2. CASE UNCHANGED <<vars, met>>
    <3>1. CacheInv'
      BY <2>2, CacheStep
    <3>2. UnmetInv => UnmetInv'
      BY <2>2 DEF vars, UnmetInv, AtMostOne, WorkIsCurrent, MarkersArePublished, MarkerVouches
    <3> QED
      BY <2>2, <3>1, <3>2
  <2> QED
    BY <2>1, <2>2
<1>3. Inv => UnmetMarkerVouches
  BY DEF UnmetInv, UnmetMarkerVouches
<1> QED
  BY <1>1, <1>2, <1>3, PTL DEF MCSpec
=============================================================================
