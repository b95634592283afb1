--------------------------- MODULE NodeConfigCache ---------------------------
(***************************************************************************)
(* The node configurations the SDK caches and the ncfg_ver markers that    *)
(* tell it when to fetch one anew: getNode, the shadow updates of a live   *)
(* node, sync, removeNode and logout (ESPRMNeoNode.ts, nodeUtils.ts,       *)
(* nodeNcfgVersionHandler.ts).                                             *)
(*                                                                         *)
(* A configuration is the number of the version it has.  All markers are   *)
(* one blob in storage, read and written whole with awaits in between.     *)
(* Storage carries out calls in the order they are made and does not fail. *)
(***************************************************************************)
EXTENDS Naturals, FiniteSets

CONSTANTS Nodes,
          Handlers,       \* shadow updates that can be handled at once
          NoNode,
          MaxVersion      \* bound on the versions of a configuration

ASSUME CacheAssumption ==
  /\ NoNode \notin Nodes
  /\ MaxVersion \in Nat \ {0}

VARIABLES
  cloud,     \* the version the node has published
  markers,   \* the blob NCFG_VERSIONS: node -> version, 0 if it has no entry
  stored,    \* node -> cached configuration, 0 if there is none
  live,      \* the nodes with a subscribed ESPRMNeoNode
  applied,   \* the configuration that object holds
  handler,   \* refreshConfigIfNcfgChanged, update by update
  removing,  \* clearLocalNodeCache, at its marker
  logout,    \* clearNodeConfigCache: the node ids it got, and where it is
  base       \* the version first sighted since the marker was last cleared

storeVars == <<markers, stored>>
vars == <<cloud, markers, stored, live, applied, handler, removing, logout, base>>

Version == 0..MaxVersion
Blob == [Nodes -> Version]
Empty == [n \in Nodes |-> 0]
At == {"idle", "comparing", "baselining", "fetching", "marking", "saving"}
Handler == [at : At, node : Nodes \cup {NoNode}, ver : Version, since : Version, blob : Blob]
Resting == [at |-> "idle", node |-> NoNode, ver |-> 0, since |-> 0, blob |-> Empty]
NotRemoving == [node |-> NoNode, blob |-> Empty]

Init ==
  /\ cloud = [n \in Nodes |-> 1]
  /\ markers = Empty /\ stored = Empty
  /\ live = {} /\ applied = Empty
  /\ handler = [h \in Handlers |-> Resting]
  /\ removing = NotRemoving
  /\ logout = [at |-> "off", ids |-> {}]
  /\ base = Empty

Quiet == handler = [h \in Handlers |-> Resting] /\ removing = NotRemoving

-----------------------------------------------------------------------------
(* The node, the broker and getNode.                                       *)

Publish(n) ==
  /\ cloud[n] < MaxVersion
  /\ cloud' = [cloud EXCEPT ![n] = @ + 1]
  /\ UNCHANGED <<storeVars, live, applied, handler, removing, logout, base>>

\* getNode: the cached configuration, or else the cloud's, which it caches.
GetNode(n) ==
  /\ n \notin live /\ logout.at = "off"
  /\ LET config == IF stored[n] > 0 THEN stored[n] ELSE cloud[n] IN
       /\ stored' = [stored EXCEPT ![n] = config]
       /\ applied' = [applied EXCEPT ![n] = config]
  /\ live' = live \cup {n}
  /\ UNCHANGED <<cloud, markers, handler, removing, logout, base>>

\* processNodeUpdate writes the object's configuration back with every update.
PersistWireConfig(n) == stored' = [stored EXCEPT ![n] = applied[n]]

ShadowUpdate(n, h) ==
  /\ n \in live /\ handler[h].at = "idle"
  /\ PersistWireConfig(n)
  /\ \/ UNCHANGED handler                    \* it carries no ncfg_ver
     \/ \E v \in 1..cloud[n] :            \* a late update carries an old one
          handler' = [handler EXCEPT ![h] =
            [Resting EXCEPT !.at = "comparing", !.node = n, !.ver = v]]
  /\ UNCHANGED <<cloud, markers, live, applied, removing, logout, base>>

-----------------------------------------------------------------------------
(* refreshConfigIfNcfgChanged, await by await.                             *)

Marking(h) == handler' = [handler EXCEPT ![h].at = "marking", ![h].since = 0]
Done(h) == handler' = [handler EXCEPT ![h] = Resting]

Compare(h) ==
  LET n == handler[h].node  v == handler[h].ver IN
  /\ handler[h].at = "comparing"
  /\ \/ /\ markers[n] = 0
        /\ handler' = [handler EXCEPT ![h].at = "baselining", ![h].blob = markers]
     \/ markers[n] = v /\ Done(h)
     \/ /\ markers[n] \notin {0, v}
        /\ handler' = [handler EXCEPT ![h].at = "fetching", ![h].since = cloud[n]]
  /\ UNCHANGED <<cloud, storeVars, live, applied, removing, logout, base>>

\* First sighting: the version is taken for the one the configuration has.
SaveBaseline(h) ==
  LET n == handler[h].node  v == handler[h].ver IN
  /\ handler[h].at = "baselining"
  /\ markers' = [handler[h].blob EXCEPT ![n] = v]
  /\ base' = [base EXCEPT ![n] = IF @ = 0 THEN v ELSE @]
  /\ Done(h)
  /\ UNCHANGED <<cloud, stored, live, applied, removing, logout>>

\* Mutation: the fetched configuration is cached, and applied at the next start.
SyncCacheOnly(h) ==
  LET n == handler[h].node IN
  /\ handler[h].at = "fetching"
  /\ \E config \in handler[h].since..cloud[n] : stored' = [stored EXCEPT ![n] = config]
  /\ Marking(h)
  /\ UNCHANGED <<cloud, markers, live, applied, removing, logout, base>>

\* sync: what the cloud had when it answered is applied, then cached.
Sync(h) ==
  LET n == handler[h].node IN
  /\ handler[h].at = "fetching"
  /\ \E config \in handler[h].since..cloud[n] :
       /\ applied' = [applied EXCEPT ![n] = config]
       /\ stored' = [stored EXCEPT ![n] = config]
  /\ Marking(h)
  /\ UNCHANGED <<cloud, markers, live, removing, logout, base>>

\* Mutation: a failed sync is logged, and the marker saved all the same.
SyncFailedGoesOn(h) ==
  /\ handler[h].at = "fetching"
  /\ Marking(h)
  /\ UNCHANGED <<cloud, storeVars, live, applied, removing, logout, base>>

SyncFailed(h) ==
  /\ handler[h].at = "fetching"
  /\ Done(h)
  /\ UNCHANGED <<cloud, storeVars, live, applied, removing, logout, base>>

PersistMarker(h) ==
  /\ handler[h].at = "marking"
  /\ handler' = [handler EXCEPT ![h].at = "saving", ![h].blob = markers]
  /\ UNCHANGED <<cloud, storeVars, live, applied, removing, logout, base>>

SaveMarker(h) ==
  /\ handler[h].at = "saving"
  /\ markers' = [handler[h].blob EXCEPT ![handler[h].node] = handler[h].ver]
  /\ Done(h)
  /\ UNCHANGED <<cloud, stored, live, applied, removing, logout, base>>

-----------------------------------------------------------------------------
(* removeNode and delete; logout; the end of the process.                  *)

\* clearLocalNodeCache, up to the answer to its read of the markers.  The node's
\* object stays subscribed.
RemoveNode(n) ==
  /\ removing = NotRemoving /\ logout.at = "off"
  /\ stored' = [stored EXCEPT ![n] = 0]
  /\ removing' = [node |-> n, blob |-> markers]
  /\ UNCHANGED <<cloud, markers, live, applied, handler, logout, base>>

ClearMarker ==
  LET n == removing.node IN
  /\ n # NoNode
  /\ markers' = IF removing.blob[n] = 0 THEN markers ELSE [removing.blob EXCEPT ![n] = 0]
  /\ base' = [base EXCEPT ![n] = IF markers'[n] = 0 THEN 0 ELSE @]
  /\ removing' = NotRemoving
  /\ UNCHANGED <<cloud, stored, live, applied, handler, logout>>

\* resetSession has dropped the subscriptions when logout clears the cache.  A
\* logout waits for what is under way: that it does not in the code is the matter
\* of SessionCredentials.
ClearNodeConfigCache ==
  /\ logout.at = "off" /\ Quiet
  /\ live' = {} /\ applied' = Empty
  /\ logout' = [at |-> "clearing", ids |-> {n \in Nodes : markers[n] > 0}]
  /\ UNCHANGED <<cloud, storeVars, handler, removing, base>>

ClearAllMarkers ==
  /\ logout.at = "clearing"
  /\ markers' = IF logout.ids = {} THEN markers ELSE Empty
  /\ base' = Empty
  /\ logout' = [logout EXCEPT !.at = "dropping"]
  /\ UNCHANGED <<cloud, stored, live, applied, handler, removing>>

\* Mutations: only live nodes are dropped; only the dropped nodes keep an entry.
DroppedLive(ids) == [n \in Nodes |-> IF n \in ids \cap live THEN 0 ELSE stored[n]]
DroppedRebuilt(ids) == [n \in ids |-> 0]

\* The configurations of the nodes that had a marker, and only those.
Dropped(ids) == [n \in Nodes |-> IF n \in ids THEN 0 ELSE stored[n]]

DropConfigs ==
  /\ logout.at = "dropping"
  /\ stored' = Dropped(logout.ids)
  /\ logout' = [at |-> "done", ids |-> {}]
  /\ UNCHANGED <<cloud, markers, live, applied, handler, removing, base>>

\* The next user signs in.
Login ==
  /\ logout.at = "done"
  /\ logout' = [at |-> "off", ids |-> {}]
  /\ UNCHANGED <<cloud, storeVars, live, applied, handler, removing, base>>

Restart ==
  /\ live' = {} /\ applied' = Empty
  /\ handler' = [h \in Handlers |-> Resting]
  /\ removing' = NotRemoving
  /\ logout' = [at |-> "off", ids |-> {}]
  /\ UNCHANGED <<cloud, storeVars, base>>

Handle(h) == Compare(h) \/ SaveBaseline(h) \/ Sync(h) \/ SyncFailed(h) \/ PersistMarker(h) \/ SaveMarker(h)

Next ==
  \/ \E n \in Nodes : Publish(n) \/ GetNode(n) \/ RemoveNode(n) \/ \E h \in Handlers : ShadowUpdate(n, h)
  \/ \E h \in Handlers : Handle(h)
  \/ ClearMarker \/ ClearNodeConfigCache \/ ClearAllMarkers \/ DropConfigs \/ Login \/ Restart

Spec == Init /\ [][Next]_vars

-----------------------------------------------------------------------------
(* Properties *)

\* Type correctness.
TypeOK ==
  /\ cloud \in Blob /\ markers \in Blob /\ stored \in Blob
  /\ live \subseteq Nodes /\ applied \in Blob
  /\ handler \in [Handlers -> Handler]
  /\ removing \in [node : Nodes \cup {NoNode}, blob : Blob]
  /\ logout \in [at : {"off", "clearing", "dropping", "done"}, ids : SUBSET Nodes]
  /\ base \in Blob

\* A marker past the first sighting vouches for the configuration: neither the
\* cached one nor the object's is older, at any moment the app may be killed.
\* If it were, no later update of that version would ever repair it (the order of
\* sync and persistNcfgVersionMarker in refreshConfigIfNcfgChanged).
MarkerVouches ==
  \A n \in Nodes : markers[n] > 0 /\ base[n] \notin {0, markers[n]} =>
    /\ stored[n] > 0 => stored[n] >= markers[n]
    /\ n \in live => applied[n] >= markers[n]

\* When nothing is under way, a schema change that was seen has been fetched: the
\* promise of the header of nodeNcfgVersionHandler, in any order of the steps.
ChangeIsFetched == Quiet => MarkerVouches

\* What is cached for a live node is what its object holds: in whatever order
\* fetches answer and updates write the object back, storage follows memory
\* (applyNodeConfig before the write in sync, persistWireConfig).
CacheIsApplied == \A n \in live : stored[n] \in {0, applied[n]}

\* Marks and configurations go together: once a logout is over, no marker is
\* left, nor the configuration of a node that had one (clearNodeConfigCache).
LogoutClearsTracked == [][logout.at = "dropping" /\ logout'.at = "done" =>
                            markers' = Empty /\ \A n \in logout.ids : stored'[n] = 0]_vars
=============================================================================
