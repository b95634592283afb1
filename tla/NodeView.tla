-------------------------------- MODULE NodeView --------------------------------
(* What the app holds of a node: the ESPRMNeoNode object with its parameters'      *)
(* values, its configuration's copy of them (config.params) and its connectivity,   *)
(* and the entry of storage the object writes with every update (ESPRMNeoNode.ts,    *)
(* paramValues.ts, nodeUtils.ts, Sync.ts, the two GetParams.ts). A slot is a          *)
(* parameter of an entity, a device or a service; 0 stands for no value. Promises      *)
(* over stored data settle in order, so a read of storage gets what was stored when    *)
(* it was made, and is applied later.                                                   *)
EXTENDS Naturals

CONSTANTS Entities,   \* each the set of its slots
          SlotValues

VARIABLES
  node,       \* the object
  entry,      \* what is stored of it: params, whether online
  read,       \* a device's getParams from storage
  crossings   \* what else wrote to the object: see NodeMirrorsStore

viewVars == <<node, entry, read, crossings>>

Slots == UNION Entities
NoParams == [s \in Slots |-> 0]
Params == [Slots -> SlotValues \cup {0}]
Partial(slots) == UNION {[d -> SlotValues] : d \in SUBSET slots}
\* An update of more parameters does what updates of each of them would.
UpdateParams == UNION {[d -> SlotValues] : d \in {{}} \cup {{s} : s \in Slots}}
NoNode == [live |-> FALSE, values |-> NoParams, params |-> NoParams, connected |-> FALSE]
NoRead == [slots |-> {}, got |-> NoParams]
NoEntry == [is |-> FALSE, params |-> NoParams, status |-> "none"]
NothingMet == [slots |-> {}, crossed |-> {}, fetched |-> FALSE, unsaved |-> FALSE]

ViewInit == node = NoNode /\ entry = NoEntry /\ read = NoRead /\ crossings = NothingMet

\* What the map has, and the rest as it was.
Overlaid(params, p) == [s \in Slots |-> IF s \in DOMAIN p THEN p[s] ELSE params[s]]

\* applyValuesToParams.
ApplyParamValues(values, p) == Overlaid(values, p)

\* Mutation: an entity's entry is replaced, its other parameters are lost.
MergeShallow(params, p) ==
  [s \in Slots |-> IF s \in DOMAIN p THEN p[s]
                   ELSE IF \E e \in Entities : s \in e /\ e \cap DOMAIN p # {} THEN 0 ELSE params[s]]

MergeParamMaps(params, p) == Overlaid(params, p)

Status(connected) == IF connected THEN "on" ELSE "off"

\* persistWireConfig, setNodeConfig: the configuration, its parameters, the
\* connectivity. A write that fails is not tried again.
PersistWireConfig(params, connected, saved) ==
  entry' = IF saved THEN [is |-> TRUE, params |-> params, status |-> Status(connected)] ELSE entry

-----------------------------------------------------------------------------
(* The object is made, updated, built anew.                                     *)

\* The constructor: applyNodeConfig, which applies the parameters the configuration has.
NewNode(params, connected) ==
  node' = [live |-> TRUE, values |-> ApplyParamValues(NoParams, params), params |-> params, connected |-> connected]

\* getNode from storage.
GetStoredNode ==
  /\ ~node.live /\ entry.is
  /\ NewNode(entry.params, entry.status = "on")
  /\ crossings' = NothingMet
  /\ UNCHANGED <<entry, read>>

\* getNode from the cloud, whose configurations have neither parameters nor
\* connectivity: the one last stored is stored again, the object is not told of it.
FetchCloudNode ==
  /\ ~node.live
  /\ entry' = [is |-> TRUE, params |-> NoParams, status |-> entry.status]
  /\ NewNode(NoParams, FALSE)
  /\ crossings' = [NothingMet EXCEPT !.fetched = TRUE]
  /\ UNCHANGED read

\* handleNodeUpdate: the parameters reported, the connectivity if it is reported.
HandleNodeUpdate(p, online, saved) ==
  LET params == MergeParamMaps(node.params, p)
      connected == IF online = "none" THEN node.connected ELSE online = "on" IN
  /\ node.live
  /\ node' = [node EXCEPT !.values = ApplyParamValues(@, p), !.params = params, !.connected = connected]
  /\ PersistWireConfig(params, connected, saved)
  /\ crossings' = [slots |-> crossings.slots \ DOMAIN p, crossed |-> crossings.crossed \cup (DOMAIN p \cap read.slots),
             fetched |-> crossings.fetched /\ ~saved,
             unsaved |-> ~saved]
  /\ UNCHANGED read

\* sync: the cloud's configuration is applied, which drops the values, and stored
\* with the object's connectivity. Devices are new: a read under way ends in the old.
Sync(saved) ==
  /\ node.live
  /\ node' = [node EXCEPT !.values = NoParams, !.params = NoParams]
  /\ PersistWireConfig(NoParams, node.connected, saved)
  /\ read' = NoRead
  /\ crossings' = [NothingMet EXCEPT !.unsaved = ~saved, !.fetched = crossings.fetched /\ ~saved]

\* delete, removeNode: the entry goes, the object stays subscribed.
ClearLocalNodeCache ==
  /\ entry.is
  /\ entry' = NoEntry
  /\ UNCHANGED <<node, read, crossings>>

\* The process ends.
Ends ==
  /\ node.live
  /\ node' = NoNode /\ read' = NoRead /\ crossings' = NothingMet
  /\ UNCHANGED entry

-----------------------------------------------------------------------------
(* Parameters are read.                                                         *)

\* A device's getParams from storage: what is stored of it, applied when storage
\* has answered.
StartCachedRead(e) ==
  /\ node.live /\ read = NoRead
  /\ read' = [slots |-> e, got |-> [s \in Slots |-> IF s \in e THEN entry.params[s] ELSE 0]]
  /\ crossings' = [crossings EXCEPT !.crossed = IF crossings.unsaved THEN e ELSE {}]
  /\ UNCHANGED <<node, entry>>

CachedReadEnds ==
  /\ read # NoRead
  /\ node' = [node EXCEPT !.values = [s \in Slots |-> IF read.got[s] # 0 THEN read.got[s] ELSE @[s]]]
  /\ read' = NoRead
  /\ crossings' = [crossings EXCEPT !.slots = @ \cup crossings.crossed, !.crossed = {}]
  /\ UNCHANGED entry

\* getParams of a service, or of a device with the cache off: what the node answers
\* is applied to the object, and nowhere else.
LiveRead(e) ==
  /\ node.live
  /\ \E p \in Partial(e) :
       /\ node' = [node EXCEPT !.values = ApplyParamValues(@, p)]
       /\ crossings' = [crossings EXCEPT !.slots = @ \cup DOMAIN p]
  /\ UNCHANGED <<entry, read>>

ViewNext ==
  \/ GetStoredNode \/ FetchCloudNode \/ ClearLocalNodeCache \/ Ends \/ CachedReadEnds
  \/ \E saved \in BOOLEAN : Sync(saved) \/ \E p \in UpdateParams, online \in {"none", "on", "off"} : HandleNodeUpdate(p, online, saved)
  \/ \E e \in Entities : StartCachedRead(e) \/ LiveRead(e)

ViewSpec == ViewInit /\ [][ViewNext]_viewVars

-----------------------------------------------------------------------------
(* Properties *)

ViewTypeOK ==
  /\ node \in [live : BOOLEAN, values : Params, params : Params, connected : BOOLEAN]
  /\ entry \in [is : BOOLEAN, params : Params, status : {"none", "on", "off"}]
  /\ read \in [slots : Entities \cup {{}}, got : Params]
  /\ crossings \in [slots : SUBSET Slots, crossed : SUBSET Slots, fetched : BOOLEAN, unsaved : BOOLEAN]

\* Object, configuration and storage say the same of a node, in whatever order
\* updates, syncs, reads and restarts come. A value of the object is its
\* configuration's, except where the node answered a read, or an update came while
\* storage was read or failed to be written before; what is stored is the object's
\* configuration and, once it was written, connectivity, unless the last write
\* failed (processNodeUpdate, applyNodeConfig, sync, getParams).
NodeMirrorsStore ==
  node.live =>
    /\ \A s \in Slots : node.values[s] # node.params[s] => s \in crossings.slots
    /\ entry.is /\ ~crossings.unsaved => entry.params = node.params
    /\ entry.is /\ ~crossings.unsaved /\ ~crossings.fetched => (node.connected <=> entry.status = "on")
=============================================================================
