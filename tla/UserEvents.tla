------------------------------ MODULE UserEvents ------------------------------
(* The events a user object subscribes its callbacks to                          *)
(* (methods/ESPRMNeoUser/EventSubscription.ts): discovery on the local network,   *)
(* updates of all nodes, and events of the app's own, which may bring discovery    *)
(* parameters. Each event has one callback, and one teardown that stops its        *)
(* source: a discovery on the adapter in place, or a listener on the one           *)
(* node-updates bus. Every operation is synchronous. Disposing of the SDK takes     *)
(* the adapter away and leaves users, bus and what runs on the adapter as they are. *)
EXTENDS FiniteSets

CONSTANTS
  Users,        \* user objects; logging in anew makes another
  OwnEvents,    \* events of the app's own
  EventCbs,
  NoEventCb

VARIABLES
  eventCallbacks,  \* per user and event
  eventTeardowns,  \* per user and event: what stopping it stops
  adapter,         \* [set, running, former]: is there one, for which events the last one set
                   \* discovers, and for which those that were replaced still do
  busListeners,    \* whose listener is on the bus
  attended         \* user and event that were subscribed, and nobody cut off (history)

eventVars == <<eventCallbacks, eventTeardowns, adapter, busListeners, attended>>

Events == {"localDiscovery", "nodeUpdates"} \cup OwnEvents
Sources == Users \X Events

ASSUME EventAssumption == NoEventCb \notin EventCbs

\* What a discovery finds: a node that says it serves local control, one that says
\* what else it does, one that says nothing.
Infos == {"local_ctrl", "other", "unsaid"}

EventInit ==
  /\ eventCallbacks = [s \in Sources |-> NoEventCb] /\ eventTeardowns = [s \in Sources |-> "none"]
  /\ adapter = [set |-> TRUE, running |-> {}, former |-> {}] /\ busListeners = {}
  /\ attended = {}

\* parseCapabilities and toDiscoveredNodeData: a node that lists its capabilities
\* must list local control.
IsLocal(info) == info # "other"

(* --- What a call does, as functions of the state ------------------------------------- *)

State == [cbs |-> eventCallbacks, tear |-> eventTeardowns, adapter |-> adapter, bus |-> busListeners,
          cut |-> {}, thrown |-> FALSE]

\* unsubscribe: the callback goes, the source is stopped, the teardown goes. Without
\* an adapter a discovery cannot be stopped; stopping one stops the only one of the
\* adapter in place, which need not be the one that was started.
UnsubscribeIn(st, s) ==
  LET gone == [st EXCEPT !.cbs[s] = NoEventCb, !.cut = @ \cup {s}]
  IN CASE st.tear[s] = "none" -> gone
       [] st.tear[s] = "bus" -> [gone EXCEPT !.bus = @ \ {s[1]}, !.tear[s] = "none"]
       [] st.tear[s] = "discovery" /\ st.adapter.set ->
            [gone EXCEPT !.cut = @ \cup st.adapter.running, !.adapter.running = {}, !.tear[s] = "none"]
       [] OTHER -> [gone EXCEPT !.thrown = TRUE]

\* ESPDiscoveryManager: the constructor wants an adapter, which may refuse to start.
StartDiscovery(st, s, refuses) ==
  IF ~st.adapter.set \/ refuses THEN [st EXCEPT !.thrown = TRUE]
  ELSE [st EXCEPT !.adapter.running = @ \cup {s}, !.tear[s] = "discovery"]

StartNodeUpdates(st, s) == [st EXCEPT !.bus = @ \cup {s[1]}, !.tear[s] = "bus"]

\* Mutation: the callback is replaced and the source of the previous one left alone.
SubscribeInOver(st, s, cb, discovers, refuses) ==
  LET set == [st EXCEPT !.cbs[s] = cb, !.tear[s] = "none"]
  IN IF s[2] = "nodeUpdates" THEN StartNodeUpdates(set, s) ELSE IF discovers THEN StartDiscovery(set, s, refuses) ELSE set

\* subscribe: the previous subscription is undone, the callback set, the source started.
SubscribeIn(st, s, cb, discovers, refuses) ==
  LET undone == UnsubscribeIn(st, s)
      set == [undone EXCEPT !.cbs[s] = cb]
  IN IF undone.thrown THEN undone
     ELSE IF s[2] = "nodeUpdates" THEN StartNodeUpdates(set, s)
     ELSE IF discovers THEN StartDiscovery(set, s, refuses) ELSE set

Becomes(st) ==
  /\ eventCallbacks' = st.cbs /\ eventTeardowns' = st.tear /\ adapter' = st.adapter /\ busListeners' = st.bus

(* --- Operations ---------------------------------------------------------------------- *)

Subscribe(s, cb, discovers, refuses) ==
  /\ s[2] = "localDiscovery" => discovers
  /\ s[2] = "nodeUpdates" => ~discovers
  /\ refuses => discovers
  /\ LET st == SubscribeIn(State, s, cb, discovers, refuses)
     IN Becomes(st) /\ attended' = (attended \ st.cut) \cup (IF st.thrown THEN {} ELSE {s})

Unsubscribe(s) ==
  LET st == UnsubscribeIn(State, s) IN Becomes(st) /\ attended' = attended \ st.cut

\* removeAllCallbacks: of every event that has a callback or a teardown. When one
\* throws the rest remain.
HasAny(u, s) == s[1] = u /\ (eventCallbacks[s] # NoEventCb \/ eventTeardowns[s] # "none")

RemoveAllCallbacks(u) ==
  LET mine == {s \in Sources : HasAny(u, s)}
      discovering == {s \in mine : eventTeardowns[s] = "discovery"}
      stops == adapter.set \/ discovering = {}
  IN \E done \in SUBSET mine :
       /\ IF stops THEN done = mine ELSE Cardinality(done \cap discovering) = 1
       /\ eventCallbacks' = [s \in Sources |-> IF s \in done THEN NoEventCb ELSE eventCallbacks[s]]
       /\ eventTeardowns' = [s \in Sources |-> IF s \in done /\ (stops \/ s \notin discovering) THEN "none" ELSE eventTeardowns[s]]
       /\ adapter' = IF stops /\ discovering # {} THEN [adapter EXCEPT !.running = {}] ELSE adapter
       /\ busListeners' = {v \in busListeners : <<v, "nodeUpdates">> \notin {s \in done : eventTeardowns[s] = "bus"}}
       /\ attended' = attended \ (done \cup IF stops /\ discovering # {} THEN adapter.running ELSE {})

\* ESPRMNeoBase.dispose: the adapter goes; nobody stops it or clears the bus.
RemoveAdapter ==
  /\ adapter' = [adapter EXCEPT !.set = FALSE]
  /\ UNCHANGED <<eventCallbacks, eventTeardowns, busListeners, attended>>

\* setLocalDiscoveryAdapter, or configure: the same as before, or another, which
\* leaves the one it replaces discovering. (None that was replaced is set again.)
SetAdapter(another) ==
  /\ adapter' = IF another THEN [set |-> TRUE, running |-> {}, former |-> adapter.former \cup adapter.running]
                ELSE [adapter EXCEPT !.set = TRUE]
  /\ UNCHANGED <<eventCallbacks, eventTeardowns, busListeners, attended>>

(* --- What the sources bring: it changes nothing here, and calls callbacks ----------- *)

\* trigger: the callback there is now, <<its event, itself, what it hears>>.
Triggered(to, what) == {<<s, eventCallbacks[s], what>> : s \in {x \in to : eventCallbacks[x] # NoEventCb}}

\* An adapter finds a node, for every discovery that runs.
Discovered(info) == Triggered({s \in adapter.running \cup adapter.former : s[2] = "localDiscovery" => IsLocal(info)}, info)

\* emitNodeUpdate: every listener, whatever another's callback throws.
EmitNodeUpdate == Triggered({<<u, "nodeUpdates">> : u \in busListeners}, "update")

EventNext ==
  \/ \E s \in Sources : Unsubscribe(s) \/ \E cb \in EventCbs : \E discovers, refuses \in BOOLEAN : Subscribe(s, cb, discovers, refuses)
  \/ \E u \in Users : RemoveAllCallbacks(u)
  \/ RemoveAdapter \/ \E another \in BOOLEAN : SetAdapter(another)

EventSpec == EventInit /\ [][EventNext]_eventVars

(* --- Properties ------------------------------------------------------------------------ *)

EventTypeOK ==
  /\ eventCallbacks \in [Sources -> EventCbs \cup {NoEventCb}]
  /\ eventTeardowns \in [Sources -> {"none", "bus", "discovery"}]
  /\ adapter \in [set : BOOLEAN, running : SUBSET Sources, former : SUBSET Sources] /\ busListeners \subseteq Users /\ attended \subseteq Sources

\* Whatever runs on the adapter in place or on the bus can be stopped: it has the
\* teardown of its event, so no sequence of subscriptions leaves one behind. What was
\* subscribed is served until it or - the adapter has one discovery - another discovery
\* is stopped, also when the SDK was disposed of or given another adapter meanwhile:
\* an update and each local node found reach it. A node that says it does not serve
\* local control reaches no callback for local ones.
EventsLeaveNothing ==
  /\ \A s \in adapter.running : eventTeardowns[s] = "discovery"
  /\ \A u \in busListeners : eventTeardowns[<<u, "nodeUpdates">>] = "bus"
  /\ \A s \in attended :
       /\ eventCallbacks[s] # NoEventCb
       /\ eventTeardowns[s] = "bus" => \E h \in EmitNodeUpdate : h[1] = s
       /\ eventTeardowns[s] = "discovery" => \A info \in {i \in Infos : IsLocal(i)} : \E h \in Discovered(info) : h[1] = s
  /\ \A h \in Discovered("other") : h[1][2] # "localDiscovery"
===============================================================================
