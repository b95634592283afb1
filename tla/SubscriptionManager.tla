-------------------------- MODULE SubscriptionManager --------------------------
(* The subscription manager (services/ESPRMNeoSubscriptionManager.ts): the       *)
(* channels an SDK user has registered, in the order of registration, the order   *)
(* in which a node's channels are tried, and calls that go through the channels    *)
(* one after the other, awaiting each. Other calls run at every await.            *)
(*                                                                                *)
(* A channel is what its interface promises: it may refuse a subscription, may     *)
(* fail to unsubscribe, and disposing of it, which never fails, drops what it     *)
(* serves. MQTTSubscriptionChannel is one of them.                                *)
EXTENDS Naturals, FiniteSets, SequencesExt

CONSTANTS
  Channels,     \* ids of channels
  Generic,      \* those that support every node
  SubNodes,     \* the others support none of them
  Callbacks,
  MaxSubCalls,  \* bound: calls made, numbered as they start
  Nobody        \* no channel, no node, no callback

ASSUME ManagerAssumption ==
  Nobody \notin Channels \cup SubNodes \cup Callbacks /\ Generic \subseteq Channels /\ IsFiniteSet(Channels)

VARIABLES
  manager,  \* [channels, order, initialized, own]: own is the nodes' channel order
  channel,  \* per channel [asked, subs]: asked to initialize, and whom it serves
  scall,    \* the calls
  told      \* what the last call about a node and a callback told (history)

managerVars == <<manager, channel, scall, told>>

Orders == {s \in UNION {[1..n -> Channels] : n \in 0..Cardinality(Channels)} : IsInjective(s)}
Pairs == SubNodes \X Callbacks
SubCalls == 1..MaxSubCalls
NoSubCall == [op |-> "none", step |-> "idle", node |-> Nobody, cb |-> Nobody, at |-> Nobody,
              order |-> <<>>, todo |-> {}, seen |-> {}, clean |-> TRUE, missed |-> FALSE]

\* registerMqttChannelIfNeeded: the first channel and the order it makes.
ManagerInit ==
  /\ \E ch \in Generic : manager = [channels |-> <<ch>>, order |-> <<ch>>, initialized |-> FALSE, own |-> [n \in SubNodes |-> <<>>]]
  /\ channel = [ch \in Channels |-> [asked |-> "no", subs |-> {}]]
  /\ scall = [c \in SubCalls |-> NoSubCall]
  /\ told = [p \in Pairs |-> "nothing"]

IsRegistered(ch) == ch \in Range(manager.channels)
Busy == {c \in SubCalls : scall[c].step = "awaiting"}
Disposals == {c \in Busy : scall[c].op \in {"unregister", "dispose"}}

\* getEffectiveChannelOrder: the node's own order, if it has one.
EffectiveOrder(n) == IF manager.own[n] # <<>> THEN manager.own[n] ELSE manager.order

\* The first in an order of a set's channels, if there is one.
FirstOf(order, S) ==
  LET at == {i \in DOMAIN order : order[i] \in S}
  IN IF at = {} THEN Nobody ELSE order[CHOOSE i \in at : \A j \in at : i <= j]

\* getAvailableChannelsForNode; what it keeps is in the effective order.
AvailableChannels(n) == {ch \in Range(EffectiveOrder(n)) : IsRegistered(ch) /\ ch \in Generic}

\* Where the iteration over a Map goes next; what is deleted and set again meanwhile
\* is met again.
NextChannel(seen) == FirstOf(manager.channels, Channels \ seen)

\* What a Map keeps of its order when a key is deleted.
Without(order, ch) ==
  IF ch \in Range(order) THEN RemoveAt(order, CHOOSE i \in DOMAIN order : order[i] = ch) ELSE order

(* --- Starting a call --------------------------------------------------------------- *)

\* A call that is about the manager or about the same pair spoils what another
\* would tell; initializing spoils nothing.
MayStart(c) == scall[c].step = "idle" /\ \A d \in 1..(c - 1) : scall[d].step # "idle"

Starts(c, record, pairs) ==
  LET quiet == \A d \in Busy : scall[d].op \in {"initialize", "register"}
  IN /\ MayStart(c)
     /\ scall' = [d \in SubCalls |-> IF d = c THEN [record EXCEPT !.clean = quiet]
                                     ELSE IF d \in Busy /\ record.op # "initialize" THEN [scall[d] EXCEPT !.clean = FALSE]
                                     ELSE scall[d]]
     /\ told' = [p \in Pairs |-> IF p \in pairs THEN "nothing" ELSE told[p]]

\* A call whose work is done at once, and one that goes through the channels.
Ended(c, how) == [scall EXCEPT ![c] = [NoSubCall EXCEPT !.step = how]]
Instant(c) == MayStart(c) /\ scall' = Ended(c, "done") /\ UNCHANGED told
Asking(ch) == [channel EXCEPT ![ch].asked = "asked"]

\* initialize of the manager; with no channel to await, at once.
Initialize(c) ==
  \/ /\ manager.initialized \/ manager.channels = <<>>
     /\ Instant(c) /\ manager' = [manager EXCEPT !.initialized = TRUE] /\ UNCHANGED channel
  \/ /\ ~manager.initialized /\ manager.channels # <<>>
     /\ Starts(c, [NoSubCall EXCEPT !.op = "initialize", !.step = "awaiting", !.at = NextChannel({}), !.seen = {NextChannel({})}], {})
     /\ channel' = Asking(NextChannel({})) /\ UNCHANGED manager

\* registerChannel: a second one of the id is refused; an initialized manager
\* initializes what is registered, unless told not to. (A channel given up while a
\* subscription was on its way to it comes back with that.)
RegisterChannel(c, ch, autoInitialize) ==
  /\ ~IsRegistered(ch) /\ MayStart(c) /\ scall' = Ended(c, "done")
  /\ told' = [p \in Pairs |-> IF p \in channel[ch].subs THEN "nothing" ELSE told[p]]
  /\ manager' = [manager EXCEPT !.channels = Append(@, ch)]
  /\ channel' = [channel EXCEPT ![ch].asked = IF autoInitialize THEN IF manager.initialized THEN "asked" ELSE "no" ELSE "left"]

\* unregisterChannel: disposed of, and registered until that has ended.
UnregisterChannel(c, ch) ==
  /\ IsRegistered(ch)
  /\ Starts(c, [NoSubCall EXCEPT !.op = "unregister", !.step = "awaiting", !.at = ch], Pairs)
  /\ UNCHANGED <<manager, channel>>

SetGlobalChannelOrder(c, order) ==
  Instant(c) /\ manager' = [manager EXCEPT !.order = order] /\ UNCHANGED channel

\* setSubscriptionChannelOrder, clearSubscriptionChannelOrder of a node.
SetNodeChannelOrder(c, n, order) ==
  Instant(c) /\ manager' = [manager EXCEPT !.own[n] = order] /\ UNCHANGED channel

\* subscribeToNode: the channels are looked up once; none is an error.
SubscribeToNode(c, n, cb) ==
  LET available == AvailableChannels(n)
      first == FirstOf(EffectiveOrder(n), available)
  IN /\ IF first = Nobody THEN Instant(c)
        ELSE Starts(c, [NoSubCall EXCEPT !.op = "subscribe", !.step = "awaiting", !.node = n, !.cb = cb, !.at = first,
                                         !.order = EffectiveOrder(n), !.todo = available \ {first}], {<<n, cb>>})
     /\ UNCHANGED <<manager, channel>>

\* unsubscribeFromNode, of one callback or of all.
UnsubscribeFromNode(c, n, cb) ==
  /\ IF manager.channels = <<>> THEN Instant(c)
     ELSE Starts(c, [NoSubCall EXCEPT !.op = "unsubscribe", !.step = "awaiting", !.node = n, !.cb = cb, !.at = NextChannel({}), !.seen = {NextChannel({})}],
                 {p \in Pairs : p[1] = n /\ cb \in {p[2], Nobody}})
  /\ UNCHANGED <<manager, channel>>

Dispose(c) ==
  /\ manager.channels # <<>>
  /\ Starts(c, [NoSubCall EXCEPT !.op = "dispose", !.step = "awaiting", !.at = NextChannel({}), !.seen = {NextChannel({})}], Pairs)
  /\ UNCHANGED <<manager, channel>>

(* --- Going on ---------------------------------------------------------------------- *)

Forgotten(c, gone) == [d \in SubCalls |-> IF d = c THEN [NoSubCall EXCEPT !.step = "done"] ELSE [scall[d] EXCEPT !.seen = @ \ gone]]
Tells(c, pairs, what) == told' = [p \in Pairs |-> IF scall[c].clean /\ p \in pairs THEN what ELSE told[p]]

\* The channel takes the subscription; or refuses, and the next is tried.
ChannelSubscribes(c) ==
  /\ scall[c].step = "awaiting" /\ scall[c].op = "subscribe"
  /\ LET k == scall[c]
         next == FirstOf(k.order, k.todo) IN
       \/ /\ channel' = [channel EXCEPT ![k.at].subs = @ \cup {<<k.node, k.cb>>}, ![k.at].asked = IF @ = "no" THEN "asked" ELSE @]
          /\ scall' = Ended(c, "done") /\ Tells(c, {<<k.node, k.cb>>}, "subscribed")
       \/ /\ scall' = IF next = Nobody THEN Ended(c, "failed")
                      ELSE [scall EXCEPT ![c].at = next, ![c].todo = @ \ {next}]
          /\ UNCHANGED <<channel, told>>
  /\ UNCHANGED manager

Leaving(k) == {p \in Pairs : p[1] = k.node /\ k.cb \in {p[2], Nobody}}

\* Mutation: a channel that fails to unsubscribe ends the round.
GoesOnIfWell(k, ok) == ok

\* Errors of a channel are logged and the round goes on.
GoesOn(k, ok) == TRUE

\* A channel has served what is unsubscribed, and fails to unsubscribe it.
Missed(k, ok) == k.missed \/ (~ok /\ channel[k.at].subs \cap Leaving(k) # {})

\* The channel a round awaits has answered, well or not, and the next is asked.
NextOfRound(c, ok) ==
  LET k == scall[c]
      next == IF GoesOn(k, ok) THEN NextChannel(k.seen) ELSE Nobody
  IN /\ k.step = "awaiting" /\ k.op \in {"initialize", "unsubscribe", "dispose"}
     /\ next # Nobody
     /\ scall' = [scall EXCEPT ![c].at = next, ![c].seen = @ \cup {next}, ![c].missed = Missed(k, ok)]
     /\ channel' = CASE k.op = "initialize" -> Asking(next)
                     [] k.op = "unsubscribe" /\ ok -> [channel EXCEPT ![k.at].subs = @ \ Leaving(k)]
                     [] k.op = "dispose" -> [channel EXCEPT ![k.at] = [asked |-> "no", subs |-> {}]]
                     [] OTHER -> channel
     /\ UNCHANGED <<manager, told>>

\* The last one has: initialize, unsubscribeFromNode and dispose end.
RoundEnds(c, ok) ==
  LET k == scall[c]
  IN /\ k.step = "awaiting" /\ k.op \in {"initialize", "unsubscribe", "dispose"}
     /\ GoesOn(k, ok) => NextChannel(k.seen) = Nobody
     /\ \/ /\ k.op = "initialize" /\ scall' = Ended(c, "done") /\ manager' = [manager EXCEPT !.initialized = TRUE] /\ UNCHANGED <<channel, told>>
        \/ /\ k.op = "unsubscribe" /\ scall' = Ended(c, "done") /\ UNCHANGED manager
           /\ channel' = IF ok THEN [channel EXCEPT ![k.at].subs = @ \ Leaving(k)] ELSE channel
           /\ Tells(c, IF ~Missed(k, ok) THEN Leaving(k) ELSE {}, "unsubscribed")
        \/ /\ k.op = "dispose" /\ scall' = Forgotten(c, Channels) /\ UNCHANGED told
           /\ manager' = [manager EXCEPT !.channels = <<>>, !.initialized = FALSE]
           /\ channel' = [channel EXCEPT ![k.at] = [asked |-> "no", subs |-> {}]]

\* Disposed of, the channel is no longer registered.
Unregistered(c) ==
  LET ch == scall[c].at
  IN /\ scall[c].step = "awaiting" /\ scall[c].op = "unregister"
     /\ scall' = Forgotten(c, {ch})
     /\ manager' = [manager EXCEPT !.channels = Without(@, ch)]
     /\ channel' = [channel EXCEPT ![ch] = [asked |-> "no", subs |-> {}]]
     /\ UNCHANGED told

ManagerProgress(c) == ChannelSubscribes(c) \/ Unregistered(c) \/ \E ok \in BOOLEAN : NextOfRound(c, ok) \/ RoundEnds(c, ok)

ManagerStarts(c) ==
  \/ Initialize(c) \/ Dispose(c)
  \/ \E ch \in Channels : UnregisterChannel(c, ch) \/ \E auto \in BOOLEAN : RegisterChannel(c, ch, auto)
  \/ \E order \in Orders : SetGlobalChannelOrder(c, order) \/ \E n \in SubNodes : SetNodeChannelOrder(c, n, order)
  \/ \E n \in SubNodes : \E cb \in Callbacks : SubscribeToNode(c, n, cb)
  \/ \E n \in SubNodes : \E cb \in Callbacks \cup {Nobody} : UnsubscribeFromNode(c, n, cb)

ManagerNext == \E c \in SubCalls : ManagerStarts(c) \/ ManagerProgress(c)

ManagerSpec == ManagerInit /\ [][ManagerNext]_managerVars

(* --- Properties -------------------------------------------------------------------- *)

ManagerTypeOK ==
  /\ manager \in [channels : Orders, order : Orders, initialized : BOOLEAN, own : [SubNodes -> Orders]]
  /\ channel \in [Channels -> [asked : {"no", "asked", "left"}, subs : SUBSET Pairs]]
  /\ told \in [Pairs -> {"nothing", "subscribed", "unsubscribed"}]
  /\ \A c \in SubCalls : scall[c].step \in {"idle", "awaiting", "done", "failed"} /\ scall[c].at \in Channels \cup {Nobody}

\* A subscription that was told to be made is served by a registered channel until
\* it, or a channel, is given up; one that was told to be undone is served by none,
\* whichever it had fallen back to. An initialized manager has no channel
\* it has not asked to initialize, however registering, unregistering and
\* initializing met.
SubscriptionsAreKept ==
  /\ \A p \in Pairs : told[p] = "subscribed" => \E ch \in Channels : IsRegistered(ch) /\ p \in channel[ch].subs
  /\ \A p \in Pairs : told[p] = "unsubscribed" => \A ch \in Channels : IsRegistered(ch) => p \notin channel[ch].subs
  /\ manager.initialized /\ Disposals = {} => \A ch \in Channels : IsRegistered(ch) => channel[ch].asked # "no"
===============================================================================
