------------------------------- MODULE CloudParts -------------------------------
(* What the SDK keeps with the cloud and for the app: a node's lists, groups and      *)
(* automations, a node's object and writes, channels, events, the SDK's own            *)
(* configuration, time series. Each works on state of its own, so one specification     *)
(* holds their sum: the part to follow is chosen at the start and the others rest.       *)
EXTENDS NodeLists, CloudObjects, NodeView, NodeWrites, SubscriptionManager, UserEvents, SdkLifecycle, TimeSeries

VARIABLE part   \* the part that is followed

partsVars == <<part, list, object, lcall, met, cloudGroup, group, cloudAutomation, automation, ocall, objects,
               node, entry, read, crossings, home, online, write, manager, channel, scall, told, eventCallbacks, eventTeardowns, adapter, busListeners, attended,
               sdk, runtime, configures, signed, link, conn, logout, excused, newest, pages>>

Parts == {"lists", "objects", "node", "writes", "channels", "events", "sdk", "series"}

PartsInit ==
  /\ ListInit /\ ObjInit /\ ViewInit /\ WriteInit /\ ManagerInit /\ EventInit /\ SdkInit /\ TsInit
  /\ part \in Parts \cup {"none"}

ListsRest == UNCHANGED <<list, object, lcall, met>>
ObjectsRest == UNCHANGED <<cloudGroup, group, cloudAutomation, automation, ocall, objects>>
NodeRests == UNCHANGED <<node, entry, read, crossings, home, online, write>>
ChannelsRest == UNCHANGED <<manager, channel, scall, told>>
EventsRest == UNCHANGED <<eventCallbacks, eventTeardowns, adapter, busListeners, attended>>
SdkRests == UNCHANGED <<sdk, runtime, configures, signed, link, conn, logout, excused>>
SeriesRest == UNCHANGED <<newest, pages>>

PartsNext ==
  /\ UNCHANGED part
  /\ \/ part = "lists" /\ ListNext /\ ObjectsRest /\ ChannelsRest /\ EventsRest /\ SdkRests /\ NodeRests /\ SeriesRest
     \/ part = "objects" /\ ObjNext /\ ListsRest /\ ChannelsRest /\ EventsRest /\ SdkRests /\ NodeRests /\ SeriesRest
     \/ part = "node" /\ ViewNext /\ UNCHANGED writeVars /\ ListsRest /\ ObjectsRest /\ ChannelsRest /\ EventsRest /\ SdkRests /\ SeriesRest
     \/ part = "writes" /\ WriteNext /\ UNCHANGED viewVars /\ ListsRest /\ ObjectsRest /\ ChannelsRest /\ EventsRest /\ SdkRests /\ SeriesRest
     \/ part = "channels" /\ ManagerNext /\ ListsRest /\ ObjectsRest /\ EventsRest /\ SdkRests /\ NodeRests /\ SeriesRest
     \/ part = "events" /\ EventNext /\ ListsRest /\ ObjectsRest /\ ChannelsRest /\ SdkRests /\ NodeRests /\ SeriesRest
     \/ part = "sdk" /\ SdkNext /\ ListsRest /\ ObjectsRest /\ ChannelsRest /\ EventsRest /\ NodeRests /\ SeriesRest
     \/ part = "series" /\ TsNext /\ ListsRest /\ ObjectsRest /\ ChannelsRest /\ EventsRest /\ NodeRests /\ SdkRests

PartsSpec == PartsInit /\ [][PartsNext]_partsVars

\* Type correctness of the parts, and the bounds of what they count.
CloudTypeOK == ListTypeOK /\ ObjTypeOK /\ ViewTypeOK /\ WriteTypeOK /\ ManagerTypeOK /\ EventTypeOK /\ SdkTypeOK /\ TsTypeOK
=============================================================================
