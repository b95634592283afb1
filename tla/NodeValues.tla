------------------------------- MODULE NodeValues -------------------------------
(* A node's configuration, parameters and shadow as values: from the wire to the     *)
(* objects (utils/nodeTransform.ts and the constructors of ESPRMNeoDevice, -Service    *)
(* and their parameters), parameters to and from the node (utils/paramValues.ts,        *)
(* setValue), the names of its shadow and topics (utils/shadowUtils.ts,                   *)
(* awsShadowTopics.ts, nodeUtils.ts) and updates (transformShadowToNodeUpdate.ts). A       *)
(* field that is absent is "", an absent document or number is NoDoc or 0.                  *)
EXTENDS Integers, Sequences, SequencesExt

Or(a, b) == IF a # "" THEN a ELSE b

(* --- Configuration -------------------------------------------------------------------- *)

\* As on the wire; the names of the fields of a cache of older versions are read, too.
WireParams == [id : {"p", "q"}, type : {"", "t"}, data_type : {"", "int"}, dataType : {"", "int"}, ui_type : {"", "ui"}, uiType : {""}]

TransformParam(p) ==
  [id |-> p.id, type |-> Or(p.type, p.id), dataType |-> Or(p.data_type, p.dataType), uiType |-> Or(p.ui_type, p.uiType)]
TransformServiceParam(p) == [id |-> p.id, type |-> Or(p.type, p.id), dataType |-> Or(p.data_type, p.dataType)]

\* The primary parameter by its place, 0 when there is none: the one that is named,
\* or else the first.
PrimaryParam(d) ==
  LET named == {i \in DOMAIN d.params : d.params[i].id = d.primary /\ \A j \in 1..(i - 1) : d.params[j].id # d.primary}
  IN CASE d.primary # "" -> IF named = {} THEN 0 ELSE CHOOSE i \in named : TRUE
       [] d.primary = "" -> IF d.params = <<>> THEN 0 ELSE 1

TransformDevice(d) ==
  [name |-> d.id, type |-> Or(d.type, "esp.device.generic"), primary |-> PrimaryParam(d),
   params |-> [i \in DOMAIN d.params |-> TransformParam(d.params[i])]]
TransformService(d) ==
  [name |-> d.id, type |-> d.type, params |-> [i \in DOMAIN d.params |-> TransformServiceParam(d.params[i])]]

\* An object's parameter as an older version cached it.
Cached(p) == [id |-> p.id, type |-> p.type, data_type |-> "", dataType |-> p.dataType, ui_type |-> "", uiType |-> p.uiType]

(* --- Parameters ------------------------------------------------------------------------ *)

\* The entities of a node: a service may have the name of a device.
Entity == <<[kind |-> "device", name |-> "a"], [kind |-> "service", name |-> "a"], [kind |-> "service", name |-> "b"]>>
Names == {"a", "b"}
Ids == {"p", "q"}
NoValues == [i \in DOMAIN Entity |-> [id \in Ids |-> 0]]

\* The entity a name means: the device, or else the service.
Meant(name) == CHOOSE i \in DOMAIN Entity : Entity[i].name = name /\ \A j \in 1..(i - 1) : Entity[j].name # name

\* Maps are functions from names to functions from ids.
ParamMaps(v) == UNION {[names -> UNION {[ids -> {v}] : ids \in SUBSET Ids}] : names \in SUBSET Names}

ApplyValuesToParams(params, values) == [id \in Ids |-> IF id \in DOMAIN values THEN values[id] ELSE params[id]]
ApplyMap(values, map) ==
  [i \in DOMAIN Entity |->
     IF Entity[i].name \in DOMAIN map /\ Meant(Entity[i].name) = i
     THEN ApplyValuesToParams(values[i], map[Entity[i].name]) ELSE values[i]]

MergeMaps(previous, incoming) ==
  [name \in DOMAIN previous \cup DOMAIN incoming |->
     CASE name \notin DOMAIN previous -> incoming[name]
       [] name \notin DOMAIN incoming -> previous[name]
       [] OTHER -> [id \in DOMAIN previous[name] \cup DOMAIN incoming[name] |->
                      IF id \in DOMAIN incoming[name] THEN incoming[name][id] ELSE previous[name][id]]]

\* setValue of a parameter: what is sent to the node, by names.
SetValue(i, id, v) == [name \in {Entity[i].name} |-> [param \in {id} |-> v]]

(* --- Names and topics -------------------------------------------------------------------- *)

\* Ids of groups are numbers, in their alphabetical order; a group's subgroups are
\* pairs of an id and the nodes in it.
CollectSubgroupIds(group, n) ==
  SortSeq([i \in DOMAIN SelectSeq(group.subgroups, LAMBDA g : n \in g.nodes) |->
             SelectSeq(group.subgroups, LAMBDA g : n \in g.nodes)[i].id], <)

ConstructShadowName(group, subgroups) == <<group>> \o SortSeq(subgroups, <)

\* toNeoNode: of a nested group its parent, with itself as the subgroup.
ToNeoNode(group, n) ==
  IF group.parent # 0 THEN [node |-> n, group |-> group.parent, subgroups |-> <<group.id>>]
  ELSE [node |-> n, group |-> group.id, subgroups |-> CollectSubgroupIds(group, n)]
ShadowName(object) == ConstructShadowName(object.group, object.subgroups)

\* Topics by the parts that vary; + stands for any node.
Topic(n, name, suffix) == [node |-> n, name |-> name, suffix |-> suffix]
ShadowSuffixes == {"/update/documents", "/update/delta", "/update/accepted", "/update/rejected", "/get/accepted", "/get/rejected"}
WildcardTopics(name) == {Topic("+", name, suffix) : suffix \in ShadowSuffixes}
NodeIdOfTopic(topic) == topic.node
Matches(filter, topic) == filter.node \in {"+", topic.node} /\ filter.name = topic.name /\ filter.suffix = topic.suffix

(* --- Updates -------------------------------------------------------------------------------- *)

NoDoc == [is |-> FALSE, params |-> <<>>, online |-> "", ncfg |-> ""]
\* What a shadow reports: parameters (<<>> if the key is missing), whether it is online.
ShadowReports == [is : {TRUE}, params : {<<>>, <<{}>>, <<{"a"}>>, <<{"a", "b"}>>}, online : {"", "true", "false"}, ncfg : {"", "1"}]

\* The parts of a reported state that are there, when they are taken for parameters.
Keys(r) == (IF r.online # "" THEN {"online"} ELSE {}) \cup (IF r.ncfg # "" THEN {"ncfg_ver"} ELSE {})

\* getReportedParamsFromShadowLiveMessage: a document holds the state as its current.
LiveMessage(topic, message) == IF topic = "/update/documents" THEN message.current ELSE message.plain
Message(topic, r) ==
  IF topic = "/update/documents" THEN [current |-> r, plain |-> NoDoc] ELSE [current |-> NoDoc, plain |-> r]

\* getReportedParamsFromShadowDocument: no params, then all that is reported.
ReportedParams(r) == IF r.params = <<>> THEN Keys(r) ELSE r.params[1]

Extract(r) == [params |-> IF r.params = <<>> THEN {} ELSE r.params[1], isConnected |-> r.online = "true"]

\* What the app gets of an update, with the shadow itself, and what the object takes.
NodeUpdate(n, r) == [nodeId |-> n, payload |-> ReportedParams(r), shadow |-> r]
TakenOf(update, connected) ==
  [params |-> Extract(update.shadow).params,
   connected |-> IF update.shadow.online = "" THEN connected ELSE Extract(update.shadow).isConnected]

(* --- Samples and properties -------------------------------------------------------------------- *)

ConfigSamples == [about : {"config"}, first : WireParams, second : WireParams, primary : {"", "p", "q", "r"}]
ParamSamples == [about : {"params"}, earlier : ParamMaps(1), later : ParamMaps(2)]
GroupSamples ==
  [about : {"shadow"}, subgroups : {<<>>, <<3>>, <<3, 5>>, <<5, 3>>, <<5, 3, 4>>}, of : SUBSET {3, 4, 5}]
UpdateSamples == [about : {"update"}, topic : ShadowSuffixes, reports : ShadowReports, connected : BOOLEAN]

\* A configuration an older version cached reads as the wire's did; a device's
\* primary parameter is one it has, the named one if it names one it has.
ConfigIsKept(s) ==
  LET d == TransformDevice([id |-> "a", type |-> "", primary |-> s.primary, params |-> <<s.first, s.second>>])
  IN /\ \A p \in {s.first, s.second} :
          /\ TransformParam(Cached(TransformParam(p))) = TransformParam(p)
          /\ TransformServiceParam(Cached(TransformParam(p))) = TransformServiceParam(p)
     /\ d.primary = 0 <=> s.primary # "" /\ s.primary \notin {s.first.id, s.second.id}
     /\ d.primary # 0 /\ s.primary # "" => d.params[d.primary].id = s.primary

\* An object that was updated twice shows what one shows that is made of the merged
\* parameters at the next start; a value set comes back to the parameter it was set
\* of and to no other, unless a device has its service's name.
ParamsAreKept(s) ==
  /\ ApplyMap(ApplyMap(NoValues, s.earlier), s.later) = ApplyMap(NoValues, MergeMaps(s.earlier, s.later))
  /\ \A i \in DOMAIN Entity, id \in Ids :
       Meant(Entity[i].name) = i =>
         ApplyMap(ApplyMap(NoValues, s.earlier), SetValue(i, id, 3)) = [ApplyMap(NoValues, s.earlier) EXCEPT ![i][id] = 3]

\* Objects of a node got in any order of its group's subgroups, and that of its only
\* subgroup, have one shadow; its messages match the topics of its group's wildcard
\* and no other's, and say which node they are of.
ShadowIsFound(s) ==
  LET Group(ids) == [id |-> 1, parent |-> 0,
                     subgroups |-> [i \in DOMAIN ids |-> [id |-> ids[i], nodes |-> IF ids[i] \in s.of THEN {"n"} ELSE {}]]]
      object == ToNeoNode(Group(s.subgroups), "n")
      memberOf == {s.subgroups[i] : i \in DOMAIN s.subgroups} \cap s.of
  IN /\ ShadowName(object) = ShadowName(ToNeoNode(Group(Reverse(s.subgroups)), "n"))
     /\ ShadowName(object) = ShadowName([object EXCEPT !.subgroups = Reverse(@)])
     /\ \A g \in memberOf :
          ShadowName(ToNeoNode([id |-> g, parent |-> 1, subgroups |-> <<>>], "n")) = ShadowName(object) <=> memberOf = {g}
     /\ \A suffix \in ShadowSuffixes :
          LET topic == Topic("n", ShadowName(object), suffix)
          IN /\ \E filter \in WildcardTopics(ShadowName(object)) : Matches(filter, topic)
             /\ \A filter \in WildcardTopics(<<2>>) : ~Matches(filter, topic)
             /\ NodeIdOfTopic(topic) = "n"

\* Whatever topic a report comes by, app and object get it whole: the parameters it
\* names, the same ones for both, and the connectivity exactly when it names that.
UpdateIsWhole(s) ==
  LET update == NodeUpdate("n", LiveMessage(s.topic, Message(s.topic, s.reports)))
      taken == TakenOf(update, s.connected)
  IN /\ s.reports.params # <<>> => update.payload = s.reports.params[1] /\ taken.params = update.payload
     /\ s.reports.params = <<>> => taken.params = {}
     /\ taken.connected = IF s.reports.online = "" THEN s.connected ELSE s.reports.online = "true"
=============================================================================
