------------------------------ MODULE CloudObjects ------------------------------
(* Objects the app holds of things in the cloud: a group (ESPRMNeoGroup, a nested  *)
(* one, so that nodes may be added) and an automation of it (ESPRMNeoAutomation).  *)
(* A method checks its arguments against the object, sends one request, and brings *)
(* the object up to date; calls overlap, requests fail, answers get lost, and     *)
(* both come in any order.                                                          *)
EXTENDS Naturals, Sequences, FiniteSets

CONSTANTS
  Members,     \* node ids
  GroupNames,  \* names of groups
  Targets,     \* targets of actions
  Triggers,    \* triggers, the conditions
  MaxObjCalls, \* bound: calls made, numbered as they start
  MaxActions   \* bound: actions of the automation

ASSUME ObjAssumption ==
  MaxActions \in Nat \ {0} /\ IsFiniteSet(Members) /\ Members \cap {"name", "subgroup", "user", "automation"} = {}

VARIABLES
  cloudGroup,       \* the cloud's group: members, name, subgroups, the user in it
  group,            \* the app's object of it
  cloudAutomation,  \* the cloud's automation
  automation,       \* the app's object of it
  ocall,            \* the calls
  objects           \* which calls met, and whether one failed or an answer was lost (history)

objVars == <<cloudGroup, group, cloudAutomation, automation, ocall, objects>>

ObjCalls == 1..MaxObjCalls
NoObjCall == [step |-> "idle", what |-> "none", about |-> {}, arg |-> {}, body |-> <<>>]
Automation == [actions : UNION {[1..n -> Targets] : n \in 0..MaxActions}, conditions : SUBSET Triggers, enabled : BOOLEAN]

\* createGroup, createAutomation, getGroups: the constructors take over what the
\* answer says, status ENABLED when it says none.
ObjInit ==
  /\ \E name \in GroupNames : cloudGroup = [members |-> {}, name |-> name, subgroups |-> {}, mine |-> TRUE]
  /\ group = [nodeIds |-> <<>>, name |-> cloudGroup.name, subgroups |-> {}]
  /\ \E t \in Targets : cloudAutomation = [actions |-> <<t>>, conditions |-> {}, enabled |-> TRUE]
  /\ automation = cloudAutomation
  /\ ocall = [c \in ObjCalls |-> NoObjCall]
  /\ objects = [met |-> FALSE, failed |-> FALSE, lost |-> FALSE]

(* --- Sending ----------------------------------------------------------------------- *)

\* A call about something others under way are about, too: calls that meet. New
\* subgroups do not mind each other.
Meets(what, about) ==
  \E d \in ObjCalls : /\ ocall[d].step \in {"sent", "taken"} /\ ocall[d].about \cap about # {}
                      /\ {what, ocall[d].what} # {"createSubGroup"}

Send(c, what, about, arg, body) ==
  /\ ocall[c].step = "idle" /\ \A d \in 1..(c - 1) : ocall[d].step # "idle"
  /\ ocall' = [ocall EXCEPT ![c] = [step |-> "sent", what |-> what, about |-> about, arg |-> arg, body |-> body]]
  /\ objects' = [objects EXCEPT !.met = @ \/ Meets(what, about)]
  /\ UNCHANGED <<cloudGroup, cloudAutomation, group>>

GroupSend(c, what, about, arg) == Send(c, what, about, arg, <<>>) /\ UNCHANGED automation

AddNode(c, n) == (\A i \in DOMAIN group.nodeIds : group.nodeIds[i] # n) /\ GroupSend(c, "addNode", {n}, n)
RemoveMemberNode(c, n) == GroupSend(c, "removeNode", {n}, n)
UpdateName(c, name) == GroupSend(c, "updateName", {"name"}, name)
CreateSubGroup(c) == GroupSend(c, "createSubGroup", {"subgroup"}, c)
Leave(c) == GroupSend(c, "leave", {"user"}, "current")
GetGroups(c) == GroupSend(c, "getGroups", Members \cup {"name", "subgroup", "user"}, "all")

\* What an update leaves out stays as the object has it.
Merged(fields, a) ==
  [actions |-> IF "actions" \in fields THEN a.actions ELSE automation.actions,
   conditions |-> IF "conditions" \in fields THEN a.conditions ELSE automation.conditions,
   enabled |-> IF "enabled" \in fields THEN a.enabled ELSE automation.enabled]

\* Mutation: what is sent was put together before the object was changed.
UpdateAutomationAsWas(c, what, fields, a) ==
  /\ automation' = Merged(fields, a)
  /\ Send(c, what, {"automation"}, fields, automation)

\* Automation.update: the object is changed, then sent whole. The methods built on
\* it assign their part once more when the answer is there.
UpdateAutomation(c, what, fields, a) ==
  /\ automation' = Merged(fields, a)
  /\ Send(c, what, {"automation"}, fields, automation')

AddAction(c, t) ==
  /\ Len(automation.actions) < MaxActions
  /\ UpdateAutomation(c, "addAction", {"actions"}, [automation EXCEPT !.actions = Append(@, t)])

\* An index out of range is refused.
RemoveAction(c, i) ==
  /\ i \in DOMAIN automation.actions
  /\ UpdateAutomation(c, "removeAction", {"actions"},
       [automation EXCEPT !.actions = SubSeq(@, 1, i - 1) \o SubSeq(@, i + 1, Len(@))])

\* A condition that is there already is a success without a request.
AddCondition(c, r) ==
  /\ r \notin automation.conditions
  /\ UpdateAutomation(c, "addCondition", {"conditions"}, [automation EXCEPT !.conditions = @ \cup {r}])

RemoveCondition(c, r) ==
  UpdateAutomation(c, "removeCondition", {"conditions"}, [automation EXCEPT !.conditions = @ \ {r}])

SetStatus(c, on) == UpdateAutomation(c, "update", {"enabled"}, [automation EXCEPT !.enabled = on])

(* --- The cloud, and the answer --------------------------------------------------------- *)

Taken(c) ==
  /\ ocall[c].step = "sent"
  /\ ocall' = [ocall EXCEPT ![c].step = "taken",
                            ![c].body = IF ocall[c].what = "getGroups" THEN <<cloudGroup>> ELSE @]
  /\ LET k == ocall[c] IN
       /\ cloudGroup' = CASE k.what = "addNode" -> [cloudGroup EXCEPT !.members = @ \cup {k.arg}]
                          [] k.what = "removeNode" -> [cloudGroup EXCEPT !.members = @ \ {k.arg}]
                          [] k.what = "updateName" -> [cloudGroup EXCEPT !.name = k.arg]
                          [] k.what = "createSubGroup" -> [cloudGroup EXCEPT !.subgroups = @ \cup {c}]
                          [] k.what = "leave" -> [cloudGroup EXCEPT !.mine = FALSE]
                          [] OTHER -> cloudGroup
       /\ cloudAutomation' = IF k.about = {"automation"} THEN k.body ELSE cloudAutomation
  /\ UNCHANGED <<group, automation, objects>>

\* Refused: nothing happened in the cloud. Lost: it did, and the caller sees an error.
Fails(c) ==
  /\ ocall[c].step \in {"sent", "taken"}
  /\ ocall' = [ocall EXCEPT ![c] = [NoObjCall EXCEPT !.step = "failed"]]
  /\ objects' = [objects EXCEPT !.failed = @ \/ ocall[c].about = {"automation"}, !.lost = @ \/ ocall[c].step = "taken"]
  /\ UNCHANGED <<cloudGroup, cloudAutomation, group, automation>>

InSomeOrder(S) ==
  CHOOSE s \in [1..Cardinality(S) -> S] : {s[i] : i \in DOMAIN s} = S /\ \A i, j \in DOMAIN s : s[i] = s[j] => i = j

\* filter: the others, in their order.
WithoutId(ids, n) ==
  LET left == CHOOSE at \in UNION {[1..k -> DOMAIN ids] : k \in 0..Len(ids)} :
                /\ {at[j] : j \in DOMAIN at} = {i \in DOMAIN ids : ids[i] # n}
                /\ \A i, j \in DOMAIN at : i < j => at[i] < at[j]
  IN [j \in DOMAIN left |-> ids[left[j]]]

\* transformGroup: a new object of what the answer said.
FromAnswer(g) == [nodeIds |-> InSomeOrder(g.members), name |-> g.name, subgroups |-> g.subgroups]

Answered(c) ==
  /\ ocall[c].step = "taken"
  /\ ocall' = [ocall EXCEPT ![c] = [NoObjCall EXCEPT !.step = "done"]]
  /\ LET k == ocall[c] IN
       /\ group' = CASE k.what = "addNode" -> [group EXCEPT !.nodeIds = Append(@, k.arg)]
                     [] k.what = "removeNode" -> [group EXCEPT !.nodeIds = WithoutId(@, k.arg)]
                     [] k.what = "updateName" -> [group EXCEPT !.name = k.arg]
                     [] k.what = "createSubGroup" -> [group EXCEPT !.subgroups = @ \cup {c}]
                     [] k.what = "getGroups" -> FromAnswer(k.body[1])
                     [] OTHER -> group
       /\ automation' = CASE k.what \in {"addAction", "removeAction"} -> [automation EXCEPT !.actions = k.body.actions]
                          [] k.what \in {"addCondition", "removeCondition"} ->
                               [automation EXCEPT !.conditions = k.body.conditions]
                          [] OTHER -> automation
  /\ UNCHANGED <<cloudGroup, cloudAutomation, objects>>

ObjProgress(c) == Taken(c) \/ Fails(c) \/ Answered(c)

ObjStarts(c) ==
  \/ CreateSubGroup(c) \/ Leave(c) \/ GetGroups(c)
  \/ \E n \in Members : AddNode(c, n) \/ RemoveMemberNode(c, n)
  \/ \E name \in GroupNames : UpdateName(c, name)
  \/ \E t \in Targets : AddAction(c, t)
  \/ \E i \in 1..MaxActions : RemoveAction(c, i)
  \/ \E r \in Triggers : AddCondition(c, r) \/ RemoveCondition(c, r)
  \/ \E on \in BOOLEAN : SetStatus(c, on)

ObjNext == \E c \in ObjCalls : ObjStarts(c) \/ ObjProgress(c)

ObjSpec == ObjInit /\ [][ObjNext]_objVars

(* --- Properties ---------------------------------------------------------------------------- *)

ObjTypeOK ==
  /\ cloudGroup \in [members : SUBSET Members, name : GroupNames, subgroups : SUBSET ObjCalls, mine : BOOLEAN]
  /\ group.nodeIds \in Seq(Members) /\ group.name \in GroupNames /\ group.subgroups \subseteq ObjCalls
  /\ automation \in Automation /\ cloudAutomation \in Automation
  /\ \A c \in ObjCalls : ocall[c].step \in {"idle", "sent", "taken", "done", "failed"}

ObjQuiet == \A c \in ObjCalls : ocall[c].step \notin {"sent", "taken"}

\* Once nothing is under way an object shows what the cloud has, whatever requests
\* were refused, as long as no answer was lost and no two calls about the same thing
\* met: the group for all its methods, calls about different nodes, names and
\* subgroups overlapping; the automation only if no request of it failed, for its
\* update changes the object first (Automation/Update.ts, against the promise of
\* addAction that "The instance is updated only after the API call succeeds").
ObjectsMirrorCloud ==
  ObjQuiet /\ ~objects.met /\ ~objects.lost =>
    /\ \A n \in Members : Cardinality({i \in DOMAIN group.nodeIds : group.nodeIds[i] = n})
                            = IF n \in cloudGroup.members THEN 1 ELSE 0
    /\ group.name = cloudGroup.name /\ group.subgroups = cloudGroup.subgroups
    /\ ~objects.failed => automation = cloudAutomation
=============================================================================
