------------------------------ MODULE NodeWrites ------------------------------
(* The writes of services/NodeMQTTOrchestrator.ts: setParams and updateShadow of  *)
(* a node, setGroupParams of a group (ESPRMNeoGroup.setParams), which publish       *)
(* and do not wait for the node. One await lies between what a write reads and      *)
(* what it publishes, in which the node may be registered anew, the session end,     *)
(* another begin, or the SDK be disposed of.                                         *)
(*                                                                                    *)
(* One node. The MQTT client is external: it is connected as the user of a session    *)
(* or not at all, and a publish goes out with the connection there is.                *)
EXTENDS Naturals

CONSTANTS
  WShadows,       \* shadows the node is registered with, by its groups
  WGroups,        \* groups written to; a subgroup is one of the others
  NoTarget,
  MaxWrites,      \* bound: writes made, numbered as they start
  MaxWSessions    \* bound: sessions

ASSUME WritesAssumption == MaxWSessions \in Nat \ {0}

VARIABLES
  home,     \* [up: there is an orchestrator, session, shadow: of the registration]
  online,   \* the session as whose user the client is connected, 0 if it is not
  write     \* the writes, with what they met: see WritesGoWhereAsked

writeVars == <<home, online, write>>

WriteCalls == 1..MaxWrites
NodeWriteOps == {"setParams", "updateShadow"}

\* A topic by what makes it: rainmaker/nodes/<node>/user/<shadow>/params, the
\* shadow's update, rainmaker/nodes/groups/<group>[/subgroups/<subgroup>]/control.
ParamsTopic(shadow) == <<"params", shadow>>
UpdateTopic(shadow) == <<"update", shadow>>
GroupTopic(g, sub) == IF sub = NoTarget THEN <<"control", g>> ELSE <<"control", g, sub>>
NodeTopic(what, shadow) == IF what = "setParams" THEN ParamsTopic(shadow) ELSE UpdateTopic(shadow)
NoTopicYet == <<"none">>

\* ESPRMNeoGroup.setParams: a subgroup writes under its parent, others where the
\* options say.
GroupTarget(g, parent, sub) == IF parent # NoTarget THEN GroupTopic(parent, g) ELSE GroupTopic(g, sub)

NoWrite == [what |-> "none", step |-> "idle", to |-> NoTopicYet, sent |-> NoTopicYet, as |-> 0,
            session |-> 0, lost |-> FALSE, crossed |-> FALSE]

WriteInit ==
  /\ home = [up |-> TRUE, session |-> 1, shadow |-> NoTarget] /\ online = 0
  /\ write = [c \in WriteCalls |-> NoWrite]

InWrite(c) == write[c].step \in {"checking", "publishing"}

(* --- A write ------------------------------------------------------------------- *)

StartWrite(c, what, to) ==
  /\ home.up /\ write[c].step = "idle" /\ \A d \in 1..(c - 1) : write[d].step # "idle"
  /\ write' = [write EXCEPT ![c] = [NoWrite EXCEPT !.what = what, !.step = "checking", !.to = to, !.session = home.session]]
  /\ UNCHANGED <<home, online>>

\* The registration is read when the write is called.
WriteNode(c, what) ==
  StartWrite(c, what, IF home.shadow = NoTarget THEN NoTopicYet ELSE NodeTopic(what, home.shadow))

WriteGroup(c, g, parent, sub) == StartWrite(c, "setGroupParams", GroupTarget(g, parent, sub))

WriteEnds(c, how) == [write EXCEPT ![c].step = how]

\* isConnected says no, or rejects; so does one that is asked of a client gone with
\* the orchestrator.
WriteNotConnected(c) ==
  write[c].step = "checking" /\ write' = WriteEnds(c, "failed") /\ UNCHANGED <<home, online>>

\* Mutation: where to is looked up once the client has said it is connected.
TargetNow(c) ==
  CASE write[c].what = "setGroupParams" -> write[c].to
    [] home.shadow = NoTarget -> NoTopicYet
    [] OTHER -> NodeTopic(write[c].what, home.shadow)

\* What was read when the write was called.
Target(c) == write[c].to

\* It says yes: a node that was not registered is an error, and so is a publish by an
\* orchestrator that was cleared since, which has no transport. Otherwise the message
\* goes out, if the client still is connected.
WriteConnected(c) ==
  /\ write[c].step = "checking"
  /\ write' =
       IF Target(c) = NoTopicYet \/ write[c].lost THEN WriteEnds(c, "failed")
       ELSE [write EXCEPT ![c].step = "publishing", ![c].as = online, ![c].sent = IF online = 0 THEN @ ELSE Target(c)]
  /\ UNCHANGED <<home, online>>

\* publishOrThrow: the client's promise; what went out may be reported lost, never
\* the reverse.
PublishSettles(c, ok) ==
  /\ write[c].step = "publishing" /\ (ok => write[c].sent # NoTopicYet)
  /\ write' = WriteEnds(c, IF ok THEN "done" ELSE "failed")
  /\ UNCHANGED <<home, online>>

(* --- What happens meanwhile ------------------------------------------------------ *)

Meeting(lost) ==
  write' = [c \in WriteCalls |-> IF InWrite(c) THEN [write[c] EXCEPT !.crossed = TRUE, !.lost = @ \/ lost] ELSE write[c]]

\* registerNode, with another shadow or the same; unregisterNode.
BindNode(shadow) ==
  home.up /\ home' = [home EXCEPT !.shadow = shadow] /\ UNCHANGED <<online, write>>

\* logout: the client is disconnected, which may fail, then resetSession. The next
\* login begins a session.
EndWriteSession(disconnects) ==
  /\ home.up /\ home.session < MaxWSessions
  /\ home' = [home EXCEPT !.session = @ + 1, !.shadow = NoTarget]
  /\ online' = IF disconnects THEN 0 ELSE online
  /\ Meeting(FALSE)

\* clear: the instance goes, with its transport; initialize makes another. The
\* client's connection, which nobody ends, stays.
ClearOrchestrator ==
  /\ home.up
  /\ home' = [home EXCEPT !.up = FALSE, !.shadow = NoTarget]
  /\ Meeting(TRUE) /\ UNCHANGED online

InitializeOrchestrator ==
  ~home.up /\ home' = [home EXCEPT !.up = TRUE] /\ UNCHANGED <<online, write>>

ClientConnects == online' = home.session /\ online # home.session /\ UNCHANGED <<home, write>>
ClientDrops == online # 0 /\ online' = 0 /\ UNCHANGED <<home, write>>

WriteNext ==
  \/ \E c \in WriteCalls :
       \/ \E what \in NodeWriteOps : WriteNode(c, what)
       \/ \E g \in WGroups, parent, sub \in WGroups \cup {NoTarget} : g \notin {parent, sub} /\ WriteGroup(c, g, parent, sub)
       \/ WriteNotConnected(c) \/ WriteConnected(c) \/ \E ok \in BOOLEAN : PublishSettles(c, ok)
  \/ \E shadow \in WShadows \cup {NoTarget} : BindNode(shadow)
  \/ \E disconnects \in BOOLEAN : EndWriteSession(disconnects)
  \/ ClearOrchestrator \/ InitializeOrchestrator \/ ClientConnects \/ ClientDrops

WriteSpec == WriteInit /\ [][WriteNext]_writeVars

(* --- Properties -------------------------------------------------------------------- *)

WriteTypeOK ==
  /\ home.up \in BOOLEAN /\ home.session \in 1..MaxWSessions /\ home.shadow \in WShadows \cup {NoTarget}
  /\ online \in 0..MaxWSessions
  /\ \A c \in WriteCalls : write[c].step \in {"idle", "checking", "publishing", "done", "failed"} /\ write[c].as \in 0..MaxWSessions

\* Whatever is registered, ended or cleared while a write waits for the client:
\* nothing is published but to where the write was meant when it was called (the
\* shadow the node was registered with then; a group), a write that resolved has
\* been published, and one that went out as another user than the one who made it
\* did so because the session ended while it was under way, or the client had stayed
\* connected from before.
WritesGoWhereAsked ==
  \A c \in WriteCalls :
    /\ write[c].sent \in {NoTopicYet, write[c].to}
    /\ write[c].step = "done" => write[c].sent # NoTopicYet
    /\ write[c].as > write[c].session => write[c].crossed
===============================================================================
