--------------------------- MODULE CloudFlows_proofs ---------------------------
(* What the parts of CloudParts promise, for every value of their constants. Each   *)
(* section is one module's: writes that wait for the connection, a node's lists, a    *)
(* node's object, events, the SDK's own configuration, subscriptions, objects of the   *)
(* cloud, time series; then the parts together, and the values, whatever they are.       *)
EXTENDS CloudParts, NodeValues, SignedRequests, AccountCalls,
        FiniteSetTheorems, WellFoundedInduction, NaturalsInduction, TLAPS

(* --- NodeWrites ------------------------------------------------------------------ *)

\* A client is never connected as the user of a session to come, and a write under way
\* that is older than the session has seen one end.
Topics ==
  {NoTopicYet} \cup {ParamsTopic(s) : s \in WShadows} \cup {UpdateTopic(s) : s \in WShadows}
    \cup {GroupTopic(x[1], x[2]) : x \in (WGroups \cup {NoTarget}) \X (WGroups \cup {NoTarget})}

Writes ==
  [what : {"none", "setGroupParams"} \cup NodeWriteOps, step : {"idle", "checking", "publishing", "done", "failed"},
   to : Topics, sent : Topics, as : Nat, session : Nat, lost : BOOLEAN, crossed : BOOLEAN]

WritesTyped ==
  /\ home \in [up : BOOLEAN, session : Nat, shadow : WShadows \cup {NoTarget}]
  /\ online \in Nat /\ write \in [WriteCalls -> Writes]

\* Of one write, in a session.
WriteIsSound(w, s) ==
  /\ w.sent \in {NoTopicYet, w.to} /\ (w.step = "done" => w.sent # NoTopicYet)
  /\ w.step \in {"checking", "publishing"} /\ w.session < s => w.crossed
  /\ w.session <= s /\ (w.step = "checking" => w.as = 0) /\ (w.as > w.session => w.crossed)

WritesInv ==
  /\ WritesTyped /\ online <= home.session
  /\ \A c \in WriteCalls : WriteIsSound(write[c], home.session)

-----------------------------------------------------------------------------
LEMMA TargetsAreTopics ==
  /\ NoTopicYet \in Topics
  /\ \A s \in WShadows, what \in NodeWriteOps : NodeTopic(what, s) \in Topics
  /\ \A g \in WGroups, parent, sub \in WGroups \cup {NoTarget} : GroupTarget(g, parent, sub) \in Topics
<1>1. NoTopicYet \in Topics
  BY DEF Topics
<1>2. \A s \in WShadows, what \in NodeWriteOps : NodeTopic(what, s) \in Topics
  BY Zenon DEF Topics, NodeTopic, NodeWriteOps
<1>3. ASSUME NEW g \in WGroups \cup {NoTarget}, NEW sub \in WGroups \cup {NoTarget}
      PROVE  GroupTopic(g, sub) \in Topics
  <2> DEFINE x == <<g, sub>>
  <2>1. x \in (WGroups \cup {NoTarget}) \X (WGroups \cup {NoTarget}) /\ x[1] = g /\ x[2] = sub
    OBVIOUS
  <2>2. GroupTopic(x[1], x[2]) \in Topics
    BY <2>1, Zenon DEF Topics
  <2> QED
    BY <2>1, <2>2
<1>4. \A g \in WGroups, parent, sub \in WGroups \cup {NoTarget} : GroupTarget(g, parent, sub) \in Topics
  BY <1>3 DEF GroupTarget
<1> QED
  BY <1>1, <1>2, <1>4

LEMMA WritesStart == WriteInit => WritesInv
<1> SUFFICES ASSUME WriteInit PROVE WritesInv
  OBVIOUS
<1> USE DEF WriteInit
<1>1. NoWrite \in Writes
  BY TargetsAreTopics DEF NoWrite, Writes
<1>2. WritesTyped
  BY <1>1 DEF WritesTyped
<1>3. WriteIsSound(NoWrite, 1)
  BY DEF WriteIsSound, NoWrite
<1> QED
  BY <1>2, <1>3 DEF WritesInv

-----------------------------------------------------------------------------
(* A step of one write *)

\* What one write does is sound if what it turns into is, and leaves the others as they are.
LEMMA OneWrite ==
  ASSUME WritesInv, UNCHANGED <<home, online>>, NEW c \in WriteCalls, NEW w \in Writes,
         WriteIsSound(w, home.session), write' = [write EXCEPT ![c] = w]
  PROVE  WritesInv'
<1>1. WritesTyped'
  BY DEF WritesInv, WritesTyped
<1>2. \A d \in WriteCalls : WriteIsSound(write'[d], home.session)
  BY DEF WritesInv, WritesTyped
<1> QED
  BY <1>1, <1>2 DEF WritesInv

LEMMA WriteStarts ==
  ASSUME WritesInv, NEW c \in WriteCalls, NEW what \in {"setGroupParams"} \cup NodeWriteOps, NEW to \in Topics,
         StartWrite(c, what, to)
  PROVE  WritesInv'
<1> DEFINE w == [NoWrite EXCEPT !.what = what, !.step = "checking", !.to = to, !.session = home.session]
<1>1. home.session \in Nat
  BY DEF WritesInv, WritesTyped
<1>2. /\ w.step = "checking" /\ w.sent = NoTopicYet /\ w.as = 0
      /\ w.session = home.session /\ w.crossed = FALSE
  BY DEF NoWrite
<1>3. w \in Writes
  <2>1. NoWrite \in Writes
    BY TargetsAreTopics DEF NoWrite, Writes
  <2> QED
    BY <1>1, <2>1 DEF Writes
<1>4. WriteIsSound(w, home.session)
  <2> DEFINE s == home.session
  <2>1. w.session <= s /\ ~(w.session < s) /\ ~(w.as > w.session)
    BY <1>1, <1>2
  <2> QED
    BY <1>2, <2>1 DEF WriteIsSound
<1>5. write' = [write EXCEPT ![c] = w] /\ UNCHANGED <<home, online>>
  BY DEF StartWrite
<1> QED
  BY <1>3, <1>4, <1>5, OneWrite

LEMMA WriteEnding ==
  ASSUME WritesInv, NEW c \in WriteCalls, NEW how \in {"done", "failed"}, how = "done" => write[c].sent # NoTopicYet,
         write' = WriteEnds(c, how), UNCHANGED <<home, online>>
  PROVE  WritesInv'
<1> DEFINE w == [write[c] EXCEPT !.step = how]
<1>1. write[c] \in Writes /\ WriteIsSound(write[c], home.session) /\ home.session \in Nat
  BY DEF WritesInv, WritesTyped
<1>2. w \in Writes /\ WriteIsSound(w, home.session)
  BY <1>1 DEF Writes, WriteIsSound
<1>3. write' = [write EXCEPT ![c] = w]
  BY DEF WriteEnds, WritesInv, WritesTyped
<1> QED
  BY <1>2, <1>3, OneWrite

LEMMA WriteGoesOut ==
  ASSUME WritesInv, NEW c \in WriteCalls, WriteConnected(c)
  PROVE  WritesInv'
<1>1. CASE Target(c) = NoTopicYet \/ write[c].lost
  BY <1>1, WriteEnding DEF WriteConnected
<1>2. CASE ~(Target(c) = NoTopicYet \/ write[c].lost)
  <2> DEFINE w == [write[c] EXCEPT !.step = "publishing", !.as = online, !.sent = IF online = 0 THEN @ ELSE Target(c)]
  <2>1. /\ write[c] \in Writes /\ WriteIsSound(write[c], home.session) /\ home.session \in Nat
        /\ online \in Nat /\ online <= home.session /\ write[c].step = "checking"
    BY DEF WritesInv, WritesTyped, WriteConnected
  <2>2. /\ w.step = "publishing" /\ w.as = online /\ w.sent \in {NoTopicYet, w.to}
        /\ w.session = write[c].session /\ w.crossed = write[c].crossed
    BY <2>1 DEF Writes, WriteIsSound, Target
  <2>3. w \in Writes
    BY <2>1 DEF Writes, Target
  <2>4. w.session \in Nat
    BY <2>3 DEF Writes
  <2>5. WriteIsSound(w, home.session)
    BY <2>1, <2>2, <2>4 DEF WriteIsSound
  <2>6. write' = [write EXCEPT ![c] = w]
    BY <1>2 DEF WriteConnected, WritesInv, WritesTyped
  <2> QED
    BY <2>3, <2>5, <2>6, OneWrite DEF WriteConnected
<1> QED
  BY <1>1, <1>2

-----------------------------------------------------------------------------
(* A step of the rest *)

\* A write that has met something still is sound, also in the next session.
LEMMA MetWrites ==
  ASSUME WritesInv, NEW lost \in BOOLEAN, Meeting(lost), WritesTyped', online' <= home'.session,
         home'.session \in {home.session, home.session + 1}
  PROVE  WritesInv'
<1> SUFFICES ASSUME NEW c \in WriteCalls PROVE WriteIsSound(write'[c], home'.session)
  BY DEF WritesInv
<1>1. write[c] \in Writes /\ WriteIsSound(write[c], home.session) /\ home.session \in Nat
  BY DEF WritesInv, WritesTyped
<1>2. CASE InWrite(c)
  <2>1. write'[c] = [write[c] EXCEPT !.crossed = TRUE, !.lost = write[c].lost \/ lost]
    BY <1>2 DEF Meeting
  <2> QED
    BY <1>1, <2>1 DEF WriteIsSound, Writes
<1>3. CASE ~InWrite(c)
  <2>1. write'[c] = write[c]
    BY <1>3 DEF Meeting
  <2> QED
    BY <1>1, <1>3, <2>1 DEF WriteIsSound, Writes, InWrite
<1> QED
  BY <1>2, <1>3

LEMMA MeetingIsTyped ==
  ASSUME WritesTyped, NEW lost \in BOOLEAN, Meeting(lost)
  PROVE  write' \in [WriteCalls -> Writes]
<1> SUFFICES ASSUME NEW c \in WriteCalls
             PROVE  (IF InWrite(c) THEN [write[c] EXCEPT !.crossed = TRUE, !.lost = @ \/ lost] ELSE write[c]) \in Writes
  BY DEF Meeting
<1>1. write[c] \in Writes
  BY DEF WritesTyped
<1>2. [write[c] EXCEPT !.crossed = TRUE, !.lost = @ \/ lost] \in Writes
  <2>1. write[c].lost \/ lost \in BOOLEAN
    OBVIOUS
  <2> QED
    BY <1>1 DEF Writes
<1> QED
  BY <1>1, <1>2

LEMMA WritesStep == WritesInv /\ [WriteNext]_writeVars => WritesInv'
<1> SUFFICES ASSUME WritesInv, [WriteNext]_writeVars PROVE WritesInv'
  OBVIOUS
<1> USE DEF WritesInv
<1>1. ASSUME NEW c \in WriteCalls, NEW what \in NodeWriteOps, WriteNode(c, what) PROVE WritesInv'
  <2>1. home.shadow \in WShadows \cup {NoTarget}
    BY DEF WritesTyped
  <2> QED
    BY <1>1, <2>1, TargetsAreTopics, WriteStarts DEF WriteNode
<1>2. ASSUME NEW c \in WriteCalls, NEW g \in WGroups, NEW parent \in WGroups \cup {NoTarget},
             NEW sub \in WGroups \cup {NoTarget}, WriteGroup(c, g, parent, sub)
      PROVE  WritesInv'
  BY <1>2, TargetsAreTopics, WriteStarts DEF WriteGroup
<1>3. ASSUME NEW c \in WriteCalls, WriteNotConnected(c) PROVE WritesInv'
  BY <1>3, WriteEnding DEF WriteNotConnected
<1>4. ASSUME NEW c \in WriteCalls, WriteConnected(c) PROVE WritesInv'
  BY <1>4, WriteGoesOut
<1>5. ASSUME NEW c \in WriteCalls, NEW ok \in BOOLEAN, PublishSettles(c, ok) PROVE WritesInv'
  BY <1>5, WriteEnding DEF PublishSettles
<1>6. ASSUME NEW shadow \in WShadows \cup {NoTarget}, BindNode(shadow) PROVE WritesInv'
  BY <1>6 DEF BindNode, WritesTyped
<1>7. ASSUME NEW disconnects \in BOOLEAN, EndWriteSession(disconnects) PROVE WritesInv'
  <2>1. /\ home' \in [up : BOOLEAN, session : Nat, shadow : WShadows \cup {NoTarget}]
        /\ home'.session = home.session + 1 /\ online' \in Nat /\ online' <= home'.session
    <3>1. home' = [home EXCEPT !.session = home.session + 1, !.shadow = NoTarget]
      BY <1>7 DEF EndWriteSession
    <3>2. home \in [up : BOOLEAN, session : Nat, shadow : WShadows \cup {NoTarget}] /\ online \in Nat
      BY DEF WritesTyped
    <3>3. online' \in {0, online}
      BY <1>7 DEF EndWriteSession
    <3>4. home' \in [up : BOOLEAN, session : Nat, shadow : WShadows \cup {NoTarget}] /\ home'.session = home.session + 1
      <4>1. home.session + 1 \in Nat /\ NoTarget \in WShadows \cup {NoTarget}
        BY <3>2
      <4>2. home'.session = home.session + 1
        BY <3>1, <3>2
      <4>3. home' \in [up : BOOLEAN, session : Nat, shadow : WShadows \cup {NoTarget}]
        BY <3>1, <3>2, <4>1
      <4> QED
        BY <4>2, <4>3
    <3> QED
      BY <3>2, <3>3, <3>4
  <2>2. WritesTyped'
    BY <1>7, <2>1, MeetingIsTyped DEF EndWriteSession, WritesTyped
  <2> QED
    BY <1>7, <2>1, <2>2, MetWrites DEF EndWriteSession
<1>8. ASSUME ClearOrchestrator PROVE WritesInv'
  <2>1. /\ home' \in [up : BOOLEAN, session : Nat, shadow : WShadows \cup {NoTarget}]
        /\ home'.session = home.session /\ online' = online
    BY <1>8 DEF ClearOrchestrator, WritesTyped
  <2>2. WritesTyped'
    BY <1>8, <2>1, MeetingIsTyped DEF ClearOrchestrator, WritesTyped
  <2> QED
    BY <1>8, <2>1, <2>2, MetWrites DEF ClearOrchestrator
<1>9. ASSUME InitializeOrchestrator PROVE WritesInv'
  BY <1>9 DEF InitializeOrchestrator, WritesTyped
<1>10. ASSUME ClientConnects \/ ClientDrops PROVE WritesInv'
  BY <1>10 DEF ClientConnects, ClientDrops, WritesTyped
<1>11. ASSUME UNCHANGED writeVars PROVE WritesInv'
  BY <1>11 DEF writeVars, WritesTyped
<1> QED
  BY <1>1, <1>2, <1>3, <1>4, <1>5, <1>6, <1>7, <1>8, <1>9, <1>10, <1>11 DEF WriteNext

-----------------------------------------------------------------------------
\* Whatever is registered, ended or cleared while writes wait for the client, however
\* many there are: what is published went where its write was meant to go when it was
\* called, what resolved was published, and only a write whose session ended under it
\* goes out as a later user (setParams, updateShadow, setGroupParams).
THEOREM WritesAreTrue == WriteSpec => []WritesGoWhereAsked
<1>1. WritesInv => WritesGoWhereAsked
  BY DEF WritesInv, WriteIsSound, WritesGoWhereAsked
<1> QED
  BY <1>1, WritesStart, WritesStep, PTL DEF WriteSpec

\* Sessions are counted up to their bound, and no write goes out as the user of one to
\* come.
SessionsBounded == home.session \in 1..MaxWSessions /\ \A c \in WriteCalls : write[c].as <= home.session

LEMMA WriteTypes == WriteSpec => []WriteTypeOK
<1>1. WriteInit => SessionsBounded
  BY WritesAssumption DEF WriteInit, SessionsBounded, NoWrite
<1>2. WritesInv /\ SessionsBounded /\ [WriteNext]_writeVars => SessionsBounded'
  <2> SUFFICES ASSUME WritesInv, SessionsBounded, [WriteNext]_writeVars PROVE SessionsBounded'
    OBVIOUS
  <2>1. /\ home \in [up : BOOLEAN, session : Nat, shadow : WShadows \cup {NoTarget}] /\ MaxWSessions \in Nat
        /\ online \in Nat /\ online <= home.session /\ write \in [WriteCalls -> Writes]
    BY WritesAssumption DEF WritesInv, WritesTyped
  <2>2. \/ home'.session = home.session
        \/ home.session < MaxWSessions /\ home'.session = home.session + 1
    BY <2>1 DEF WriteNext, writeVars, WriteNode, WriteGroup, StartWrite, WriteNotConnected, WriteConnected, PublishSettles, BindNode,
                EndWriteSession, ClearOrchestrator, InitializeOrchestrator, ClientConnects, ClientDrops
  <2>3. home'.session \in 1..MaxWSessions /\ home.session <= home'.session
    BY <2>1, <2>2 DEF SessionsBounded
  <2>4. \A w \in Writes : /\ w.as \in Nat
                          /\ \A how \in {"done", "failed"} : [w EXCEPT !.step = how].as = w.as
                          /\ \A lost \in BOOLEAN : [w EXCEPT !.crossed = TRUE, !.lost = @ \/ lost].as = w.as
    BY DEF Writes
  <2>5. ASSUME NEW c \in WriteCalls PROVE write'[c].as \in {0, online, write[c].as}
    <3>1. ASSUME NEW d \in WriteCalls, NEW what, NEW to, StartWrite(d, what, to) PROVE write'[c].as \in {0, write[c].as}
      BY <2>1, <3>1 DEF StartWrite, NoWrite
    <3>2. ASSUME NEW d \in WriteCalls, NEW how \in {"done", "failed"}, write' = WriteEnds(d, how) PROVE write'[c].as = write[c].as
      <4>1. write[c] \in Writes
        BY <2>1
      <4>2. CASE c = d
        <5>1. write'[c] = [write[c] EXCEPT !.step = how]
          BY <2>1, <3>2, <4>2 DEF WriteEnds
        <5> QED BY <4>1, <5>1 DEF Writes
      <4>3. CASE c # d
        BY <2>1, <3>2, <4>3 DEF WriteEnds
      <4> QED BY <4>2, <4>3
    <3>3. ASSUME NEW d \in WriteCalls, WriteConnected(d) PROVE write'[c].as \in {online, write[c].as}
      <4>1. CASE Target(d) = NoTopicYet \/ write[d].lost
        BY <3>2, <3>3, <4>1 DEF WriteConnected
      <4>2. CASE ~(Target(d) = NoTopicYet \/ write[d].lost)
        BY <2>1, <3>3, <4>2 DEF WriteConnected, Writes
      <4> QED BY <4>1, <4>2
    <3>4. ASSUME NEW lost \in BOOLEAN, Meeting(lost) PROVE write'[c].as = write[c].as
      BY <2>1, <2>4, <3>4 DEF Meeting
    <3>5. CASE UNCHANGED write
      BY <3>5
    <3> QED
      BY <3>1, <3>2, <3>3, <3>4, <3>5
      DEF WriteNext, writeVars, WriteNode, WriteGroup, WriteNotConnected, PublishSettles, BindNode,
          EndWriteSession, ClearOrchestrator, InitializeOrchestrator, ClientConnects, ClientDrops
  <2>6. ASSUME NEW c \in WriteCalls PROVE write'[c].as <= home'.session
    <3>1. write[c].as <= home.session /\ write[c].as \in Nat
      BY <2>1, <2>4 DEF SessionsBounded
    <3>2. write'[c].as \in Nat /\ write'[c].as <= home.session
      BY <2>1, <2>5, <3>1
    <3> QED BY <2>1, <2>3, <3>2
  <2> QED BY <2>3, <2>6 DEF SessionsBounded
<1>3. WritesInv /\ SessionsBounded => WriteTypeOK
  <2> SUFFICES ASSUME WritesInv, SessionsBounded PROVE WriteTypeOK
    OBVIOUS
  <2>1. MaxWSessions \in Nat /\ home \in [up : BOOLEAN, session : Nat, shadow : WShadows \cup {NoTarget}] /\ online \in Nat
        /\ online <= home.session /\ home.session \in 1..MaxWSessions
    BY WritesAssumption DEF WritesInv, WritesTyped, SessionsBounded
  <2>2. online \in 0..MaxWSessions
    BY <2>1
  <2>3. ASSUME NEW c \in WriteCalls
        PROVE  write[c].step \in {"idle", "checking", "publishing", "done", "failed"} /\ write[c].as \in 0..MaxWSessions
    <3>1. write[c] \in Writes /\ write[c].as <= home.session
      BY DEF WritesInv, WritesTyped, SessionsBounded
    <3>2. write[c].step \in {"idle", "checking", "publishing", "done", "failed"} /\ write[c].as \in Nat
      BY <3>1 DEF Writes
    <3> QED BY <2>1, <3>1, <3>2
  <2> QED BY <2>1, <2>2, <2>3 DEF WriteTypeOK
<1> QED BY <1>1, <1>2, <1>3, WritesStart, WritesStep, PTL DEF WriteSpec

-----------------------------------------------------------------------------
(* --- NodeLists -------------------------------------------------------------------- *)

Ops == {"none", "create", "replace", "removeAll", "get", "remove", "update"}
Objects == [id : ItemIds, item : Item]

ListCallRecords ==
  [op : Ops, step : InFlight \cup ListOver \cup {"idle"}, id : ItemIds \cup {NoItem}, item : Item \cup {NoItem},
   fields : SUBSET {"enabled", "body"}, holder : Holders \cup {NoItem}, put : Lists]

\* A call has what it is of.
IsOf(k) ==
  /\ k.op \in {"create", "get", "remove", "update"} => k.id \in ItemIds
  /\ k.op \in {"create", "get", "update"} => k.holder \in Holders
  /\ k.op \in {"create", "update"} => k.item \in Item
  /\ k.op = "update" => object[k.holder] \in Objects

\* A call that nothing has met: what it will write is the list but for its item, and
\* its item is what the object will be.
IsAlone(k) ==
  k.step \in InFlight =>
    /\ k.op = "update" => object[k.holder].id = k.id
    /\ k.step = "writing" =>
         /\ \A i \in ItemIds : k.put[i] # list[i] => k.op \in {"replace", "removeAll"} \/ k.id = i
         /\ k.op = "create" => k.put[k.id] = k.item
         /\ k.op = "update" => k.put[k.id] = MergeItem(object[k.holder].item, k.fields, k.item)

ListTyped ==
  /\ list \in Lists /\ met \in BOOLEAN /\ object \in [Holders -> Objects \cup {NoItem}]
  /\ lcall \in [ListCalls -> ListCallRecords] /\ \A c \in ListCalls : IsOf(lcall[c])

ListInv ==
  /\ ListTyped
  /\ ~met => /\ \A c, d \in ListCalls : lcall[c].step \in InFlight /\ lcall[d].step \in InFlight => c = d
             /\ \A c \in ListCalls : IsAlone(lcall[c])

LEMMA IdleCall ==
  /\ NoCall \in ListCallRecords /\ NoCall.step = "idle" /\ NoCall.op = "none" /\ Empty \in Lists
  /\ \A how \in ListOver : /\ ListEnds(how) \in ListCallRecords /\ ListEnds(how).step = how /\ ListEnds(how).op = "none"
<1>1. Empty \in Lists
  BY DEF Empty, Lists
<1> QED BY <1>1 DEF NoCall, ListCallRecords, ListEnds, Ops, ListOver

LEMMA MergedIsItem ==
  ASSUME NEW base \in Item, NEW fields, NEW item \in Item PROVE MergeItem(base, fields, item) \in Item
BY DEF MergeItem, Item

LEMMA ListStartsEmpty == ListInit => ListInv
<1> SUFFICES ASSUME ListInit PROVE ListInv
  OBVIOUS
<1>1. \A c \in ListCalls : lcall[c] = NoCall
  BY DEF ListInit
<1>2. ListTyped
  BY <1>1, IdleCall DEF ListInit, ListTyped, IsOf
<1> QED BY <1>1, <1>2, IdleCall DEF ListInv, IsAlone, InFlight

\* A call starts: whatever else is under way is met.
LEMMA StartSound ==
  ASSUME ListInv, NEW c \in ListCalls, NEW k \in ListCallRecords, StartCall(c, k), IsOf(k),
         ~met' => IsAlone(k)
  PROVE  ListInv'
<1>1. /\ lcall' = [lcall EXCEPT ![c] = k] /\ UNCHANGED <<list, object>>
      /\ met' = (met \/ \E d \in ListCalls : lcall[d].step \in InFlight) /\ met' \in BOOLEAN
  BY DEF StartCall
<1>2. lcall' \in [ListCalls -> ListCallRecords] /\ lcall'[c] = k /\ \A d \in ListCalls : d # c => lcall'[d] = lcall[d]
  BY <1>1 DEF ListInv, ListTyped
<1>3. ListTyped'
  BY <1>1, <1>2 DEF ListInv, ListTyped, IsOf
<1>4. ASSUME ~met' PROVE \A d \in ListCalls : lcall'[d].step \in InFlight => d = c
  BY <1>1, <1>2, <1>4
<1>5. ASSUME ~met', NEW d \in ListCalls PROVE IsAlone(lcall[d])'
  <2>1. CASE d = c
    BY <1>1, <1>2, <1>5, <2>1 DEF IsAlone
  <2>2. CASE d # c
    BY <1>4, <1>5, <2>2 DEF IsAlone
  <2> QED BY <2>1, <2>2
<1> QED BY <1>3, <1>4, <1>5 DEF ListInv

\* A call goes on.
LEMMA ProgressSound ==
  ASSUME ListInv, NEW c \in ListCalls, lcall[c].step \in InFlight, NEW k \in ListCallRecords,
         lcall' = [lcall EXCEPT ![c] = k], UNCHANGED met, IsOf(k)',
         list' \in Lists, object' \in [Holders -> Objects \cup {NoItem}],
         \A h \in Holders : object[h] \in Objects => object'[h] \in Objects,
         ~met => IsAlone(k)'
  PROVE  ListInv'
<1>1. lcall' \in [ListCalls -> ListCallRecords] /\ lcall'[c] = k /\ \A d \in ListCalls : d # c => lcall'[d] = lcall[d]
  BY DEF ListInv, ListTyped
<1>2. ListTyped'
  BY <1>1 DEF ListInv, ListTyped, IsOf
<1>3. ASSUME ~met PROVE \A d \in ListCalls : lcall'[d].step \in InFlight => d = c
  BY <1>1, <1>3 DEF ListInv
<1>4. ASSUME ~met, NEW d \in ListCalls PROVE IsAlone(lcall[d])'
  <2>1. CASE d = c
    BY <1>1, <1>4, <2>1 DEF IsAlone
  <2>2. CASE d # c
    BY <1>3, <1>4, <2>2 DEF IsAlone
  <2> QED BY <2>1, <2>2
<1> QED BY <1>2, <1>3, <1>4 DEF ListInv

LEMMA ListStartsSound ==
  ASSUME ListInv, NEW c \in ListCalls, ListStarts(c)
  PROVE  ListInv'
<1> USE DEF Ops
<1>a. object \in [Holders -> Objects \cup {NoItem}] /\ list \in Lists
  BY DEF ListInv, ListTyped
<1>1. CASE RemoveAll(c)
  <2> DEFINE k == [NoCall EXCEPT !.op = "removeAll", !.step = "writing", !.put = Empty]
  <2>1. k \in ListCallRecords /\ k.op = "removeAll" /\ StartCall(c, k)
    BY <1>1, IdleCall DEF RemoveAll, ListCallRecords, InFlight
  <2> HIDE DEF k
  <2> QED BY <2>1, StartSound DEF IsOf, IsAlone
<1>2. ASSUME NEW put \in Replacements, Replace(c, put) PROVE ListInv'
  <2> DEFINE k == [NoCall EXCEPT !.op = "replace", !.step = "writing", !.put = put]
  <2>1. k \in ListCallRecords /\ k.op = "replace" /\ StartCall(c, k)
    BY <1>2, IdleCall DEF Replace, ListCallRecords, InFlight, Replacements
  <2> HIDE DEF k
  <2> QED BY <2>1, StartSound DEF IsOf, IsAlone
<1>3. ASSUME NEW id \in ItemIds, RemoveOne(c, id) PROVE ListInv'
  <2> DEFINE k == [NoCall EXCEPT !.op = "remove", !.step = "reading", !.id = id]
  <2>1. k \in ListCallRecords /\ k.op = "remove" /\ k.step = "reading" /\ k.id = id /\ StartCall(c, k)
    BY <1>3, IdleCall DEF RemoveOne, ListCallRecords, InFlight
  <2> HIDE DEF k
  <2> QED BY <2>1, StartSound DEF IsOf, IsAlone
<1>4. ASSUME NEW id \in ItemIds, NEW h \in Holders, Get(c, id, h) PROVE ListInv'
  <2> DEFINE k == [NoCall EXCEPT !.op = "get", !.step = "reading", !.id = id, !.holder = h]
  <2>1. k \in ListCallRecords /\ k.op = "get" /\ k.step = "reading" /\ k.id = id /\ k.holder = h /\ StartCall(c, k)
    BY <1>4, IdleCall DEF Get, ListCallRecords, InFlight
  <2> HIDE DEF k
  <2> QED BY <2>1, StartSound DEF IsOf, IsAlone
<1>5. ASSUME NEW id \in ItemIds, NEW h \in Holders, NEW item \in Item, Create(c, id, item, h) PROVE ListInv'
  <2> DEFINE k == [NoCall EXCEPT !.op = "create", !.step = "reading", !.id = id, !.item = item, !.holder = h]
  <2>1. k \in ListCallRecords /\ k.op = "create" /\ k.step = "reading" /\ k.id = id /\ k.item = item /\ k.holder = h /\ StartCall(c, k)
    BY <1>5, IdleCall DEF Create, ListCallRecords, InFlight
  <2> HIDE DEF k
  <2> QED BY <2>1, StartSound DEF IsOf, IsAlone
<1>6. ASSUME NEW h \in Holders, DeleteObject(c, h) PROVE ListInv'
  <2>1. object[h] \in Objects /\ object[h].id \in ItemIds
    BY <1>6, <1>a DEF DeleteObject, Objects
  <2> QED BY <1>3, <1>6, <2>1 DEF DeleteObject
<1>7. ASSUME NEW h \in Holders, NEW fields \in SUBSET {"enabled", "body"}, NEW item \in Item,
             Update(c, h, [fields |-> fields, item |-> item])
      PROVE  ListInv'
  <2>1. object[h] \in Objects /\ object[h].id \in ItemIds
    BY <1>7, <1>a DEF Update, Objects
  <2> DEFINE id == object[h].id
             k == [NoCall EXCEPT !.op = "update", !.step = "reading", !.id = id, !.holder = h, !.fields = fields, !.item = item]
  <2>2. StartCall(c, k)
    BY <1>7 DEF Update
  <2>3. id \in ItemIds /\ id = object[h].id
    BY <2>1
  <2> HIDE DEF id
  <2>4. k \in ListCallRecords /\ k.op = "update" /\ k.step = "reading" /\ k.id = id /\ k.holder = h /\ k.item = item
    BY <2>3, IdleCall DEF ListCallRecords, InFlight
  <2> HIDE DEF k
  <2> QED BY <2>1, <2>2, <2>3, <2>4, StartSound DEF IsOf, IsAlone
<1>8. ASSUME NEW h \in Holders, NEW u \in Updates, Update(c, h, u) PROVE ListInv'
  <2>1. u.fields \in SUBSET {"enabled", "body"} /\ u.item \in Item /\ u = [fields |-> u.fields, item |-> u.item]
    BY DEF Updates
  <2>2. Update(c, h, [fields |-> u.fields, item |-> u.item])
    BY <1>8, <2>1
  <2> QED BY <1>7, <2>1, <2>2
<1>9. ASSUME NEW h \in Holders, NEW on \in BOOLEAN, Enable(c, h, on) PROVE ListInv'
  <2>1. PICK item \in Item : Update(c, h, [fields |-> {"enabled"}, item |-> item])
    BY <1>9 DEF Enable
  <2> QED BY <1>7, <2>1
<1> QED BY <1>1, <1>2, <1>3, <1>4, <1>5, <1>6, <1>8, <1>9 DEF ListStarts

\* What a read comes to: an object, a list to write, or nothing.
ReadShape(c, k) ==
  \/ k \in {ListEnds("done"), ListEnds("failed")} /\ object' = object
  \/ /\ lcall[c].op = "get" /\ k = ListEnds("done") /\ Found(lcall[c].id)
     /\ object' = [object EXCEPT ![lcall[c].holder] = NewObject(lcall[c].id, list[lcall[c].id])]
  \/ /\ object' = object
     /\ \E item \in Item \cup {NoItem} :
          /\ k = [lcall[c] EXCEPT !.step = "writing", !.put = [list EXCEPT ![lcall[c].id] = item]]
          /\ lcall[c].op \in {"create", "remove", "update"}
          /\ lcall[c].op = "create" => item = lcall[c].item
          /\ lcall[c].op = "remove" => item = NoItem
          /\ lcall[c].op = "update" => item = MergeItem(object[lcall[c].holder].item, lcall[c].fields, lcall[c].item)

LEMMA ReadHasShape ==
  ASSUME ListInv, NEW c \in ListCalls, ReadList(c)
  PROVE  \E k : lcall' = [lcall EXCEPT ![c] = k] /\ ReadShape(c, k)
<1> DEFINE k == lcall[c]
           there == Found(k.id)
           puts(item) == [k EXCEPT !.step = "writing", !.put = [list EXCEPT ![k.id] = item]]
           n == CASE k.op = "get" -> ListEnds("done")
                  [] k.op = "create" /\ ~there -> puts(k.item)
                  [] k.op = "remove" /\ there -> puts(NoItem)
                  [] k.op = "update" /\ there -> puts(MergeItem(ToItem(object[k.holder]), k.fields, k.item))
                  [] OTHER -> ListEnds("failed")
<1>1. /\ lcall' = [lcall EXCEPT ![c] = n]
      /\ object' = IF k.op = "get" /\ there THEN [object EXCEPT ![k.holder] = NewObject(k.id, list[k.id])] ELSE object
  BY DEF ReadList
<1>2. CASE k.op = "get"
  <2>1. n = ListEnds("done")
    BY <1>2
  <2> HIDE DEF n
  <2> QED BY <1>1, <1>2, <2>1 DEF ReadShape
<1>3. CASE k.op = "create" /\ ~there
  <2>1. n = puts(k.item)
    BY <1>3
  <2>2. k.item \in Item
    BY <1>3 DEF ListInv, ListTyped, IsOf
  <2>3. ReadShape(c, puts(k.item))
    BY <1>1, <1>3, <2>2 DEF ReadShape
  <2> HIDE DEF n, puts
  <2> QED BY <1>1, <2>1, <2>3
<1>4. CASE k.op = "remove" /\ there
  <2>1. n = puts(NoItem)
    BY <1>4
  <2>2. ReadShape(c, puts(NoItem))
    BY <1>1, <1>4 DEF ReadShape
  <2> HIDE DEF n, puts
  <2> QED BY <1>1, <2>1, <2>2
<1>5. CASE k.op = "update" /\ there /\ object[k.holder] \in Objects
  <2> DEFINE item == MergeItem(object[k.holder].item, k.fields, k.item)
  <2>1. n = puts(item)
    BY <1>5 DEF ToItem
  <2>2. item \in Item
    BY <1>5, MergedIsItem DEF ListInv, ListTyped, IsOf, Objects
  <2> HIDE DEF n
  <2>3. ReadShape(c, puts(item))
    BY <1>1, <1>5, <2>2 DEF ReadShape
  <2> HIDE DEF puts
  <2> QED BY <1>1, <2>1, <2>3
<1>6. CASE (k.op = "create" /\ there) \/ (k.op \in {"remove", "update"} /\ ~there) \/ k.op \in {"none", "replace", "removeAll"}
  <2>1. n = ListEnds("failed") /\ object' = object
    BY <1>1, <1>6
  <2> HIDE DEF n
  <2> QED BY <1>1, <2>1 DEF ReadShape
<1>7. k.op \in Ops /\ (k.op = "update" => object[k.holder] \in Objects)
  BY DEF ListInv, ListTyped, ListCallRecords, IsOf
<1> QED BY <1>2, <1>3, <1>4, <1>5, <1>6, <1>7 DEF Ops

LEMMA ReadSound ==
  ASSUME ListInv, NEW c \in ListCalls, ReadList(c)
  PROVE  ListInv'
<1>1. PICK k : lcall' = [lcall EXCEPT ![c] = k] /\ ReadShape(c, k)
  BY ReadHasShape
<1>2. /\ lcall[c].step = "reading" /\ lcall[c].step \in InFlight /\ UNCHANGED <<list, met>>
  BY DEF ReadList, InFlight
<1>3. /\ lcall[c] \in ListCallRecords /\ IsOf(lcall[c]) /\ list \in Lists /\ object \in [Holders -> Objects \cup {NoItem}]
      /\ ~met => IsAlone(lcall[c])
  BY DEF ListInv, ListTyped
<1>4. CASE k \in {ListEnds("done"), ListEnds("failed")} /\ object' = object
  <2>1. k \in ListCallRecords /\ k.op = "none" /\ k.step \notin InFlight
    BY <1>4, IdleCall DEF ListOver, InFlight
  <2>2. IsOf(k)' /\ IsAlone(k)'
    BY <2>1 DEF IsOf, IsAlone
  <2> QED BY <1>1, <1>2, <1>3, <1>4, <2>1, <2>2, ProgressSound
<1>5. CASE /\ lcall[c].op = "get" /\ k = ListEnds("done") /\ Found(lcall[c].id)
           /\ object' = [object EXCEPT ![lcall[c].holder] = NewObject(lcall[c].id, list[lcall[c].id])]
  <2>1. k \in ListCallRecords /\ k.op = "none" /\ k.step \notin InFlight
    BY <1>5, IdleCall DEF ListOver, InFlight
  <2>2. IsOf(k)' /\ IsAlone(k)'
    BY <2>1 DEF IsOf, IsAlone
  <2>3. NewObject(lcall[c].id, list[lcall[c].id]) \in Objects
    BY <1>3, <1>5 DEF IsOf, Found, Lists, NewObject, Objects
  <2>4. object' \in [Holders -> Objects \cup {NoItem}] /\ \A h \in Holders : object[h] \in Objects => object'[h] \in Objects
    BY <1>3, <1>5, <2>3
  <2> QED BY <1>1, <1>2, <1>3, <2>1, <2>2, <2>4, ProgressSound
<1>6. ASSUME NEW item \in Item \cup {NoItem}, object' = object,
             k = [lcall[c] EXCEPT !.step = "writing", !.put = [list EXCEPT ![lcall[c].id] = item]],
             lcall[c].op \in {"create", "remove", "update"},
             lcall[c].op = "create" => item = lcall[c].item,
             lcall[c].op = "update" => item = MergeItem(object[lcall[c].holder].item, lcall[c].fields, lcall[c].item)
      PROVE  ListInv'
  <2> DEFINE put == [list EXCEPT ![lcall[c].id] = item]
  <2>1. /\ put \in Lists /\ lcall[c].id \in ItemIds /\ put[lcall[c].id] = item
        /\ \A i \in ItemIds : i # lcall[c].id => put[i] = list[i]
    BY <1>3, <1>6 DEF Lists, IsOf
  <2> HIDE DEF put
  <2>2. /\ k \in ListCallRecords /\ k.step = "writing" /\ k.put = put /\ k.op = lcall[c].op /\ k.id = lcall[c].id
        /\ k.item = lcall[c].item /\ k.holder = lcall[c].holder /\ k.fields = lcall[c].fields
    BY <1>3, <1>6, <2>1 DEF ListCallRecords, InFlight, put
  <2>3. IsOf(k)'
    BY <1>3, <1>6, <2>2 DEF IsOf
  <2>4. ~met => IsAlone(k)'
    <3> SUFFICES ASSUME ~met PROVE IsAlone(k)'
      OBVIOUS
    <3>1. IsAlone(lcall[c])
      BY <1>3
    <3> QED BY <1>2, <1>6, <2>1, <2>2, <3>1 DEF IsAlone
  <2> QED BY <1>1, <1>2, <1>3, <1>6, <2>2, <2>3, <2>4, ProgressSound
<1> QED BY <1>1, <1>4, <1>5, <1>6 DEF ReadShape

\* What a write does to the object there is.
LEMMA WriteHasShape ==
  ASSUME ListInv, NEW c \in ListCalls, NEW applied \in BOOLEAN, NEW answered \in BOOLEAN, WriteList(c, applied, answered)
  PROVE  LET k == lcall[c] IN
         \/ object' = object
         \/ k.op = "create" /\ answered /\ object' = [object EXCEPT ![k.holder] = NewObject(k.id, k.item)]
         \/ k.op = "update" /\ answered
              /\ object' = [object EXCEPT ![k.holder] = ApplyUpdates(object[k.holder], k.fields, k.item)]
BY DEF WriteList, Committed

LEMMA ObjectsAreItems ==
  /\ \A id \in ItemIds, item \in Item : /\ NewObject(id, item) \in Objects /\ NewObject(id, item).id = id
                                       /\ NewObject(id, item).item = item
  /\ \A o \in Objects, item \in Item : \A fields :
       /\ ApplyUpdates(o, fields, item) \in Objects /\ ApplyUpdates(o, fields, item).id = o.id
       /\ ApplyUpdates(o, fields, item).item = MergeItem(o.item, fields, item)
<1>1. \A id \in ItemIds, item \in Item : /\ NewObject(id, item) \in Objects /\ NewObject(id, item).id = id
                                       /\ NewObject(id, item).item = item
  BY DEF NewObject, Objects
<1>2. ASSUME NEW o \in Objects, NEW item \in Item, NEW fields
      PROVE  /\ ApplyUpdates(o, fields, item) \in Objects /\ ApplyUpdates(o, fields, item).id = o.id
             /\ ApplyUpdates(o, fields, item).item = MergeItem(o.item, fields, item)
  <2> DEFINE merged == MergeItem(o.item, fields, item)
  <2>1. merged \in Item
    BY MergedIsItem DEF Objects
  <2>2. ApplyUpdates(o, fields, item) = [o EXCEPT !.item = merged]
    BY DEF ApplyUpdates
  <2> HIDE DEF merged
  <2>3. [o EXCEPT !.item = merged] \in Objects /\ [o EXCEPT !.item = merged].id = o.id /\ [o EXCEPT !.item = merged].item = merged
    BY <2>1 DEF Objects
  <2> QED BY <2>2, <2>3 DEF merged
<1> QED BY <1>1, <1>2

LEMMA WriteSound ==
  ASSUME ListInv, NEW c \in ListCalls, NEW applied \in BOOLEAN, NEW answered \in BOOLEAN, WriteList(c, applied, answered)
  PROVE  /\ ListInv'
         /\ ~met => \A h \in Holders : object'[h] # object[h] => object'[h].item = list'[object'[h].id]
<1> DEFINE k == lcall[c]
           how == IF answered THEN "done" ELSE "failed"
<1>1. /\ k.step = "writing" /\ k.step \in InFlight /\ (answered => applied) /\ list' = IF applied THEN k.put ELSE list
      /\ lcall' = [lcall EXCEPT ![c] = ListEnds(how)] /\ UNCHANGED met /\ how \in ListOver
  BY DEF WriteList, InFlight, ListOver
<1>2. /\ k \in ListCallRecords /\ IsOf(k) /\ list \in Lists /\ object \in [Holders -> Objects \cup {NoItem}]
      /\ ~met => IsAlone(k)
  BY DEF ListInv, ListTyped
<1>3. /\ ListEnds(how) \in ListCallRecords /\ ListEnds(how).op = "none" /\ ListEnds(how).step \notin InFlight
  BY <1>1, IdleCall DEF ListOver, InFlight
<1>4. IsOf(ListEnds(how))' /\ IsAlone(ListEnds(how))'
  BY <1>3 DEF IsOf, IsAlone
<1>5. list' \in Lists
  BY <1>1, <1>2 DEF ListCallRecords
<1>6. CASE object' = object
  BY <1>1, <1>2, <1>3, <1>4, <1>5, <1>6, ProgressSound
<1>7. CASE k.op = "create" /\ answered /\ object' = [object EXCEPT ![k.holder] = NewObject(k.id, k.item)]
  <2>1. /\ k.holder \in Holders /\ NewObject(k.id, k.item) \in Objects /\ NewObject(k.id, k.item).id = k.id
        /\ NewObject(k.id, k.item).item = k.item
    BY <1>2, <1>7, ObjectsAreItems DEF IsOf
  <2>2. /\ object' \in [Holders -> Objects \cup {NoItem}] /\ \A h \in Holders : object[h] \in Objects => object'[h] \in Objects
        /\ \A h \in Holders : object'[h] = IF h = k.holder THEN NewObject(k.id, k.item) ELSE object[h]
    BY <1>2, <1>7, <2>1
  <2>3. ~met => list'[k.id] = k.item
    BY <1>1, <1>2, <1>7 DEF IsAlone
  <2> QED BY <1>1, <1>2, <1>3, <1>4, <1>5, <2>1, <2>2, <2>3, ProgressSound
<1>8. CASE k.op = "update" /\ answered /\ object' = [object EXCEPT ![k.holder] = ApplyUpdates(object[k.holder], k.fields, k.item)]
  <2> DEFINE o == ApplyUpdates(object[k.holder], k.fields, k.item)
  <2>1. /\ k.holder \in Holders /\ o \in Objects /\ o.id = object[k.holder].id
        /\ o.item = MergeItem(object[k.holder].item, k.fields, k.item)
    BY <1>2, <1>8, ObjectsAreItems DEF IsOf
  <2>2. object' = [object EXCEPT ![k.holder] = o]
    BY <1>8
  <2> HIDE DEF o
  <2>3. /\ object' \in [Holders -> Objects \cup {NoItem}] /\ \A h \in Holders : object[h] \in Objects => object'[h] \in Objects
        /\ \A h \in Holders : object'[h] = IF h = k.holder THEN o ELSE object[h]
    BY <1>2, <2>1, <2>2
  <2>4. ~met => o.id = k.id /\ list'[k.id] = o.item
    BY <1>1, <1>2, <1>8, <2>1 DEF IsAlone
  <2> QED BY <1>1, <1>2, <1>3, <1>4, <1>5, <2>1, <2>3, <2>4, ProgressSound
<1> QED BY <1>6, <1>7, <1>8, WriteHasShape

LEMMA FailSound ==
  ASSUME ListInv, NEW c \in ListCalls, ReadFails(c)
  PROVE  ListInv'
<1>1. /\ lcall[c].step \in InFlight /\ lcall' = [lcall EXCEPT ![c] = ListEnds("failed")] /\ UNCHANGED <<list, object, met>>
  BY DEF ReadFails, InFlight
<1>2. /\ ListEnds("failed") \in ListCallRecords /\ ListEnds("failed").op = "none" /\ ListEnds("failed").step \notin InFlight
  BY IdleCall DEF ListOver, InFlight
<1>3. IsOf(ListEnds("failed"))' /\ IsAlone(ListEnds("failed"))'
  BY <1>2 DEF IsOf, IsAlone
<1>4. list \in Lists /\ object \in [Holders -> Objects \cup {NoItem}]
  BY DEF ListInv, ListTyped
<1> QED BY <1>1, <1>2, <1>3, <1>4, ProgressSound

LEMMA ListStep == ListInv /\ [ListNext]_listVars => ListInv'
<1> SUFFICES ASSUME ListInv, [ListNext]_listVars PROVE ListInv'
  OBVIOUS
<1>1. CASE UNCHANGED listVars
  BY <1>1 DEF listVars, ListInv, ListTyped, IsOf, IsAlone
<1> QED BY <1>1, ListStartsSound, ReadSound, WriteSound, FailSound DEF ListNext, ListProgress

\* The body of ListsAreKept.
ListKept ==
  ~met' =>
    /\ \A c \in ListCalls : lcall[c].step \in InFlight /\ list' # list =>
         \A i \in ItemIds : list'[i] # list[i] => lcall[c].op \in {"replace", "removeAll"} \/ lcall[c].id = i
    /\ \A h \in Holders : object'[h] # object[h] => object'[h].item = list'[object'[h].id]

LEMMA StepKeeps == ListInv /\ [ListNext]_listVars => ListKept
<1> SUFFICES ASSUME ListInv, [ListNext]_listVars PROVE ListKept
  OBVIOUS
<1>1. ASSUME NEW c \in ListCalls, ListStarts(c) PROVE UNCHANGED <<list, object>>
  BY <1>1 DEF ListStarts, RemoveAll, Replace, RemoveOne, Get, Create, DeleteObject, Update, Enable, StartCall
<1>2. ASSUME NEW c \in ListCalls, ReadFails(c) PROVE UNCHANGED <<list, object>>
  BY <1>2 DEF ReadFails
<1>3. ASSUME NEW c \in ListCalls, ReadList(c) PROVE ListKept
  <2>1. PICK k : ReadShape(c, k)
    BY <1>3, ReadHasShape
  <2>2. list' = list /\ lcall[c] \in ListCallRecords /\ IsOf(lcall[c]) /\ object \in [Holders -> Objects \cup {NoItem}]
    BY <1>3 DEF ReadList, ListInv, ListTyped
  <2>3. CASE object' = object
    BY <2>2, <2>3 DEF ListKept
  <2>4. CASE /\ lcall[c].op = "get" /\ Found(lcall[c].id)
             /\ object' = [object EXCEPT ![lcall[c].holder] = NewObject(lcall[c].id, list[lcall[c].id])]
    BY <2>2, <2>4 DEF ListKept, IsOf, NewObject
  <2> QED BY <2>1, <2>3, <2>4 DEF ReadShape
<1>4. ASSUME NEW c \in ListCalls, NEW applied \in BOOLEAN, NEW answered \in BOOLEAN, WriteList(c, applied, answered) PROVE ListKept
  <2> SUFFICES ASSUME ~met' PROVE ListKept
    BY DEF ListKept
  <2>1. ~met /\ lcall[c].step \in InFlight /\ lcall[c].step = "writing" /\ list' \in {list, lcall[c].put}
    BY <1>4 DEF WriteList, InFlight
  <2>2. IsAlone(lcall[c]) /\ \A d \in ListCalls : lcall[d].step \in InFlight => d = c
    BY <2>1 DEF ListInv
  <2>3. \A i \in ItemIds : list'[i] # list[i] => lcall[c].op \in {"replace", "removeAll"} \/ lcall[c].id = i
    BY <2>1, <2>2 DEF IsAlone
  <2> QED BY <1>4, <2>1, <2>2, <2>3, WriteSound DEF ListKept
<1>5. ASSUME UNCHANGED <<list, object>> PROVE ListKept
  BY <1>5 DEF ListKept
<1> QED BY <1>1, <1>2, <1>3, <1>4, <1>5 DEF ListNext, ListProgress, listVars

\* Of calls that follow one another, each touches its own item only, and what an object
\* becomes is what the cloud has taken, for any items, objects and number of calls
\* (createSchedule, removeSchedule, ESPRMNeoSchedule.update and the same of triggers).
THEOREM ListsStayKept == ListSpec => ListsAreKept
<1>1. ListInv /\ [ListNext]_listVars => [ListKept]_listVars
  BY StepKeeps
<1>2. ListSpec => [][ListKept]_listVars
  BY <1>1, ListStartsEmpty, ListStep, PTL DEF ListSpec
<1> QED BY <1>2 DEF ListsAreKept, ListKept

LEMMA ListTypes == ListSpec => []ListTypeOK
<1>1. ListInv => ListTypeOK
  BY DEF ListInv, ListTyped, ListTypeOK, ListCallRecords, Objects
<1> QED BY <1>1, ListStartsEmpty, ListStep, PTL DEF ListSpec

-----------------------------------------------------------------------------
(* --- NodeView --------------------------------------------------------------------- *)

\* What a read under way brings is what the configuration says, except where
\* something crossed it.
ReadIsCurrent ==
  \A s \in Slots : read.got[s] # 0 =>
    /\ s \in read.slots
    /\ read.got[s] # node.params[s] => s \in crossings.crossed

ViewInv ==
  /\ ViewTypeOK
  /\ ~entry.is => entry.params = NoParams
  /\ ~node.live => read = NoRead
  /\ ReadIsCurrent
  /\ NodeMirrorsStore

LEMMA NothingHeld ==
  /\ NoParams \in Params /\ \A s \in Slots : NoParams[s] = 0
  /\ NoRead \in [slots : Entities \cup {{}}, got : Params] /\ NoRead.got = NoParams
  /\ NothingMet \in [slots : SUBSET Slots, crossed : SUBSET Slots, fetched : BOOLEAN, unsaved : BOOLEAN]
BY DEF NoParams, Params, NoRead, NothingMet

LEMMA NewerWins ==
  ASSUME NEW d \in SUBSET Slots, NEW p \in [d -> SlotValues \cup {0}], NEW params \in Params
  PROVE  /\ Overlaid(params, p) \in Params
         /\ \A s \in Slots : Overlaid(params, p)[s] = IF s \in d THEN p[s] ELSE params[s]
BY DEF Overlaid, Params

LEMMA AllNew == ASSUME NEW p \in Params, NEW params \in Params PROVE Overlaid(params, p) = p
BY DEF Overlaid, Params

LEMMA ViewStarts == ViewInit => ViewInv
<1> SUFFICES ASSUME ViewInit PROVE ViewInv
  OBVIOUS
<1> USE NothingHeld DEF ViewInit
<1>1. ViewTypeOK
  BY DEF ViewTypeOK, NoNode, NoEntry
<1> QED BY <1>1 DEF ViewInv, ReadIsCurrent, NodeMirrorsStore, NoNode, NoEntry

\* A new object of what is or becomes stored.
LEMMA NewNodeIsSound ==
  ASSUME ViewInv, ~node.live, NEW params \in Params, NEW connected \in BOOLEAN, NewNode(params, connected), UNCHANGED read,
         entry' \in [is : BOOLEAN, params : Params, status : {"none", "on", "off"}], entry'.is, entry'.params = params,
         NEW fetched \in BOOLEAN, crossings' = [slots |-> {}, crossed |-> {}, fetched |-> fetched, unsaved |-> FALSE],
         ~fetched => (connected <=> entry'.status = "on")
  PROVE  ViewInv'
<1>1. node' = [live |-> TRUE, values |-> params, params |-> params, connected |-> connected]
  BY AllNew, NothingHeld DEF NewNode, ApplyParamValues
<1>2. read' = NoRead
  BY DEF ViewInv
<1>3. ViewTypeOK'
  BY <1>1, <1>2, NothingHeld DEF ViewTypeOK
<1> QED BY <1>1, <1>2, <1>3, NothingHeld DEF ViewInv, ReadIsCurrent, NodeMirrorsStore

LEMMA ViewStep == ViewInv /\ [ViewNext]_viewVars => ViewInv'
<1> SUFFICES ASSUME ViewInv, [ViewNext]_viewVars PROVE ViewInv'
  OBVIOUS
<1>a. /\ node \in [live : BOOLEAN, values : Params, params : Params, connected : BOOLEAN]
      /\ entry \in [is : BOOLEAN, params : Params, status : {"none", "on", "off"}]
      /\ read \in [slots : Entities \cup {{}}, got : Params]
      /\ crossings \in [slots : SUBSET Slots, crossed : SUBSET Slots, fetched : BOOLEAN, unsaved : BOOLEAN]
  BY DEF ViewInv, ViewTypeOK
<1>1. CASE GetStoredNode
  <2>1. /\ ~node.live /\ NewNode(entry.params, entry.status = "on") /\ UNCHANGED read /\ entry' = entry /\ entry.is
        /\ crossings' = [slots |-> {}, crossed |-> {}, fetched |-> FALSE, unsaved |-> FALSE]
        /\ entry.params \in Params /\ (entry.status = "on") \in BOOLEAN
    BY <1>1, <1>a DEF GetStoredNode, NothingMet
  <2> QED BY <1>a, <2>1, NewNodeIsSound
<1>2. CASE FetchCloudNode
  <2>1. /\ ~node.live /\ NewNode(NoParams, FALSE) /\ UNCHANGED read
        /\ entry' = [is |-> TRUE, params |-> NoParams, status |-> entry.status]
        /\ crossings' = [slots |-> {}, crossed |-> {}, fetched |-> TRUE, unsaved |-> FALSE]
    BY <1>2 DEF FetchCloudNode, NothingMet
  <2>2. entry' \in [is : BOOLEAN, params : Params, status : {"none", "on", "off"}] /\ entry'.is /\ entry'.params = NoParams
    BY <1>a, <2>1, NothingHeld
  <2> QED BY <2>1, <2>2, NothingHeld, NewNodeIsSound
<1>3. CASE ClearLocalNodeCache
  BY <1>3, <1>a, NothingHeld DEF ClearLocalNodeCache, NoEntry, ViewInv, ViewTypeOK, ReadIsCurrent, NodeMirrorsStore
<1>4. CASE Ends
  BY <1>4, <1>a, NothingHeld DEF Ends, NoNode, ViewInv, ViewTypeOK, ReadIsCurrent, NodeMirrorsStore
<1>5. CASE CachedReadEnds
  <2>1. node' = [node EXCEPT !.values = node'.values]
        /\ node'.values = [s \in Slots |-> IF read.got[s] # 0 THEN read.got[s] ELSE node.values[s]]
    BY <1>5, <1>a DEF CachedReadEnds
  <2>2. node'.values \in Params
    BY <1>a, <2>1 DEF Params
  <2>3. /\ node'.live = node.live /\ node'.params = node.params /\ node'.connected = node.connected
        /\ node' \in [live : BOOLEAN, values : Params, params : Params, connected : BOOLEAN]
    BY <1>a, <2>1, <2>2
  <2>4. /\ crossings'.slots = crossings.slots \cup crossings.crossed /\ crossings'.crossed = {}
        /\ crossings'.fetched = crossings.fetched /\ crossings'.unsaved = crossings.unsaved
        /\ crossings' \in [slots : SUBSET Slots, crossed : SUBSET Slots, fetched : BOOLEAN, unsaved : BOOLEAN]
        /\ read' = NoRead /\ entry' = entry
    BY <1>5, <1>a DEF CachedReadEnds
  <2>5. ViewTypeOK'
    BY <1>a, <2>3, <2>4, NothingHeld DEF ViewTypeOK
  <2>6. NodeMirrorsStore'
    BY <1>a, <2>1, <2>3, <2>4 DEF ViewInv, NodeMirrorsStore, ReadIsCurrent
  <2> QED BY <2>4, <2>5, <2>6, NothingHeld DEF ViewInv, ReadIsCurrent
<1>6. ASSUME NEW saved \in BOOLEAN, Sync(saved) PROVE ViewInv'
  <2>1. /\ node'.live = node.live /\ node'.values = NoParams /\ node'.params = NoParams /\ node'.connected = node.connected
        /\ node' \in [live : BOOLEAN, values : Params, params : Params, connected : BOOLEAN]
    BY <1>6, <1>a, NothingHeld DEF Sync
  <2>2. /\ crossings'.slots = {} /\ crossings'.crossed = {} /\ crossings'.unsaved = ~saved
        /\ crossings'.fetched = (crossings.fetched /\ ~saved)
        /\ crossings' \in [slots : SUBSET Slots, crossed : SUBSET Slots, fetched : BOOLEAN, unsaved : BOOLEAN]
    BY <1>6, <1>a DEF Sync, NothingMet
  <2>3. /\ read' = NoRead
        /\ entry' = IF saved THEN [is |-> TRUE, params |-> NoParams, status |-> Status(node.connected)] ELSE entry
    BY <1>6 DEF Sync, PersistWireConfig
  <2>4. entry' \in [is : BOOLEAN, params : Params, status : {"none", "on", "off"}]
    BY <1>a, <2>3, NothingHeld DEF Status
  <2> QED BY <1>a, <2>1, <2>2, <2>3, <2>4, NothingHeld DEF ViewInv, ViewTypeOK, ReadIsCurrent, NodeMirrorsStore, Status
<1>7. ASSUME NEW saved \in BOOLEAN, NEW p \in UpdateParams, NEW status \in {"none", "on", "off"}, HandleNodeUpdate(p, status, saved)
      PROVE  ViewInv'
  <2>1. PICK d \in SUBSET Slots : p \in [d -> SlotValues]
    BY DEF UpdateParams
  <2>2. d = DOMAIN p /\ p \in [d -> SlotValues \cup {0}]
    BY <2>1
  <2> DEFINE values == Overlaid(node.values, p)
             params == Overlaid(node.params, p)
             connected == IF status = "none" THEN node.connected ELSE status = "on"
  <2>3. /\ values \in Params /\ params \in Params
        /\ \A s \in Slots : values[s] = IF s \in d THEN p[s] ELSE node.values[s]
        /\ \A s \in Slots : params[s] = IF s \in d THEN p[s] ELSE node.params[s]
        /\ connected \in BOOLEAN
    <3>1. node.values \in Params /\ node.params \in Params /\ connected \in BOOLEAN
      BY <1>a
    <3>2. \A base \in Params : /\ Overlaid(base, p) \in Params
                              /\ \A s \in Slots : Overlaid(base, p)[s] = IF s \in d THEN p[s] ELSE base[s]
      BY <2>2, NewerWins
    <3> HIDE DEF connected
    <3> QED BY <3>1, <3>2
  <2>4. /\ node.live /\ node' = [node EXCEPT !.values = values, !.params = params, !.connected = connected]
        /\ entry' = IF saved THEN [is |-> TRUE, params |-> params, status |-> Status(connected)] ELSE entry
        /\ crossings' = [slots |-> crossings.slots \ d, crossed |-> crossings.crossed \cup (d \cap read.slots),
                         fetched |-> crossings.fetched /\ ~saved, unsaved |-> ~saved]
        /\ read' = read
    BY <1>7, <1>a, <2>2 DEF HandleNodeUpdate, PersistWireConfig, ApplyParamValues, MergeParamMaps
  <2> HIDE DEF values, params, connected
  <2>5. /\ node'.live /\ node'.values = values /\ node'.params = params /\ node'.connected = connected
        /\ node' \in [live : BOOLEAN, values : Params, params : Params, connected : BOOLEAN]
    BY <1>a, <2>3, <2>4
  <2>6. crossings' \in [slots : SUBSET Slots, crossed : SUBSET Slots, fetched : BOOLEAN, unsaved : BOOLEAN]
    BY <1>a, <2>1, <2>4
  <2>7. entry' \in [is : BOOLEAN, params : Params, status : {"none", "on", "off"}]
    BY <1>a, <2>3, <2>4 DEF Status
  <2>8. ReadIsCurrent'
    BY <1>a, <2>3, <2>4, <2>5 DEF ViewInv, ReadIsCurrent
  <2>9. NodeMirrorsStore'
    BY <1>a, <2>3, <2>4, <2>5 DEF ViewInv, NodeMirrorsStore, Status
  <2>10. ~entry'.is => entry'.params = NoParams
    BY <2>4 DEF ViewInv
  <2> QED BY <1>a, <2>4, <2>5, <2>6, <2>7, <2>8, <2>9, <2>10 DEF ViewInv, ViewTypeOK
<1>8. ASSUME NEW e \in Entities, StartCachedRead(e) PROVE ViewInv'
  <2> DEFINE got == [s \in Slots |-> IF s \in e THEN entry.params[s] ELSE 0]
  <2>1. got \in Params /\ e \subseteq Slots
    BY <1>a DEF Params, Slots
  <2>2. /\ node.live /\ read' = [slots |-> e, got |-> got] /\ node' = node /\ entry' = entry
        /\ crossings' = [crossings EXCEPT !.crossed = IF crossings.unsaved THEN e ELSE {}]
    BY <1>8 DEF StartCachedRead
  <2>3. /\ crossings'.slots = crossings.slots /\ crossings'.fetched = crossings.fetched /\ crossings'.unsaved = crossings.unsaved
        /\ crossings'.crossed = IF crossings.unsaved THEN e ELSE {}
        /\ crossings' \in [slots : SUBSET Slots, crossed : SUBSET Slots, fetched : BOOLEAN, unsaved : BOOLEAN]
    BY <1>a, <2>1, <2>2
  <2>4. ViewTypeOK'
    BY <1>a, <2>1, <2>2, <2>3 DEF ViewTypeOK
  <2>5. ReadIsCurrent'
    <3> SUFFICES ASSUME NEW s \in Slots, got[s] # 0
                 PROVE  s \in e /\ (got[s] # node.params[s] => s \in crossings'.crossed)
      BY <2>2 DEF ReadIsCurrent
    <3>1. s \in e /\ got[s] = entry.params[s]
      OBVIOUS
    <3>2. entry.is
      BY <3>1, NothingHeld DEF ViewInv
    <3> QED BY <2>2, <2>3, <3>1, <3>2 DEF ViewInv, NodeMirrorsStore
  <2> QED BY <2>2, <2>3, <2>4, <2>5 DEF ViewInv, NodeMirrorsStore
<1>9. ASSUME NEW e \in Entities, LiveRead(e) PROVE ViewInv'
  <2>1. PICK p \in Partial(e) : /\ node' = [node EXCEPT !.values = Overlaid(@, p)]
                                /\ crossings' = [crossings EXCEPT !.slots = @ \cup DOMAIN p]
    BY <1>9 DEF LiveRead, ApplyParamValues
  <2>2. PICK d \in SUBSET e : p \in [d -> SlotValues]
    BY DEF Partial
  <2>3. d = DOMAIN p /\ p \in [d -> SlotValues \cup {0}] /\ d \subseteq Slots
    BY <2>2 DEF Slots
  <2> DEFINE values == Overlaid(node.values, p)
  <2>4. /\ values \in Params /\ \A s \in Slots : values[s] = IF s \in d THEN p[s] ELSE node.values[s]
    <3>1. node.values \in Params
      BY <1>a
    <3>2. \A base \in Params : /\ Overlaid(base, p) \in Params
                              /\ \A s \in Slots : Overlaid(base, p)[s] = IF s \in d THEN p[s] ELSE base[s]
      BY <2>3, NewerWins
    <3> QED BY <3>1, <3>2
  <2>5. node' = [node EXCEPT !.values = values]
    BY <2>1
  <2> HIDE DEF values
  <2>6. /\ node'.live = node.live /\ node'.values = values /\ node'.params = node.params /\ node'.connected = node.connected
        /\ node' \in [live : BOOLEAN, values : Params, params : Params, connected : BOOLEAN]
    BY <1>a, <2>4, <2>5
  <2>7. /\ crossings'.slots = crossings.slots \cup d /\ crossings'.fetched = crossings.fetched /\ crossings'.unsaved = crossings.unsaved
        /\ crossings'.crossed = crossings.crossed
        /\ crossings' \in [slots : SUBSET Slots, crossed : SUBSET Slots, fetched : BOOLEAN, unsaved : BOOLEAN]
    BY <1>a, <2>1, <2>3
  <2>8. entry' = entry /\ read' = read /\ node.live
    BY <1>9 DEF LiveRead
  <2> QED BY <1>a, <2>4, <2>6, <2>7, <2>8 DEF ViewInv, ViewTypeOK, ReadIsCurrent, NodeMirrorsStore
<1>10. CASE UNCHANGED viewVars
  BY <1>10 DEF viewVars, ViewInv, ViewTypeOK, ReadIsCurrent, NodeMirrorsStore
<1> QED BY <1>1, <1>2, <1>3, <1>4, <1>5, <1>6, <1>7, <1>8, <1>9, <1>10 DEF ViewNext

\* Object, configuration and storage agree on a node's parameters and connectivity
\* except where an answer, an update or a failed write is known to have come between, for
\* any devices, services and values (processNodeUpdate, applyNodeConfig, sync, getParams).
THEOREM ViewIsKept == ViewSpec => []NodeMirrorsStore
<1>1. ViewInv => NodeMirrorsStore
  BY DEF ViewInv
<1> QED BY <1>1, ViewStarts, ViewStep, PTL DEF ViewSpec

LEMMA ViewTypes == ViewSpec => []ViewTypeOK
<1>1. ViewInv => ViewTypeOK
  BY DEF ViewInv
<1> QED BY <1>1, ViewStarts, ViewStep, PTL DEF ViewSpec

-----------------------------------------------------------------------------
(* --- UserEvents --------------------------------------------------------------------- *)

EventStates ==
  [cbs : [Sources -> EventCbs \cup {NoEventCb}], tear : [Sources -> {"none", "bus", "discovery"}],
   adapter : [set : BOOLEAN, running : SUBSET Sources, former : SUBSET Sources], bus : SUBSET Users,
   cut : SUBSET Sources, thrown : BOOLEAN]

\* Of a state and who is attended in it: what runs has its event's teardown, a
\* teardown is of its event's kind, and who is attended is served.
Stoppable(st) ==
  /\ \A s \in st.adapter.running : st.tear[s] = "discovery"
  /\ \A u \in st.bus : st.tear[<<u, "nodeUpdates">>] = "bus"
  /\ \A s \in Sources : st.tear[s] = "bus" => s[2] = "nodeUpdates"

Served(st, att) ==
  \A s \in att :
    /\ st.cbs[s] # NoEventCb
    /\ st.tear[s] = "bus" => s[1] \in st.bus
    /\ st.tear[s] = "discovery" => s \in st.adapter.running \cup st.adapter.former

EventsAreSound(st, att) == st \in EventStates /\ att \subseteq Sources /\ Stoppable(st) /\ Served(st, att)

EventInv == EventsAreSound(State, attended)

LEMMA SourceIsPair == \A s \in Sources : s[1] \in Users /\ s[2] \in Events /\ s = <<s[1], s[2]>>
BY DEF Sources

LEMMA UpdatesAreSources == \A u \in Users : <<u, "nodeUpdates">> \in Sources
BY DEF Sources, Events

LEMMA UnsubscribeSound ==
  ASSUME NEW st, NEW att, EventsAreSound(st, att), ~st.thrown, NEW s \in Sources
  PROVE  LET u == UnsubscribeIn(st, s)
         IN  /\ EventsAreSound(u, att \ u.cut)
             /\ s \in u.cut
             /\ ~u.thrown => u.tear[s] = "none"
<1> DEFINE gone == [st EXCEPT !.cbs[s] = NoEventCb, !.cut = @ \cup {s}]
           u == UnsubscribeIn(st, s)
<1>1. /\ gone \in EventStates
      /\ gone.cbs[s] = NoEventCb /\ \A r \in Sources : r # s => gone.cbs[r] = st.cbs[r]
      /\ gone.tear = st.tear /\ gone.adapter = st.adapter /\ gone.bus = st.bus
      /\ gone.cut = st.cut \cup {s} /\ gone.thrown = FALSE
  BY DEF EventsAreSound, EventStates
<1>2. att \subseteq Sources /\ Stoppable(st) /\ Served(st, att) /\ st \in EventStates
  BY DEF EventsAreSound
<1>3. CASE st.tear[s] = "none"
  <2>1. u = gone
    BY <1>3 DEF UnsubscribeIn
  <2> HIDE DEF gone, u
  <2> QED BY <1>1, <1>2, <1>3, <2>1 DEF EventsAreSound, Stoppable, Served, u
<1>4. CASE st.tear[s] = "bus"
  <2>1. u = [gone EXCEPT !.bus = @ \ {s[1]}, !.tear[s] = "none"]
    BY <1>4 DEF UnsubscribeIn
  <2> HIDE DEF gone, u
  <2>2. /\ u \in EventStates /\ u.cbs = gone.cbs /\ u.adapter = st.adapter /\ u.cut = gone.cut
        /\ u.thrown = FALSE /\ u.bus = st.bus \ {s[1]} /\ u.tear[s] = "none"
        /\ \A r \in Sources : r # s => u.tear[r] = st.tear[r]
    BY <1>1, <2>1 DEF EventStates
  <2>3. Stoppable(u)
    BY <1>2, <1>4, <2>2, SourceIsPair, UpdatesAreSources DEF Stoppable, EventStates
  <2>4. Served(u, att \ u.cut)
    <3> SUFFICES ASSUME NEW r \in att, r \notin u.cut
                 PROVE  /\ u.cbs[r] # NoEventCb
                        /\ u.tear[r] = "bus" => r[1] \in u.bus
                        /\ u.tear[r] = "discovery" => r \in u.adapter.running \cup u.adapter.former
      BY DEF Served
    <3>1. r # s /\ r \in Sources /\ u.cbs[r] = st.cbs[r] /\ u.tear[r] = st.tear[r]
      BY <1>1, <1>2, <2>2
    <3>2. u.tear[r] = "bus" => r[1] # s[1]
      <4>1. st.tear[r] = "bus" => r[2] = s[2]
        BY <1>2, <1>4, <3>1 DEF Stoppable
      <4>2. r = <<r[1], r[2]>> /\ s = <<s[1], s[2]>>
        BY <3>1, SourceIsPair
      <4> QED BY <3>1, <4>1, <4>2
    <3> QED BY <1>2, <2>2, <3>1, <3>2 DEF Served
  <2> QED BY <1>1, <1>2, <2>2, <2>3, <2>4 DEF EventsAreSound, u
<1>5. CASE st.tear[s] = "discovery" /\ st.adapter.set
  <2>1. u = [gone EXCEPT !.cut = @ \cup st.adapter.running, !.adapter.running = {}, !.tear[s] = "none"]
    BY <1>5 DEF UnsubscribeIn
  <2> HIDE DEF gone, u
  <2>2. /\ u \in EventStates /\ u.cbs = gone.cbs /\ u.adapter.running = {} /\ u.adapter.former = st.adapter.former /\ u.cut = gone.cut \cup st.adapter.running
        /\ u.thrown = FALSE /\ u.bus = st.bus /\ u.tear[s] = "none"
        /\ \A r \in Sources : r # s => u.tear[r] = st.tear[r]
    BY <1>1, <2>1 DEF EventStates
  <2>3. Stoppable(u)
    BY <1>2, <1>5, <2>2, UpdatesAreSources DEF Stoppable, EventStates
  <2>4. Served(u, att \ u.cut)
    BY <1>1, <1>2, <2>2 DEF Served
  <2> QED BY <1>1, <1>2, <2>2, <2>3, <2>4 DEF EventsAreSound, u
<1>6. CASE st.tear[s] = "discovery" /\ ~st.adapter.set
  <2>1. u = [gone EXCEPT !.thrown = TRUE]
    BY <1>6 DEF UnsubscribeIn
  <2> HIDE DEF gone, u
  <2>2. /\ u \in EventStates /\ u.cbs = gone.cbs /\ u.adapter = st.adapter /\ u.cut = gone.cut
        /\ u.thrown = TRUE /\ u.bus = st.bus /\ u.tear = st.tear
    BY <1>1, <2>1 DEF EventStates
  <2> QED BY <1>1, <1>2, <2>2 DEF EventsAreSound, Stoppable, Served, u
<1>7. st.tear[s] \in {"none", "bus", "discovery"}
  BY <1>2 DEF EventStates
<1> QED BY <1>3, <1>4, <1>5, <1>6, <1>7

LEMMA SubscribeSound ==
  ASSUME NEW st, NEW att, EventsAreSound(st, att), ~st.thrown, NEW s \in Sources, NEW cb \in EventCbs,
         NEW discovers \in BOOLEAN, NEW refuses \in BOOLEAN
  PROVE  LET v == SubscribeIn(st, s, cb, discovers, refuses)
         IN  EventsAreSound(v, (att \ v.cut) \cup (IF v.thrown THEN {} ELSE {s}))
<1> USE EventAssumption
<1> DEFINE undone == UnsubscribeIn(st, s)
           set == [undone EXCEPT !.cbs[s] = cb]
           v == SubscribeIn(st, s, cb, discovers, refuses)
           rest == att \ undone.cut
<1>1. /\ EventsAreSound(undone, rest) /\ s \in undone.cut
      /\ ~undone.thrown => undone.tear[s] = "none"
  BY UnsubscribeSound
<1>2. CASE undone.thrown
  <2>1. v = undone
    BY <1>2 DEF SubscribeIn
  <2>2. (att \ v.cut) \cup (IF v.thrown THEN {} ELSE {s}) = rest
    BY <1>2, <2>1
  <2> HIDE DEF undone, v, rest
  <2> QED BY <1>1, <2>1, <2>2 DEF v
<1>3. CASE ~undone.thrown
  <2> HIDE DEF undone
  <2>1. undone \in EventStates /\ rest \subseteq Sources /\ Stoppable(undone) /\ Served(undone, rest)
    BY <1>1 DEF EventsAreSound
  <2>2. /\ set \in EventStates /\ set.cbs[s] = cb /\ \A r \in Sources : r # s => set.cbs[r] = undone.cbs[r]
        /\ set.tear = undone.tear /\ set.adapter = undone.adapter /\ set.bus = undone.bus
        /\ set.cut = undone.cut /\ set.thrown = FALSE
    BY <1>3, <2>1 DEF EventStates
  <2>3. v = IF s[2] = "nodeUpdates" THEN StartNodeUpdates(set, s)
            ELSE IF discovers THEN StartDiscovery(set, s, refuses) ELSE set
    BY <1>3 DEF SubscribeIn, undone
  <2> HIDE DEF set
  <2>4. set.tear[s] = "none" /\ s \notin rest
    BY <1>1, <1>3, <2>2
  <2>5. Stoppable(set) /\ Served(set, rest)
    BY <2>1, <2>2, <2>4 DEF Stoppable, Served
  <2>6. CASE s[2] = "nodeUpdates"
    <3>1. v = [set EXCEPT !.bus = @ \cup {s[1]}, !.tear[s] = "bus"]
      BY <2>3, <2>6 DEF StartNodeUpdates
    <3> HIDE DEF v
    <3>2. /\ v \in EventStates /\ v.cbs = set.cbs /\ v.adapter = set.adapter /\ v.cut = set.cut
          /\ v.thrown = FALSE /\ v.bus = set.bus \cup {s[1]} /\ v.tear[s] = "bus"
          /\ \A r \in Sources : r # s => v.tear[r] = set.tear[r]
      BY <2>2, <3>1, SourceIsPair DEF EventStates
    <3>3. Stoppable(v)
      <4>1. \A u \in v.bus : <<u, "nodeUpdates">> \in Sources
        BY <3>2, UpdatesAreSources DEF EventStates
      <4>2. \A u \in v.bus : <<u, "nodeUpdates">> = s \/ u \in set.bus
        BY <2>6, <3>2, SourceIsPair
      <4> QED BY <2>2, <2>4, <2>5, <2>6, <3>2, <4>1, <4>2 DEF Stoppable, EventStates
    <3>4. Served(v, rest \cup {s})
      BY <2>1, <2>2, <2>4, <2>5, <3>2 DEF Served
    <3>5. (att \ v.cut) \cup (IF v.thrown THEN {} ELSE {s}) = rest \cup {s}
      BY <2>2, <3>2
    <3> HIDE DEF rest
    <3> QED BY <2>1, <3>2, <3>3, <3>4, <3>5 DEF EventsAreSound, v
  <2>7. CASE s[2] # "nodeUpdates" /\ discovers /\ set.adapter.set /\ ~refuses
    <3>1. v = [set EXCEPT !.adapter.running = @ \cup {s}, !.tear[s] = "discovery"]
      BY <2>3, <2>7 DEF StartDiscovery
    <3> HIDE DEF v
    <3>2. /\ v \in EventStates /\ v.cbs = set.cbs /\ v.adapter.running = set.adapter.running \cup {s} /\ v.adapter.former = set.adapter.former /\ v.cut = set.cut
          /\ v.thrown = FALSE /\ v.bus = set.bus /\ v.tear[s] = "discovery"
          /\ \A r \in Sources : r # s => v.tear[r] = set.tear[r]
      BY <2>2, <3>1 DEF EventStates
    <3>3. Stoppable(v)
      <4>1. \A u \in v.bus : <<u, "nodeUpdates">>[2] = "nodeUpdates" /\ <<u, "nodeUpdates">> \in Sources
        BY <3>2, UpdatesAreSources DEF EventStates
      <4> QED BY <2>2, <2>4, <2>5, <2>7, <3>2, <4>1 DEF Stoppable, EventStates
    <3>4. Served(v, rest \cup {s})
      BY <2>1, <2>2, <2>4, <2>5, <3>2 DEF Served
    <3>5. (att \ v.cut) \cup (IF v.thrown THEN {} ELSE {s}) = rest \cup {s}
      BY <2>2, <3>2
    <3> HIDE DEF rest
    <3> QED BY <2>1, <3>2, <3>3, <3>4, <3>5 DEF EventsAreSound, v
  <2>8. CASE s[2] # "nodeUpdates" /\ discovers /\ (~set.adapter.set \/ refuses)
    <3>1. v = [set EXCEPT !.thrown = TRUE]
      BY <2>3, <2>8 DEF StartDiscovery
    <3> HIDE DEF v
    <3>2. /\ v \in EventStates /\ v.cbs = set.cbs /\ v.adapter = set.adapter /\ v.cut = set.cut
          /\ v.thrown = TRUE /\ v.bus = set.bus /\ v.tear = set.tear
      BY <2>2, <3>1 DEF EventStates
    <3>3. (att \ v.cut) \cup (IF v.thrown THEN {} ELSE {s}) = rest
      BY <2>2, <3>2
    <3> HIDE DEF rest
    <3> QED BY <2>1, <2>5, <3>2, <3>3 DEF EventsAreSound, Stoppable, Served, v
  <2>9. CASE s[2] # "nodeUpdates" /\ ~discovers
    <3>1. v = set
      BY <2>3, <2>9
    <3>2. Served(v, rest \cup {s})
      BY <2>1, <2>2, <2>4, <2>5, <3>1 DEF Served
    <3>3. (att \ v.cut) \cup (IF v.thrown THEN {} ELSE {s}) = rest \cup {s}
      BY <2>2, <3>1
    <3> HIDE DEF rest, v
    <3> QED BY <2>1, <2>2, <2>5, <3>1, <3>2, <3>3 DEF EventsAreSound, v
  <2> QED BY <2>6, <2>7, <2>8, <2>9
<1> QED BY <1>2, <1>3

-----------------------------------------------------------------------------

LEMMA StateSound ==
  ASSUME EventInv
  PROVE  EventsAreSound(State, attended) /\ ~State.thrown
BY DEF EventInv, State

\* What a call computes becomes the state.
LEMMA BecomesSound ==
  ASSUME NEW st, NEW att, EventsAreSound(st, att), Becomes(st), attended' = att
  PROVE  EventInv'
<1> DEFINE next == [cbs |-> eventCallbacks', tear |-> eventTeardowns', adapter |-> adapter', bus |-> busListeners',
                    cut |-> {}, thrown |-> FALSE]
<1>1. State' = next
  BY DEF State
<1>2. /\ next.cbs = st.cbs /\ next.tear = st.tear /\ next.adapter = st.adapter /\ next.bus = st.bus
      /\ next \in EventStates
  BY DEF Becomes, EventsAreSound, EventStates
<1> HIDE DEF next
<1>3. EventsAreSound(next, att)
  BY <1>2 DEF EventsAreSound, Stoppable, Served
<1> QED BY <1>1, <1>3 DEF EventInv

EventShape ==
  /\ eventCallbacks \in [Sources -> EventCbs \cup {NoEventCb}]
  /\ eventTeardowns \in [Sources -> {"none", "bus", "discovery"}]
  /\ adapter \in [set : BOOLEAN, running : SUBSET Sources, former : SUBSET Sources] /\ busListeners \subseteq Users /\ attended \subseteq Sources
  /\ \A s \in adapter.running : eventTeardowns[s] = "discovery"
  /\ \A u \in busListeners : eventTeardowns[<<u, "nodeUpdates">>] = "bus"
  /\ \A s \in Sources : eventTeardowns[s] = "bus" => s[2] = "nodeUpdates"
  /\ \A s \in attended :
       /\ eventCallbacks[s] # NoEventCb
       /\ eventTeardowns[s] = "bus" => s[1] \in busListeners
       /\ eventTeardowns[s] = "discovery" => s \in adapter.running \cup adapter.former

LEMMA EventInvShape == EventInv <=> EventShape
<1> DEFINE st == State
<1>1. st.cbs = eventCallbacks /\ st.tear = eventTeardowns /\ st.adapter = adapter /\ st.bus = busListeners
  BY DEF State
<1>2. st \in EventStates <=> /\ eventCallbacks \in [Sources -> EventCbs \cup {NoEventCb}]
                            /\ eventTeardowns \in [Sources -> {"none", "bus", "discovery"}]
                            /\ adapter \in [set : BOOLEAN, running : SUBSET Sources, former : SUBSET Sources] /\ busListeners \subseteq Users
  BY DEF State, EventStates
<1> HIDE DEF st
<1>3. EventsAreSound(st, attended) <=> EventShape
  BY <1>1, <1>2 DEF EventsAreSound, Stoppable, Served, EventShape
<1> QED BY <1>3 DEF st, EventInv

LEMMA EventsStart == EventInit => EventInv
<1>1. EventInit => EventShape
  BY DEF EventInit, EventShape
<1> QED BY <1>1, EventInvShape

LEMMA RemoveAllSound ==
  ASSUME EventShape, NEW u \in Users, RemoveAllCallbacks(u)
  PROVE  EventShape'
<1> DEFINE mine == {s \in Sources : HasAny(u, s)}
           discovering == {s \in mine : eventTeardowns[s] = "discovery"}
           stops == adapter.set \/ discovering = {}
<1>1. PICK done \in SUBSET mine :
        /\ IF stops THEN done = mine ELSE Cardinality(done \cap discovering) = 1
        /\ eventCallbacks' = [s \in Sources |-> IF s \in done THEN NoEventCb ELSE eventCallbacks[s]]
        /\ eventTeardowns' = [s \in Sources |-> IF s \in done /\ (stops \/ s \notin discovering) THEN "none" ELSE eventTeardowns[s]]
        /\ adapter' = IF stops /\ discovering # {} THEN [adapter EXCEPT !.running = {}] ELSE adapter
        /\ busListeners' = {v \in busListeners : <<v, "nodeUpdates">> \notin {s \in done : eventTeardowns[s] = "bus"}}
        /\ attended' = attended \ (done \cup IF stops /\ discovering # {} THEN adapter.running ELSE {})
  BY DEF RemoveAllCallbacks
<1>2. done \subseteq Sources /\ (stops => done = mine)
      /\ \A s \in done : eventTeardowns[s] = "discovery" => s \in discovering
  BY <1>1
<1> HIDE DEF mine, discovering
<1>3. /\ eventCallbacks' \in [Sources -> EventCbs \cup {NoEventCb}]
      /\ eventTeardowns' \in [Sources -> {"none", "bus", "discovery"}]
      /\ adapter' \in [set : BOOLEAN, running : SUBSET Sources, former : SUBSET Sources] /\ busListeners' \subseteq Users /\ attended' \subseteq Sources
  BY <1>1 DEF EventShape
<1>4. \A s \in Sources : eventTeardowns'[s] = IF s \in done /\ (stops \/ s \notin discovering) THEN "none" ELSE eventTeardowns[s]
  BY <1>1
<1>5. adapter'.running = (IF stops /\ discovering # {} THEN {} ELSE adapter.running) /\ adapter'.former = adapter.former
  BY <1>1 DEF EventShape
<1>6. \A s \in adapter'.running : eventTeardowns'[s] = "discovery"
  <2> SUFFICES ASSUME NEW s \in adapter'.running PROVE eventTeardowns'[s] = "discovery"
    OBVIOUS
  <2>1. s \in adapter.running /\ s \in Sources /\ eventTeardowns[s] = "discovery" /\ ~(stops /\ discovering # {})
    BY <1>5 DEF EventShape
  <2> QED BY <1>2, <1>4, <2>1
<1>7. \A v \in busListeners' : eventTeardowns'[<<v, "nodeUpdates">>] = "bus"
  BY <1>1, <1>4, UpdatesAreSources DEF EventShape
<1>8. \A s \in Sources : eventTeardowns'[s] = "bus" => s[2] = "nodeUpdates"
  BY <1>4 DEF EventShape
<1>9. ASSUME NEW s \in attended'
      PROVE  /\ eventCallbacks'[s] # NoEventCb
             /\ eventTeardowns'[s] = "bus" => s[1] \in busListeners'
             /\ eventTeardowns'[s] = "discovery" => s \in adapter'.running \cup adapter'.former
  <2>1. s \in attended /\ s \in Sources /\ s \notin done /\ (stops /\ discovering # {} => s \notin adapter.running)
    BY <1>1 DEF EventShape
  <2>2. eventCallbacks'[s] = eventCallbacks[s] /\ eventTeardowns'[s] = eventTeardowns[s]
    BY <1>1, <1>4, <2>1
  <2>3. eventTeardowns[s] = "bus" => s = <<s[1], "nodeUpdates">>
    BY <2>1, SourceIsPair DEF EventShape
  <2>4. eventTeardowns[s] = "bus" => s[1] \in busListeners'
    BY <1>1, <2>1, <2>3 DEF EventShape
  <2> QED BY <1>5, <2>1, <2>2, <2>4 DEF EventShape
<1> QED BY <1>3, <1>6, <1>7, <1>8, <1>9 DEF EventShape

LEMMA EventStep == EventInv /\ [EventNext]_eventVars => EventInv'
<1> SUFFICES ASSUME EventInv, [EventNext]_eventVars PROVE EventInv'
  OBVIOUS
<1>1. ASSUME NEW s \in Sources, Unsubscribe(s) PROVE EventInv'
  <2> DEFINE st == UnsubscribeIn(State, s)
  <2>1. EventsAreSound(st, attended \ st.cut)
    BY StateSound, UnsubscribeSound
  <2>2. Becomes(st) /\ attended' = attended \ st.cut
    BY <1>1 DEF Unsubscribe
  <2> HIDE DEF st
  <2> QED BY <2>1, <2>2, BecomesSound
<1>2. ASSUME NEW s \in Sources, NEW cb \in EventCbs, NEW discovers \in BOOLEAN, NEW refuses \in BOOLEAN,
             Subscribe(s, cb, discovers, refuses)
      PROVE  EventInv'
  <2> DEFINE st == SubscribeIn(State, s, cb, discovers, refuses)
             att == (attended \ st.cut) \cup (IF st.thrown THEN {} ELSE {s})
  <2>1. EventsAreSound(st, att)
    BY StateSound, SubscribeSound
  <2>2. Becomes(st) /\ attended' = att
    BY <1>2 DEF Subscribe
  <2> HIDE DEF st, att
  <2> QED BY <2>1, <2>2, BecomesSound
<1>3. ASSUME NEW u \in Users, RemoveAllCallbacks(u) PROVE EventInv'
  <2>1. EventShape'
    BY <1>3, EventInvShape, RemoveAllSound
  <2> QED BY <2>1, EventInvShape, PTL
<1>4. CASE RemoveAdapter \/ \E another \in BOOLEAN : SetAdapter(another)
  <2>1. EventShape
    BY EventInvShape
  <2>2. /\ UNCHANGED <<eventCallbacks, eventTeardowns, busListeners, attended>>
        /\ adapter' \in [set : BOOLEAN, running : SUBSET Sources, former : SUBSET Sources]
        /\ adapter'.running \subseteq adapter.running
        /\ adapter'.running \cup adapter'.former = adapter.running \cup adapter.former
    <3>1. adapter \in [set : BOOLEAN, running : SUBSET Sources, former : SUBSET Sources]
      BY <2>1 DEF EventShape
    <3>2. CASE adapter' = [adapter EXCEPT !.set = FALSE] \/ adapter' = [adapter EXCEPT !.set = TRUE]
      BY <1>4, <3>1, <3>2 DEF RemoveAdapter, SetAdapter
    <3>3. CASE adapter' = [set |-> TRUE, running |-> {}, former |-> adapter.former \cup adapter.running]
      BY <1>4, <3>1, <3>3 DEF RemoveAdapter, SetAdapter
    <3> QED BY <1>4, <3>2, <3>3 DEF RemoveAdapter, SetAdapter
  <2>3. EventShape'
    BY <2>1, <2>2 DEF EventShape
  <2> QED BY <2>3, EventInvShape, PTL
<1>5. CASE UNCHANGED eventVars
  BY <1>5 DEF eventVars, EventInv, State
<1> QED BY <1>1, <1>2, <1>3, <1>4, <1>5 DEF EventNext

LEMMA SoundLeavesNothing ==
  ASSUME EventShape
  PROVE  EventsLeaveNothing
<1>1. ASSUME NEW s \in attended, eventTeardowns[s] = "bus"
      PROVE  \E h \in EmitNodeUpdate : h[1] = s
  <2>1. s \in Sources /\ s[2] = "nodeUpdates" /\ s[1] \in busListeners /\ eventCallbacks[s] # NoEventCb
    BY <1>1 DEF EventShape
  <2>2. s = <<s[1], "nodeUpdates">>
    BY <2>1, SourceIsPair
  <2>3. <<s, eventCallbacks[s], "update">> \in EmitNodeUpdate
    BY <2>1, <2>2, Zenon DEF EmitNodeUpdate, Triggered
  <2> QED BY <2>3
<1>2. ASSUME NEW s \in attended, eventTeardowns[s] = "discovery", NEW info \in Infos, IsLocal(info)
      PROVE  \E h \in Discovered(info) : h[1] = s
  <2>1. s \in adapter.running \cup adapter.former /\ eventCallbacks[s] # NoEventCb
    BY <1>2 DEF EventShape
  <2>2. <<s, eventCallbacks[s], info>> \in Discovered(info)
    BY <1>2, <2>1, Zenon DEF Discovered, Triggered
  <2> QED BY <2>2
<1>3. ASSUME NEW h \in Discovered("other") PROVE h[1][2] # "localDiscovery"
  <2>1. PICK s \in adapter.running \cup adapter.former : (s[2] = "localDiscovery" => IsLocal("other")) /\ h = <<s, eventCallbacks[s], "other">>
    BY <1>3 DEF Discovered, Triggered
  <2> QED BY <2>1 DEF IsLocal
<1> QED BY <1>1, <1>2, <1>3 DEF EventsLeaveNothing, EventShape

\* Whoever subscribed to an event and was not cut off is called when it comes, and what
\* runs on the bus or on the adapter in place can be stopped: whatever subscribing,
\* unsubscribing, disposing of the SDK, other adapters and an adapter that refuses or
\* throws leave behind, for any users and events (subscribe, unsubscribe,
\* removeAllCallbacks, dispose, setLocalDiscoveryAdapter).
THEOREM EventsTidy == EventSpec => []EventsLeaveNothing
<1>1. EventInv => EventsLeaveNothing
  BY EventInvShape, SoundLeavesNothing
<1> QED BY <1>1, EventsStart, EventStep, PTL DEF EventSpec

LEMMA EventTypes == EventSpec => []EventTypeOK
<1>1. EventInv => EventTypeOK
  BY DEF EventInv, EventsAreSound, EventStates, State, EventTypeOK
<1> QED BY <1>1, EventsStart, EventStep, PTL DEF EventSpec

-----------------------------------------------------------------------------
(* --- SdkLifecycle ------------------------------------------------------------------- *)

SdkStates ==
  [config : Config \cup {None}, auth : Config \cup {None}, manager : {None, "mqtt", "empty"}, adapters : SUBSET Optional,
   order : {"default", "own"}, mqtt : MqttAdapters \cup {None}, orchestrator : MqttAdapters \cup {None},
   api : Config \cup {None}, sigv4 : Config \cup {None}, storage : {None, "default", "custom"}, thrown : BOOLEAN]

\* No singleton is left without a configuration, and what is complete is of one.
IsWhole(s) ==
  /\ s \in SdkStates /\ s.mqtt = s.orchestrator
  /\ s.config = None => s.mqtt = None /\ s.api = None /\ s.sigv4 = None /\ s.manager = None
  /\ s.manager # None => s.config # None /\ s.api = s.config /\ s.sigv4 = s.config /\ s.auth = s.config
                         /\ s.mqtt = s.config.mqtt /\ s.storage # None /\ (s.manager = "mqtt") = (s.mqtt # None)

LEMMA NothingMade ==
  /\ Bare.config = None /\ Bare.auth = None /\ Bare.manager = None /\ Bare.adapters = {} /\ Bare.order = "default"
  /\ Bare.mqtt = None /\ Bare.orchestrator = None /\ Bare.api = None /\ Bare.sigv4 = None /\ Bare.storage = None
  /\ Bare.thrown = FALSE /\ Bare \in SdkStates
BY DEF Bare, SdkStates

LEMMA DisposedIsBare ==
  ASSUME NEW s \in SdkStates
  PROVE  LET d == DisposeIn(s)
         IN  /\ d \in SdkStates /\ d.config = None /\ d.manager = None /\ d.mqtt = None /\ d.orchestrator = None
             /\ d.api = None /\ d.sigv4 = None /\ d.thrown = s.thrown
BY DEF SdkStates, DisposeIn, DisposePeers

LEMMA ConfigHas == \A c \in Config : c.has \subseteq Optional /\ c.mqtt \in MqttAdapters \cup {None} /\ c # None
BY SdkAssumption DEF Config

LEMMA ConfigureIsWhole ==
  ASSUME NEW s, IsWhole(s), ~s.thrown, NEW c \in Config
  PROVE  LET v == ConfigureIn(s, c)
         IN  /\ IsWhole(v)
             /\ ConfigError(c) = "none" /\ "customStorageAdapter" \in c.has => ~v.thrown
<1> DEFINE left == IF s.config # None THEN DisposeIn(s) ELSE s
           fresh == [left EXCEPT !.adapters = Held(c)]
           linked == InitializeMqtt(c, fresh)
           named == [linked EXCEPT !.auth = c, !.config = c]
           stored == InitializeStorage(named, "customStorageAdapter" \in named.adapters)
           users == [stored EXCEPT !.api = c]
           signer == [users EXCEPT !.sigv4 = c]
           v == ConfigureIn(s, c)
<1>a. s \in SdkStates /\ c.has \subseteq Optional /\ c.mqtt \in MqttAdapters \cup {None} /\ c # None
  BY ConfigHas DEF IsWhole
<1>1. /\ left \in SdkStates /\ left.config = None /\ left.manager = None /\ left.mqtt = None /\ left.orchestrator = None
      /\ left.api = None /\ left.sigv4 = None /\ left.thrown = FALSE
  BY <1>a, DisposedIsBare DEF IsWhole, SdkStates
<1> HIDE DEF left
<1>2. /\ fresh \in SdkStates /\ fresh.config = None /\ fresh.manager = None /\ fresh.mqtt = None /\ fresh.orchestrator = None
      /\ fresh.api = None /\ fresh.sigv4 = None /\ fresh.thrown = FALSE /\ fresh.adapters = c.has \ {"mqttAdapter"}
  BY <1>a, <1>1 DEF SdkStates, Held
<1> HIDE DEF fresh
<1>3. /\ linked \in SdkStates /\ linked.config = None /\ linked.manager = None /\ linked.mqtt = c.mqtt /\ linked.orchestrator = c.mqtt
      /\ linked.api = None /\ linked.sigv4 = None /\ linked.thrown = FALSE /\ linked.adapters = fresh.adapters
  BY <1>a, <1>2 DEF SdkStates, InitializeMqtt
<1> HIDE DEF linked
<1>4. /\ named \in SdkStates /\ named.config = c /\ named.auth = c /\ named.manager = None /\ named.mqtt = c.mqtt /\ named.orchestrator = c.mqtt
      /\ named.api = None /\ named.sigv4 = None /\ named.thrown = FALSE /\ named.adapters = fresh.adapters
  BY <1>a, <1>3 DEF SdkStates
<1> HIDE DEF named
<1>5. /\ stored \in SdkStates /\ stored.config = c /\ stored.auth = c /\ stored.manager = None /\ stored.mqtt = c.mqtt /\ stored.orchestrator = c.mqtt
      /\ stored.api = None /\ stored.sigv4 = None
      /\ ~stored.thrown => stored.storage # None
      /\ "customStorageAdapter" \in c.has => ~stored.thrown
  BY <1>2, <1>4, SdkAssumption DEF SdkStates, InitializeStorage, Throws
<1>6. named.api = None /\ named.sigv4 = None /\ stored.sigv4 = None
  BY <1>4, <1>5
<1>7. InitializeApiStack(c, named) = IF stored.thrown THEN stored ELSE signer
  <2>1. stored.thrown \/ stored.thrown = FALSE
    BY <1>5 DEF SdkStates
  <2>2. users.thrown = stored.thrown /\ users.sigv4 = stored.sigv4
    BY <1>5 DEF SdkStates
  <2>3. InitializeApiStack(c, named) = IF stored.thrown THEN stored ELSE IF users.thrown THEN users
                                       ELSE IF named.sigv4 # None THEN Throws(users) ELSE signer
    BY <1>6 DEF InitializeApiStack
  <2> HIDE DEF stored, users, signer
  <2> QED BY <1>6, <2>1, <2>2, <2>3
<1> HIDE DEF stored
<1>8. /\ signer \in SdkStates /\ signer.config = c /\ signer.auth = c /\ signer.manager = None /\ signer.mqtt = c.mqtt /\ signer.orchestrator = c.mqtt
      /\ signer.api = c /\ signer.sigv4 = c /\ signer.thrown = stored.thrown /\ signer.storage = stored.storage
  BY <1>a, <1>5 DEF SdkStates
<1> HIDE DEF users, signer
<1>9. v = IF ConfigError(c) # "none" THEN Throws(s) ELSE IF stored.thrown THEN stored ELSE CreateManager(c, signer)
  BY <1>3, <1>5, <1>7, <1>8 DEF ConfigureIn, left, fresh, linked, named, stored, signer, users
<1> HIDE DEF v
<1>10. CASE ConfigError(c) # "none"
  <2>1. v = [s EXCEPT !.thrown = TRUE]
    BY <1>9, <1>10 DEF Throws
  <2>2. /\ v \in SdkStates /\ v.config = s.config /\ v.auth = s.auth /\ v.manager = s.manager /\ v.mqtt = s.mqtt
        /\ v.orchestrator = s.orchestrator /\ v.api = s.api /\ v.sigv4 = s.sigv4 /\ v.storage = s.storage
    BY <1>a, <2>1 DEF SdkStates
  <2> QED BY <1>10, <2>2 DEF IsWhole, v
<1>11. CASE ConfigError(c) = "none" /\ stored.thrown
  BY <1>a, <1>5, <1>9, <1>11 DEF IsWhole, v
<1>12. CASE ConfigError(c) = "none" /\ ~stored.thrown
  <2>1. v = [signer EXCEPT !.manager = IF c.mqtt # None THEN "mqtt" ELSE "empty"]
    BY <1>9, <1>12 DEF CreateManager
  <2>2. /\ v \in SdkStates /\ v.config = c /\ v.auth = c /\ v.manager = (IF c.mqtt # None THEN "mqtt" ELSE "empty") /\ v.mqtt = c.mqtt
        /\ v.orchestrator = c.mqtt /\ v.api = c /\ v.sigv4 = c /\ v.storage = stored.storage /\ v.thrown = stored.thrown
    BY <1>8, <2>1 DEF SdkStates
  <2> QED BY <1>a, <1>5, <1>12, <2>2 DEF IsWhole, v
<1> QED BY <1>10, <1>11, <1>12 DEF v

Conns ==
  [step : {"idle", "asking", "leaving", "configuring", "assuming", "naming", "connecting", "done", "failed"},
   on : MqttAdapters \cup {None}, creds : Accounts \cup {None}, identity : Accounts \cup {None}]

SdkShape ==
  /\ IsWhole(sdk) /\ ~sdk.thrown /\ signed \in Accounts \cup {None}
  /\ conn \in [1..MaxConnects -> Conns]
  /\ DOMAIN link = MqttAdapters /\ \A a \in MqttAdapters : link[a] # None => link[a].by \in 1..MaxConnects
  /\ logout \in [step : {"idle", "asking", "leaving", "clearing"}, on : MqttAdapters \cup {None}]
  /\ logout.step \in {"asking", "leaving"} => logout.on # None
  /\ excused \subseteq 1..MaxConnects

\* Call k may connect, or have connected, as who.
Stands(k, who) == k \in excused \/ (signed # None /\ who = signed)

\* What is connecting or connected may be, and a logout that no longer ends a
\* connection has excused it.
Connected ==
  /\ \A k \in 1..MaxConnects : conn[k].step = "connecting" => Stands(k, conn[k].identity)
  /\ \A a \in MqttAdapters : link[a] # None => Stands(link[a].by, link[a].identity)
  /\ \A a \in MqttAdapters : link[a] # None /\ LogoutLeaves(a) => link[a].by \in excused

SdkInv == SdkShape /\ Connected

LEMMA SdkStarts == SdkInit => SdkInv
<1> SUFFICES ASSUME SdkInit PROVE SdkInv
  OBVIOUS
<1>1. NoConn \in Conns /\ NoConn.step = "idle"
  BY DEF NoConn, Conns
<1>2. IsWhole(sdk) /\ ~sdk.thrown
  BY NothingMade DEF SdkInit, IsWhole
<1>3. conn \in [1..MaxConnects -> Conns] /\ \A k \in 1..MaxConnects : conn[k].step = "idle"
  BY <1>1 DEF SdkInit
<1>4. DOMAIN link = MqttAdapters /\ \A a \in MqttAdapters : link[a] = None
  BY DEF SdkInit
<1>5. logout \in [step : {"idle", "asking", "leaving", "clearing"}, on : MqttAdapters \cup {None}] /\ logout.step = "idle"
      /\ signed = None /\ excused = {}
  BY DEF SdkInit
<1> QED BY <1>2, <1>3, <1>4, <1>5 DEF SdkInv, SdkShape, Connected

\* The SDK changes and the session does not.
LEMMA SdkChanges ==
  ASSUME SdkInv, IsWhole(sdk)', ~sdk'.thrown, UNCHANGED <<signed, link, conn, logout, excused>>
  PROVE  SdkInv'
BY DEF SdkInv, SdkShape, Connected, Stands, LogoutLeaves

\* A call moves without connecting, and may take its adapter's connection away.
LEMMA CallMoves ==
  ASSUME SdkInv, NEW k \in 1..MaxConnects, NEW r \in Conns, To(k, r), UNCHANGED <<sdk, signed, logout, excused>>,
         DOMAIN link' = MqttAdapters, \A a \in MqttAdapters : link'[a] \in {link[a], None},
         r.step = "connecting" => signed # None /\ r.identity = signed
  PROVE  SdkInv'
<1>1. conn' \in [1..MaxConnects -> Conns] /\ conn'[k] = r /\ \A j \in 1..MaxConnects : j # k => conn'[j] = conn[j]
  BY DEF SdkInv, SdkShape, To
<1>2. SdkShape'
  BY <1>1 DEF SdkInv, SdkShape, IsWhole
<1>3. \A j \in 1..MaxConnects : conn'[j].step = "connecting" => Stands(j, conn[j].identity)'
  BY <1>1 DEF SdkInv, Connected, Stands
<1>4. \A a \in MqttAdapters : link'[a] # None => Stands(link[a].by, link[a].identity)'
  BY DEF SdkInv, Connected, Stands
<1>5. \A a \in MqttAdapters : link'[a] # None /\ LogoutLeaves(a)' => link'[a].by \in excused'
  BY DEF SdkInv, Connected, LogoutLeaves
<1> QED BY <1>2, <1>3, <1>4, <1>5 DEF SdkInv, Connected

\* Who is connected while somebody signs in or a step of logout is taken.
LEMMA SessionStep ==
  ASSUME SdkInv, Logout \/ \E who \in Accounts : SignIn(who)
  PROVE  SdkInv'
<1> USE DEF SessionRests
<1>a. SdkShape /\ Connected
  BY DEF SdkInv
<1>b. UNCHANGED <<sdk, conn>> /\ excused \subseteq excused'
  BY DEF Logout, SignIn, LogoutAsks, LogoutIsConnected, LogoutDisconnects, LogoutStaysConnected, LogoutClears
<1>c. /\ sdk.mqtt \in MqttAdapters \cup {None} /\ IsWhole(sdk)' /\ ~sdk'.thrown
      /\ \A A \in SUBSET MqttAdapters : LinkedBy(A) \subseteq 1..MaxConnects
      /\ AtConnect \subseteq 1..MaxConnects
  BY <1>a, <1>b DEF SdkShape, IsWhole, SdkStates, LinkedBy, AtConnect
<1>d. \A A \in SUBSET MqttAdapters, a \in MqttAdapters : a \in A /\ link[a] # None => link[a].by \in LinkedBy(A)
  BY DEF LinkedBy
<1>1. ASSUME NEW who \in Accounts, SignIn(who) PROVE SdkInv'
  <2>1. /\ signed' = who /\ UNCHANGED <<link, logout>>
        /\ excused' = IF signed = None THEN excused ELSE excused \cup LinkedBy(MqttAdapters) \cup AtConnect
    BY <1>1 DEF SignIn
  <2>2. SdkShape'
    BY <1>a, <1>b, <1>c, <2>1 DEF SdkShape
  <2>3. CASE signed = None
    BY <1>a, <1>b, <2>1, <2>2, <2>3 DEF Connected, Stands, LogoutLeaves, SdkInv
  <2>4. CASE signed # None
    <3>1. \A a \in MqttAdapters : link'[a] # None => link'[a].by \in excused'
      BY <1>d, <2>1, <2>4
    <3>2. \A k \in 1..MaxConnects : conn'[k].step = "connecting" => k \in excused'
      BY <1>b, <2>1, <2>4 DEF AtConnect
    <3> QED BY <2>2, <3>1, <3>2 DEF Connected, Stands, SdkInv
  <2> QED BY <2>3, <2>4
<1>2. CASE LogoutAsks
  <2>1. /\ logout' = [step |-> IF sdk.mqtt = None THEN "clearing" ELSE "asking", on |-> sdk.mqtt]
        /\ excused' = excused \cup LinkedBy(MqttAdapters \ {sdk.mqtt}) /\ UNCHANGED <<signed, link>>
    BY <1>2 DEF LogoutAsks
  <2>2. SdkShape'
    BY <1>a, <1>b, <1>c, <2>1 DEF SdkShape
  <2>3. \A a \in MqttAdapters : link'[a] # None /\ LogoutLeaves(a)' => link'[a].by \in excused'
    BY <1>d, <2>1, SdkAssumption DEF LogoutLeaves
  <2> QED BY <1>a, <1>b, <2>1, <2>2, <2>3 DEF Connected, Stands, SdkInv
<1>3. CASE LogoutIsConnected \/ LogoutDisconnects \/ LogoutStaysConnected
  <2>1. /\ logout.step \in {"asking", "leaving"} /\ logout'.step \in {"leaving", "clearing"} /\ logout'.on = logout.on
        /\ logout' \in [step : {"idle", "asking", "leaving", "clearing"}, on : MqttAdapters \cup {None}]
        /\ signed' = signed
    BY <1>3, <1>a DEF LogoutIsConnected, LogoutDisconnects, LogoutStaysConnected, SdkShape
  <2>2. /\ excused' \subseteq 1..MaxConnects
        /\ DOMAIN link' = MqttAdapters /\ \A a \in MqttAdapters : link'[a] \in {link[a], None}
    <3>1. logout.on \in MqttAdapters
      BY <1>a, <2>1 DEF SdkShape
    <3>2. LinkedBy({logout.on}) \subseteq 1..MaxConnects
      BY <1>c, <3>1
    <3> QED BY <1>3, <1>a, <3>1, <3>2 DEF LogoutIsConnected, LogoutDisconnects, LogoutStaysConnected, SdkShape
  <2>3. \A a \in MqttAdapters : a = logout.on /\ link'[a] # None /\ logout'.step = "clearing" => link'[a].by \in excused'
    BY <1>3, <1>a, <1>d DEF LogoutIsConnected, LogoutDisconnects, LogoutStaysConnected, SdkShape
  <2>4. \A a \in MqttAdapters : a # logout.on /\ link'[a] # None => link'[a].by \in excused'
    BY <1>a, <1>b, <2>1, <2>2 DEF Connected, LogoutLeaves
  <2>5. SdkShape'
    BY <1>a, <1>b, <1>c, <2>1, <2>2 DEF SdkShape
  <2>6. \A a \in MqttAdapters : link'[a] # None /\ LogoutLeaves(a)' => link'[a].by \in excused'
    BY <2>1, <2>3, <2>4 DEF LogoutLeaves
  <2> QED BY <1>a, <1>b, <2>1, <2>2, <2>5, <2>6 DEF Connected, Stands, SdkInv
<1>4. CASE LogoutClears
  <2>1. /\ logout.step = "clearing" /\ logout' = [step |-> "idle", on |-> None] /\ link' = link
        /\ signed' = (IF sdk.storage = None THEN signed ELSE None) /\ excused' = excused \cup AtConnect
    BY <1>4 DEF LogoutClears
  <2>2. SdkShape'
    BY <1>a, <1>b, <1>c, <2>1 DEF SdkShape
  <2>3. \A a \in MqttAdapters : link'[a] # None => link'[a].by \in excused'
    BY <1>a, <2>1 DEF Connected, LogoutLeaves
  <2>4. \A k \in 1..MaxConnects : conn'[k].step = "connecting" => k \in excused'
    BY <1>b, <2>1 DEF AtConnect
  <2> QED BY <2>2, <2>3, <2>4 DEF Connected, Stands, SdkInv
<1> QED BY <1>1, <1>2, <1>3, <1>4 DEF Logout

LEMMA SdkStep == SdkInv /\ [SdkNext]_sdkVars => SdkInv'
<1> SUFFICES ASSUME SdkInv, [SdkNext]_sdkVars PROVE SdkInv'
  OBVIOUS
<1>a. IsWhole(sdk) /\ sdk \in SdkStates /\ sdk.thrown = FALSE /\ conn \in [1..MaxConnects -> Conns] /\ signed \in Accounts \cup {None}
      /\ DOMAIN link = MqttAdapters
  BY DEF SdkInv, SdkShape, IsWhole, SdkStates
<1>1. ASSUME NEW c \in Config, Configure(c) PROVE SdkInv'
  <2> DEFINE v == ConfigureIn(sdk, c)
  <2>1. IsWhole(v)
    BY <1>a, ConfigureIsWhole
  <2>2. sdk' = [v EXCEPT !.thrown = FALSE] /\ UNCHANGED <<signed, link, conn, logout, excused>>
    BY <1>1 DEF Configure, LinksRest
  <2> HIDE DEF v
  <2>3. /\ sdk' \in SdkStates /\ sdk'.config = v.config /\ sdk'.auth = v.auth /\ sdk'.manager = v.manager /\ sdk'.mqtt = v.mqtt
        /\ sdk'.orchestrator = v.orchestrator /\ sdk'.api = v.api /\ sdk'.sigv4 = v.sigv4 /\ sdk'.storage = v.storage
        /\ sdk'.thrown = FALSE
    BY <2>1, <2>2 DEF IsWhole, SdkStates
  <2>4. IsWhole(sdk)' /\ ~sdk'.thrown
    BY <2>1, <2>3 DEF IsWhole
  <2> QED BY <2>2, <2>4, SdkChanges
<1>2. CASE DisposeSdk
  <2>1. sdk' = DisposeIn(sdk) /\ UNCHANGED <<signed, link, conn, logout, excused>>
    BY <1>2 DEF DisposeSdk, LinksRest
  <2>2. IsWhole(sdk)' /\ ~sdk'.thrown
    BY <1>a, <2>1, DisposedIsBare DEF IsWhole
  <2> QED BY <2>1, <2>2, SdkChanges
<1>3. CASE SetDeviceAdapters \/ SetStorageAdapter \/ SetTransportOrder
  <2>1. UNCHANGED <<signed, link, conn, logout, excused>>
    BY <1>3 DEF SetDeviceAdapters, SetStorageAdapter, SetTransportOrder, LinksRest
  <2>2. /\ sdk' \in SdkStates /\ sdk'.config = sdk.config /\ sdk'.auth = sdk.auth /\ sdk'.manager = sdk.manager /\ sdk'.mqtt = sdk.mqtt
        /\ sdk'.orchestrator = sdk.orchestrator /\ sdk'.api = sdk.api /\ sdk'.sigv4 = sdk.sigv4
        /\ sdk'.storage \in {sdk.storage, "custom"} /\ sdk'.thrown = FALSE
    <3>1. CASE SetDeviceAdapters
      BY <1>a, <3>1 DEF SetDeviceAdapters, SdkStates, Optional
    <3>2. CASE SetStorageAdapter
      <4>1. sdk' = [[sdk EXCEPT !.adapters = @ \cup {"customStorageAdapter"}] EXCEPT !.storage = "custom"]
        BY <3>2 DEF SetStorageAdapter, InitializeStorage
      <4> QED BY <1>a, <4>1 DEF SdkStates, Optional
    <3>3. CASE SetTransportOrder
      BY <1>a, <3>3 DEF SetTransportOrder, SdkStates
    <3> QED BY <1>3, <3>1, <3>2, <3>3
  <2>3. IsWhole(sdk)' /\ ~sdk'.thrown
    BY <1>a, <2>2, SdkAssumption DEF IsWhole
  <2> QED BY <2>1, <2>3, SdkChanges
<1>4. CASE Logout \/ \E who \in Accounts : SignIn(who)
  BY <1>4, SessionStep
<1>5. ASSUME NEW k \in 1..MaxConnects, ConnectMQTT(k) PROVE SdkInv'
  <2> DEFINE r == [conn[k] EXCEPT !.step = IF sdk.mqtt # None THEN "asking" ELSE "configuring", !.on = sdk.mqtt]
  <2>1. To(k, r) /\ UNCHANGED <<sdk, signed, link, logout, excused>>
    BY <1>5 DEF ConnectMQTT, Rests
  <2>2. r \in Conns /\ r.step \in {"asking", "configuring"}
    <3>1. sdk.mqtt \in MqttAdapters \cup {None} /\ conn[k] \in Conns
      BY <1>a DEF SdkStates
    <3> DEFINE step == IF sdk.mqtt # None THEN "asking" ELSE "configuring"
    <3>2. step \in {"asking", "configuring"} /\ r = [conn[k] EXCEPT !.step = step, !.on = sdk.mqtt]
      OBVIOUS
    <3> HIDE DEF step, r
    <3> QED BY <3>1, <3>2 DEF Conns
  <2> HIDE DEF r
  <2> QED BY <1>a, <2>1, <2>2, CallMoves
<1>6. ASSUME NEW k \in 1..MaxConnects, IsConnected(k) \/ Disconnected(k) PROVE SdkInv'
  <2>1. PICK step \in {"leaving", "configuring"} : Step(k, step)
    BY <1>6 DEF IsConnected, Disconnected
  <2> DEFINE r == [conn[k] EXCEPT !.step = step]
  <2>2. To(k, r) /\ r \in Conns /\ r.step \in {"leaving", "configuring"}
    BY <1>a, <2>1 DEF Step, Conns
  <2>3. /\ UNCHANGED <<sdk, signed, logout, excused>> /\ DOMAIN link' = MqttAdapters
        /\ \A a \in MqttAdapters : link'[a] \in {link[a], None}
    BY <1>6, <1>a DEF IsConnected, Disconnected, Rests
  <2> HIDE DEF r
  <2> QED BY <2>2, <2>3, CallMoves
<1>7. ASSUME NEW k \in 1..MaxConnects, GetsCredentials(k) PROVE SdkInv'
  <2> DEFINE r == [conn[k] EXCEPT !.step = "assuming", !.creds = signed]
  <2>1. To(k, r) /\ r \in Conns /\ r.step = "assuming" /\ UNCHANGED <<sdk, signed, logout, excused, link>>
    BY <1>7, <1>a DEF GetsCredentials, Rests, Conns
  <2> HIDE DEF r
  <2> QED BY <1>a, <2>1, CallMoves
<1>8. ASSUME NEW k \in 1..MaxConnects, AssumesRole(k) PROVE SdkInv'
  <2> DEFINE r == [conn[k] EXCEPT !.step = "naming"]
  <2>1. To(k, r) /\ r \in Conns /\ r.step = "naming" /\ UNCHANGED <<sdk, signed, logout, excused, link>>
    BY <1>8, <1>a DEF AssumesRole, Step, Rests, Conns
  <2> HIDE DEF r
  <2> QED BY <1>a, <2>1, CallMoves
<1>9. ASSUME NEW k \in 1..MaxConnects, ResolvesIdentity(k) PROVE SdkInv'
  <2> DEFINE r == [conn[k] EXCEPT !.step = "connecting", !.identity = signed, !.on = sdk.mqtt]
  <2>1. To(k, r) /\ r \in Conns /\ r.identity = signed /\ signed # None /\ UNCHANGED <<sdk, signed, logout, excused, link>>
    BY <1>9, <1>a DEF ResolvesIdentity, Rests, Conns, SdkStates
  <2> HIDE DEF r
  <2> QED BY <1>a, <2>1, CallMoves
<1>10. ASSUME NEW k \in 1..MaxConnects, Connects(k) PROVE SdkInv'
  <2> DEFINE r == [NoConn EXCEPT !.step = "done"]
             o == conn[k].on
  <2>1. /\ conn[k].step = "connecting" /\ To(k, r) /\ UNCHANGED <<sdk, signed, logout>>
        /\ link' = [link EXCEPT ![o] = [by |-> k, identity |-> conn[k].identity]]
        /\ excused' = IF LogoutLeaves(o) THEN excused \cup {k} ELSE excused
    BY <1>10 DEF Connects, Over, Rests
  <2>2. r \in Conns /\ r.step = "done"
    BY DEF NoConn, Conns
  <2> HIDE DEF r
  <2>3. conn' \in [1..MaxConnects -> Conns] /\ \A j \in 1..MaxConnects : conn'[j].step = "connecting" => conn'[j] = conn[j]
    BY <1>a, <2>1, <2>2 DEF To
  <2>4. DOMAIN link' = MqttAdapters /\ \A a \in MqttAdapters : IF a = o THEN link'[a] = [by |-> k, identity |-> conn[k].identity] ELSE link'[a] = link[a]
    BY <1>a, <2>1
  <2>5. excused \subseteq excused' /\ excused' \subseteq 1..MaxConnects
    BY <2>1 DEF SdkInv, SdkShape
  <2>6. SdkShape'
    BY <2>1, <2>3, <2>4, <2>5 DEF SdkInv, SdkShape, IsWhole
  <2>7. Stands(k, conn[k].identity)
    BY <2>1 DEF SdkInv, Connected
  <2>8. \A j \in 1..MaxConnects : conn'[j].step = "connecting" => Stands(j, conn[j].identity)'
    BY <2>1, <2>3, <2>5 DEF SdkInv, Connected, Stands
  <2>9. \A a \in MqttAdapters : link'[a] # None => Stands(link[a].by, link[a].identity)'
    BY <2>1, <2>4, <2>5, <2>7 DEF SdkInv, Connected, Stands
  <2>10. \A a \in MqttAdapters : link'[a] # None /\ LogoutLeaves(a)' => link'[a].by \in excused'
    BY <2>1, <2>4, <2>5 DEF SdkInv, Connected, LogoutLeaves
  <2> QED BY <2>6, <2>8, <2>9, <2>10 DEF SdkInv, Connected
<1>11. ASSUME NEW k \in 1..MaxConnects, ConnectFails(k) PROVE SdkInv'
  <2> DEFINE r == [NoConn EXCEPT !.step = "failed"]
  <2>1. To(k, r) /\ r \in Conns /\ r.step = "failed" /\ UNCHANGED <<sdk, signed, logout, excused, link>>
    BY <1>11 DEF ConnectFails, Over, Rests, NoConn, Conns
  <2> HIDE DEF r
  <2> QED BY <1>a, <2>1, CallMoves
<1>12. CASE UNCHANGED sdkVars
  BY <1>a, <1>12, SdkChanges DEF sdkVars, IsWhole
<1> QED BY <1>1, <1>2, <1>3, <1>4, <1>5, <1>6, <1>7, <1>8, <1>9, <1>10, <1>11, <1>12 DEF SdkNext, ConnectProgress

\* However often configuring fails or the SDK is disposed of, a complete configuration
\* is accepted, and what is configured is of one configuration (configure, dispose,
\* initializeApiStack, disposePeerSingletons).
THEOREM SdkIsAlwaysWhole == SdkSpec => []SdkIsWhole
<1>1. SdkInv => SdkIsWhole
  BY ConfigureIsWhole DEF SdkInv, SdkShape, SdkIsWhole, IsWhole
<1> QED BY <1>1, SdkStarts, SdkStep, PTL DEF SdkSpec

\* Who is connected is who is signed in, whatever connects, logouts, logins and changes
\* of the SDK meet at their awaits, except for the connections that are excused: for any
\* accounts, adapters and number of calls (logout, connectMQTT, disconnectMQTT).
THEOREM ConnectedStaysSignedIn == SdkSpec => []ConnectedIsSignedIn
<1>1. SdkInv => ConnectedIsSignedIn
  BY DEF SdkInv, Connected, Stands, ConnectedIsSignedIn
<1> QED BY <1>1, SdkStarts, SdkStep, PTL DEF SdkSpec

LEMMA SdkTypes == SdkSpec => []SdkTypeOK
<1>1. SdkInv => SdkTypeOK
  BY DEF SdkInv, SdkShape, IsWhole, SdkStates, Conns, SdkTypeOK
<1> QED BY <1>1, SdkStarts, SdkStep, PTL DEF SdkSpec

-----------------------------------------------------------------------------
(* --- SubscriptionManager ------------------------------------------------------------ *)

\* A set of naturals has a least one.
LEMMA LeastExists ==
  ASSUME NEW T \in SUBSET Nat, T # {}
  PROVE  \E i \in T : \A j \in T : i <= j
<1>1. IsWellFoundedOn(OpToRel(<, Nat), Nat)
  BY NatLessThanWellFounded
<1>2. PICK i \in T : \A j \in T : ~(<<j, i>> \in OpToRel(<, Nat))
  BY <1>1, WFMin
<1>3. \A j \in T : ~(j < i)
  BY <1>2, Zenon DEF OpToRel
<1> QED BY <1>3

LEMMA FirstFound ==
  ASSUME NEW order \in Seq(Channels), NEW S
  PROVE  /\ (\E ch \in Range(order) : ch \in S) => FirstOf(order, S) \in S /\ FirstOf(order, S) \in Range(order)
         /\ ~(\E ch \in Range(order) : ch \in S) => FirstOf(order, S) = Nobody
<1> DEFINE at == {i \in DOMAIN order : order[i] \in S}
<1>1. FirstOf(order, S) = IF at = {} THEN Nobody ELSE order[CHOOSE i \in at : \A j \in at : i <= j]
  BY DEF FirstOf
<1>2. at \in SUBSET Nat
  OBVIOUS
<1>3. CASE at = {}
  BY <1>1, <1>3 DEF Range
<1>4. CASE at # {}
  <2>1. \E i \in at : \A j \in at : i <= j
    <3> HIDE DEF at
    <3> QED BY <1>2, <1>4, LeastExists
  <2> DEFINE i == CHOOSE i \in at : \A j \in at : i <= j
  <2>2. i \in at
    BY <2>1
  <2>3. FirstOf(order, S) = order[i]
    BY <1>1, <1>4
  <2> HIDE DEF i
  <2> QED BY <2>2, <2>3 DEF Range
<1> QED BY <1>3, <1>4

LEMMA OrderWithout ==
  ASSUME NEW order \in Seq(Channels), IsInjective(order), NEW ch
  PROVE  /\ Without(order, ch) \in Seq(Channels) /\ IsInjective(Without(order, ch))
         /\ Range(Without(order, ch)) = Range(order) \ {ch}
<1>1. CASE ch \notin Range(order)
  BY <1>1 DEF Without
<1>2. CASE ch \in Range(order)
  <2> DEFINE at == CHOOSE i \in DOMAIN order : order[i] = ch
             before == SubSeq(order, 1, at - 1)
             after == SubSeq(order, at + 1, Len(order))
             w == before \o after
  <2>1. at \in 1..Len(order) /\ order[at] = ch
    BY <1>2 DEF Range
  <2>2. Without(order, ch) = w
    BY <1>2 DEF Without, RemoveAt
  <2> HIDE DEF at
  <2>3. /\ before \in Seq(Channels) /\ Len(before) = at - 1 /\ \A i \in 1..(at - 1) : before[i] = order[i]
        /\ after \in Seq(Channels) /\ Len(after) = Len(order) - at /\ \A i \in 1..(Len(order) - at) : after[i] = order[at + i]
    BY <2>1
  <2> HIDE DEF before, after
  <2>4. /\ w \in Seq(Channels) /\ DOMAIN w = 1..(Len(order) - 1)
        /\ \A i \in 1..(Len(order) - 1) : w[i] = IF i < at THEN order[i] ELSE order[i + 1]
    <3>1. w \in Seq(Channels) /\ Len(w) = Len(order) - 1
      <4>3. before \in Seq(Channels) /\ after \in Seq(Channels)
        BY <2>3
      <4>1. w \in Seq(Channels) /\ Len(w) = Len(before) + Len(after)
        BY <4>3
      <4>2. Len(order) \in Nat /\ at \in Nat
        BY <2>1
      <4> HIDE DEF w
      <4> QED BY <2>3, <4>1, <4>2
    <3>2. \A i \in 1..(Len(order) - 1) : w[i] = IF i <= at - 1 THEN before[i] ELSE after[i - (at - 1)]
      BY <2>1, <2>3
    <3> HIDE DEF w
    <3>3. ASSUME NEW i \in 1..(Len(order) - 1) PROVE w[i] = IF i < at THEN order[i] ELSE order[i + 1]
      <4>1. CASE i < at
        BY <2>1, <2>3, <3>2, <4>1
      <4>2. CASE ~(i < at)
        <5>1. w[i] = after[i - (at - 1)] /\ (i - (at - 1)) \in 1..(Len(order) - at) /\ at + (i - (at - 1)) = i + 1
          BY <2>1, <3>2, <4>2
        <5> QED BY <2>3, <4>2, <5>1
      <4> QED BY <4>1, <4>2
    <3> QED BY <3>1, <3>3
  <2> HIDE DEF w
  <2>5. \A i \in DOMAIN order, j \in DOMAIN order : order[i] = order[j] => i = j
    BY DEF IsInjective
  <2>6. ASSUME NEW i \in DOMAIN w, NEW j \in DOMAIN w, w[i] = w[j] PROVE i = j
    <3> DEFINE from(k) == IF k < at THEN k ELSE k + 1
    <3>1. i \in Int /\ j \in Int /\ at \in Int /\ from(i) \in DOMAIN order /\ from(j) \in DOMAIN order
      BY <2>1, <2>4
    <3>2. w[i] = order[from(i)] /\ w[j] = order[from(j)]
      BY <2>4
    <3>3. from(i) = from(j)
      BY <2>5, <2>6, <3>1, <3>2
    <3> QED BY <3>1, <3>3
  <2>7. \A i \in DOMAIN w : \E j \in DOMAIN order : w[i] = order[j] /\ j # at
    <3> SUFFICES ASSUME NEW i \in DOMAIN w PROVE \E j \in DOMAIN order : w[i] = order[j] /\ j # at
      OBVIOUS
    <3>1. CASE i < at
      <4>1. i \in DOMAIN order /\ i # at /\ w[i] = order[i]
        BY <2>1, <2>4, <3>1
      <4> QED BY <4>1
    <3>2. CASE ~(i < at)
      <4>1. i + 1 \in DOMAIN order /\ i + 1 # at /\ w[i] = order[i + 1]
        BY <2>1, <2>4, <3>2
      <4> QED BY <4>1
    <3> QED BY <3>1, <3>2
  <2>8. \A j \in DOMAIN order : j # at => \E i \in DOMAIN w : w[i] = order[j]
    <3> SUFFICES ASSUME NEW j \in DOMAIN order, j # at PROVE \E i \in DOMAIN w : w[i] = order[j]
      OBVIOUS
    <3>1. CASE j < at
      <4>1. j \in DOMAIN w /\ w[j] = order[j]
        BY <2>1, <2>4, <3>1
      <4> QED BY <4>1
    <3>2. CASE j > at
      <4>1. (j - 1) \in DOMAIN w /\ ~(j - 1 < at) /\ (j - 1) + 1 = j
        BY <2>1, <2>4, <3>2
      <4>2. w[j - 1] = order[j]
        BY <2>4, <4>1
      <4> QED BY <4>1, <4>2
    <3> QED BY <2>1, <3>1, <3>2
  <2>9. Range(w) = Range(order) \ {ch}
    BY <2>1, <2>5, <2>7, <2>8 DEF Range
  <2> QED BY <2>2, <2>4, <2>6, <2>9 DEF IsInjective
<1> QED BY <1>1, <1>2

LEMMA OrderWith ==
  ASSUME NEW order \in Seq(Channels), IsInjective(order), NEW ch \in Channels, ch \notin Range(order)
  PROVE  /\ Append(order, ch) \in Seq(Channels) /\ IsInjective(Append(order, ch))
         /\ Range(Append(order, ch)) = Range(order) \cup {ch}
<1> DEFINE w == Append(order, ch)
<1>1. w \in Seq(Channels) /\ DOMAIN w = 1..(Len(order) + 1) /\ w[Len(order) + 1] = ch /\ \A i \in 1..Len(order) : w[i] = order[i]
  OBVIOUS
<1>2. \A i \in 1..Len(order) : order[i] # ch
  BY DEF Range
<1>3. \A i \in 1..Len(order), j \in 1..Len(order) : order[i] = order[j] => i = j
  BY DEF IsInjective
<1> HIDE DEF w
<1>4. \A i \in DOMAIN w, j \in DOMAIN w : w[i] = w[j] => i = j
  BY <1>1, <1>2, <1>3
<1>5. Range(w) = Range(order) \cup {ch}
  BY <1>1 DEF Range
<1> QED BY <1>1, <1>4, <1>5 DEF IsInjective, w

LEMMA OrdersAre == \A s \in Orders : s \in Seq(Channels)
<1>1. Cardinality(Channels) \in Nat
  BY ManagerAssumption, FS_CardinalityType
<1> QED BY <1>1 DEF Orders

-----------------------------------------------------------------------------
SubOps == {"none", "initialize", "unregister", "subscribe", "unsubscribe", "dispose"}

SubCallStates ==
  [op : SubOps, step : {"idle", "awaiting", "done", "failed"}, node : SubNodes \cup {Nobody}, cb : Callbacks \cup {Nobody},
   at : Channels \cup {Nobody}, order : Seq(Channels), todo : SUBSET Channels, seen : SUBSET Channels, clean : BOOLEAN, missed : BOOLEAN]

Registered == Range(manager.channels)
Disposing == \E d \in Busy : scall[d].op = "dispose"
AboutPairs == {"subscribe", "unsubscribe"}

\* What a call under way has found so far still holds.
CallFits(k) ==
  /\ k.seen \subseteq Registered
  /\ k.step = "awaiting" =>
       /\ k.op # "none" /\ k.at \in Channels
       /\ k.op = "initialize" /\ ~Disposing => \A ch \in k.seen : channel[ch].asked # "no"
       /\ k.op = "subscribe" /\ k.clean => k.at \in Registered /\ k.todo \subseteq Registered
       /\ k.op = "unsubscribe" /\ k.clean /\ ~k.missed => \A ch \in k.seen \ {k.at} : channel[ch].subs \cap Leaving(k) = {}
       /\ k.op = "subscribe" => k.node \in SubNodes /\ k.cb \in Callbacks

\* A call that nothing spoilt is alone but for initializing.
CleanIsAlone ==
  \A c, d \in Busy : c # d /\ scall[c].clean /\ scall[c].op \in AboutPairs => scall[d].op = "initialize"

\* What was told of a pair is so, and nothing under way will change it.
ToldIsSo(p) ==
  /\ told[p] # "nothing" => \A d \in Busy : scall[d].op = "initialize" \/ (scall[d].op \in AboutPairs /\ p \notin Leaving(scall[d]))
  /\ told[p] = "subscribed" => \E ch \in Registered : p \in channel[ch].subs
  /\ told[p] = "unsubscribed" => \A ch \in Registered : p \notin channel[ch].subs

AskedIfInitialized == manager.initialized /\ ~Disposing => \A ch \in Registered : channel[ch].asked # "no"

ManagerTyped ==
  /\ manager \in [channels : Seq(Channels), order : Seq(Channels), initialized : BOOLEAN, own : [SubNodes -> Seq(Channels)]]
  /\ IsInjective(manager.channels)
  /\ channel \in [Channels -> [asked : {"no", "asked", "left"}, subs : SUBSET Pairs]]
  /\ told \in [Pairs -> {"nothing", "subscribed", "unsubscribed"}]
  /\ scall \in [SubCalls -> SubCallStates]

ManagerInv ==
  /\ ManagerTyped /\ CleanIsAlone /\ AskedIfInitialized
  /\ \A c \in SubCalls : CallFits(scall[c])
  /\ \A p \in Pairs : ToldIsSo(p)

LEMMA ManagerStartsSound == ManagerInit => ManagerInv
<1> SUFFICES ASSUME ManagerInit PROVE ManagerInv
  OBVIOUS
<1>1. PICK ch \in Generic : manager = [channels |-> <<ch>>, order |-> <<ch>>, initialized |-> FALSE, own |-> [n \in SubNodes |-> <<>>]]
  BY DEF ManagerInit
<1>2. ch \in Channels /\ <<ch>> \in Seq(Channels) /\ <<>> \in Seq(Channels) /\ IsInjective(<<ch>>)
  BY ManagerAssumption DEF IsInjective
<1>3. NoSubCall \in SubCallStates /\ NoSubCall.step = "idle" /\ NoSubCall.seen = {}
  BY <1>2 DEF NoSubCall, SubCallStates, SubOps
<1>4. \A c \in SubCalls : scall[c] = NoSubCall
  BY DEF ManagerInit
<1>5. ManagerTyped
  BY <1>1, <1>2, <1>3 DEF ManagerInit, ManagerTyped
<1>6. Busy = {}
  BY <1>3, <1>4 DEF Busy
<1>7. \A p \in Pairs : told[p] = "nothing"
  BY DEF ManagerInit
<1>8. CleanIsAlone /\ AskedIfInitialized
  BY <1>1, <1>6 DEF CleanIsAlone, AskedIfInitialized
<1>9. \A c \in SubCalls : CallFits(scall[c])
  BY <1>3, <1>4 DEF CallFits
<1>10. \A p \in Pairs : ToldIsSo(p)
  BY <1>7 DEF ToldIsSo
<1> QED BY <1>5, <1>8, <1>9, <1>10 DEF ManagerInv

-----------------------------------------------------------------------------
LEMMA EndedCall ==
  ASSUME NEW how \in {"done", "failed"}
  PROVE  LET e == [NoSubCall EXCEPT !.step = how]
         IN e \in SubCallStates /\ e.step = how /\ e.step # "awaiting" /\ e.seen = {}
<1>1. <<>> \in Seq(Channels)
  OBVIOUS
<1> QED BY <1>1 DEF NoSubCall, SubCallStates, SubOps

\* A call that another's step leaves where it was: it may be spoilt, and may have to
\* go to a channel again.
Follows(d) ==
  /\ scall'[d].op = scall[d].op /\ scall'[d].step = scall[d].step /\ scall'[d].node = scall[d].node /\ scall'[d].cb = scall[d].cb
  /\ scall'[d].at = scall[d].at /\ scall'[d].todo = scall[d].todo /\ scall'[d].missed = scall[d].missed
  /\ (scall'[d].clean => scall[d].clean) /\ scall'[d].seen \subseteq scall[d].seen

LEMMA OthersFollow ==
  ASSUME ManagerInv, NEW c \in SubCalls, scall' \in [SubCalls -> SubCallStates],
         \A d \in SubCalls : d # c => Follows(d) /\ scall'[d].seen \subseteq Registered',
         \A ch \in Channels : channel[ch].asked # "no" /\ channel'[ch].asked = "no" =>
           Disposing' \/ \A d \in SubCalls : d # c => ch \notin scall'[d].seen,
         Disposing /\ ~Disposing' => \A d \in SubCalls : d # c => scall'[d].seen = {},
         \A d \in SubCalls : d # c /\ d \in Busy /\ scall'[d].clean /\ scall[d].op \in AboutPairs =>
           /\ Registered \subseteq Registered' /\ \A ch \in Channels : channel'[ch].subs \subseteq channel[ch].subs
           /\ c \in Busy' => scall'[c].op = "initialize",
         CallFits(scall[c])',
         c \in Busy' /\ scall'[c].clean /\ scall'[c].op \in AboutPairs =>
           \A d \in SubCalls : d # c /\ d \in Busy => scall[d].op = "initialize"
  PROVE  CleanIsAlone' /\ \A d \in SubCalls : CallFits(scall[d])'
<1>a. scall \in [SubCalls -> SubCallStates] /\ \A d \in SubCalls : scall[d] \in SubCallStates /\ scall'[d] \in SubCallStates
  BY DEF ManagerInv, ManagerTyped
<1>1. \A d \in SubCalls : d # c => (d \in Busy' <=> d \in Busy)
  BY DEF Busy, Follows
<1>2. CleanIsAlone'
  <2> SUFFICES ASSUME NEW d \in Busy', NEW e \in Busy', d # e, scall'[d].clean, scall'[d].op \in AboutPairs
               PROVE  scall'[e].op = "initialize"
    BY DEF CleanIsAlone
  <2>1. d \in SubCalls /\ e \in SubCalls
    BY DEF Busy
  <2>2. CASE d = c
    <3>1. e # c /\ e \in Busy
      BY <1>1, <2>1, <2>2
    <3> QED BY <2>1, <2>2, <3>1 DEF Follows
  <2>3. CASE e = c
    <3>1. d # c /\ d \in Busy /\ scall[d].op \in AboutPairs
      BY <1>1, <2>1, <2>3 DEF Follows
    <3> QED BY <2>1, <2>3, <3>1
  <2>4. CASE d # c /\ e # c
    <3>1. d \in Busy /\ e \in Busy /\ scall[d].clean /\ scall[d].op \in AboutPairs /\ scall'[e].op = scall[e].op
      BY <1>1, <2>1, <2>4 DEF Follows
    <3> QED BY <3>1 DEF ManagerInv, CleanIsAlone
  <2> QED BY <2>2, <2>3, <2>4
<1>3. ASSUME NEW d \in SubCalls, d # c PROVE CallFits(scall[d])'
  <2>1. CallFits(scall[d]) /\ Follows(d) /\ scall'[d].seen \subseteq Registered' /\ scall'[d] \in SubCallStates
    BY <1>3, <1>a DEF ManagerInv
  <2>2. CASE scall'[d].step # "awaiting"
    BY <2>1, <2>2 DEF CallFits
  <2>3. CASE scall'[d].step = "awaiting"
    <3>1. d \in Busy /\ scall[d].step = "awaiting" /\ scall[d].at \in Channels
      BY <2>1, <2>3 DEF Busy, Follows, CallFits
    <3>2. scall'[d].op = "initialize" /\ ~Disposing' => \A ch \in scall'[d].seen : channel'[ch].asked # "no"
      <4> SUFFICES ASSUME scall'[d].op = "initialize", ~Disposing', NEW ch \in scall'[d].seen PROVE channel'[ch].asked # "no"
        OBVIOUS
      <4>1. ~Disposing /\ ch \in Channels
        BY <1>3, <2>1 DEF SubCallStates
      <4>2. channel[ch].asked # "no"
        BY <2>1, <3>1, <4>1 DEF CallFits, Follows
      <4> QED BY <1>3, <4>1, <4>2
    <3>3. Leaving(scall'[d]) = Leaving(scall[d])
      BY <2>1 DEF Leaving, Follows
    <3>4. scall'[d].op = "subscribe" /\ scall'[d].clean => scall'[d].at \in Registered' /\ scall'[d].todo \subseteq Registered'
      BY <1>3, <2>1, <3>1 DEF CallFits, Follows, AboutPairs
    <3>5. scall'[d].op = "unsubscribe" /\ scall'[d].clean /\ ~scall'[d].missed =>
            \A ch \in scall'[d].seen \ {scall'[d].at} : channel'[ch].subs \cap Leaving(scall'[d]) = {}
      <4> SUFFICES ASSUME scall'[d].op = "unsubscribe", scall'[d].clean, ~scall'[d].missed, NEW ch \in scall'[d].seen \ {scall'[d].at}
                   PROVE  channel'[ch].subs \cap Leaving(scall[d]) = {}
        BY <3>3
      <4>1. ch \in Channels /\ ch \in scall[d].seen \ {scall[d].at}
        BY <2>1 DEF SubCallStates, Follows
      <4>2. channel[ch].subs \cap Leaving(scall[d]) = {}
        BY <2>1, <3>1, <4>1 DEF CallFits, Follows
      <4>3. channel'[ch].subs \subseteq channel[ch].subs
        BY <1>3, <2>1, <3>1, <4>1 DEF Follows, AboutPairs
      <4> QED BY <4>2, <4>3
    <3> QED BY <2>1, <3>1, <3>2, <3>4, <3>5 DEF CallFits, Follows
  <2> QED BY <2>2, <2>3
<1> QED BY <1>2, <1>3

\* A call about something else than initializing goes on only where nobody is clean.
LEMMA NobodyCleanBeside ==
  ASSUME ManagerInv, NEW c \in Busy, scall[c].op # "initialize", NEW d \in Busy, d # c, scall[d].clean
  PROVE  scall[d].op \notin AboutPairs
BY DEF ManagerInv, CleanIsAlone

LEMMA CallStartSound ==
  ASSUME ManagerInv, NEW c \in SubCalls, NEW record \in SubCallStates, NEW pairs, Starts(c, record, pairs), UNCHANGED manager,
         record.step = "awaiting", record.op # "none", record.at \in Channels, record.seen \subseteq Registered,
         channel' = channel \/ channel' = Asking(record.at),
         record.op = "initialize" => record.seen = {record.at} /\ channel' = Asking(record.at),
         record.op = "subscribe" => /\ record.at \in Registered /\ record.todo \subseteq Registered
                                    /\ record.node \in SubNodes /\ record.cb \in Callbacks,
         record.op = "unsubscribe" => record.seen = {record.at},
         record.op \in {"unregister", "dispose"} => pairs = Pairs,
         record.op \in AboutPairs => \A p \in Pairs : p \in Leaving(record) => p \in pairs
  PROVE  ManagerInv'
<1> DEFINE quiet == \A d \in Busy : scall[d].op \in {"initialize", "register"}
           k == [record EXCEPT !.clean = quiet]
<1>a. /\ scall \in [SubCalls -> SubCallStates] /\ channel \in [Channels -> [asked : {"no", "asked", "left"}, subs : SUBSET Pairs]]
      /\ told \in [Pairs -> {"nothing", "subscribed", "unsubscribed"}]
  BY DEF ManagerInv, ManagerTyped
<1>1. /\ scall[c].step = "idle"
      /\ scall' = [d \in SubCalls |-> IF d = c THEN k ELSE IF d \in Busy /\ record.op # "initialize" THEN [scall[d] EXCEPT !.clean = FALSE] ELSE scall[d]]
      /\ told' = [p \in Pairs |-> IF p \in pairs THEN "nothing" ELSE told[p]]
  BY DEF Starts, MayStart
<1>2. quiet => \A d \in Busy : scall[d].op = "initialize"
  <2>1. \A d \in Busy : scall[d].op \in SubOps
    BY <1>a DEF Busy, SubCallStates
  <2> QED BY <2>1 DEF SubOps
<1>3. /\ k \in SubCallStates /\ k.op = record.op /\ k.step = "awaiting" /\ k.node = record.node /\ k.cb = record.cb /\ k.at = record.at
      /\ k.todo = record.todo /\ k.seen = record.seen /\ k.missed = record.missed /\ (k.clean => quiet)
  <2>1. quiet \in BOOLEAN
    OBVIOUS
  <2> HIDE DEF quiet
  <2> QED BY <2>1 DEF SubCallStates
<1> HIDE DEF quiet, k
<1>4. scall'[c] = k /\ \A d \in SubCalls : d # c =>
        scall'[d] = IF d \in Busy /\ record.op # "initialize" THEN [scall[d] EXCEPT !.clean = FALSE] ELSE scall[d]
  BY <1>1
<1>5. ASSUME NEW d \in SubCalls, d # c
      PROVE  /\ Follows(d) /\ scall'[d] \in SubCallStates /\ scall'[d].seen = scall[d].seen
             /\ d \in Busy /\ record.op # "initialize" => ~scall'[d].clean
  <2>1. CASE d \in Busy /\ record.op # "initialize"
    <3>1. scall'[d] = [scall[d] EXCEPT !.clean = FALSE] /\ scall[d] \in SubCallStates
      BY <1>a, <1>4, <1>5, <2>1
    <3> QED BY <3>1 DEF Follows, SubCallStates
  <2>2. CASE ~(d \in Busy /\ record.op # "initialize")
    <3>1. scall'[d] = scall[d] /\ scall[d] \in SubCallStates
      BY <1>a, <1>4, <1>5, <2>2
    <3> QED BY <2>2, <3>1 DEF Follows
  <2> QED BY <2>1, <2>2
<1>6. scall' \in [SubCalls -> SubCallStates]
  <2>1. \A d \in SubCalls : scall'[d] \in SubCallStates
    BY <1>3, <1>4, <1>5
  <2> QED BY <1>1, <2>1
<1>7. /\ channel' \in [Channels -> [asked : {"no", "asked", "left"}, subs : SUBSET Pairs]]
      /\ \A ch \in Channels : channel'[ch].subs = channel[ch].subs /\ (channel[ch].asked # "no" => channel'[ch].asked # "no")
      /\ record.op = "initialize" => channel'[record.at].asked # "no"
  BY <1>a DEF Asking
<1>8. Busy' = Busy \cup {c} /\ c \notin Busy
  BY <1>1, <1>3, <1>4, <1>5 DEF Busy, Follows
<1>9. Disposing => Disposing'
  BY <1>5, <1>8 DEF Disposing, Busy, Follows
<1>10. Registered' = Registered
  BY DEF Registered
<1>11. CallFits(scall[c])'
  <2>1. Leaving(k) = Leaving(record)
    BY <1>3 DEF Leaving
  <2> QED BY <1>3, <1>4, <1>7, <1>10 DEF CallFits
<1>12. CleanIsAlone' /\ \A d \in SubCalls : CallFits(scall[d])'
  <2>1. \A d \in SubCalls : d # c => Follows(d) /\ scall'[d].seen \subseteq Registered'
    BY <1>5, <1>10 DEF ManagerInv, CallFits
  <2>2. \A ch \in Channels : channel[ch].asked # "no" /\ channel'[ch].asked = "no" =>
           Disposing' \/ \A d \in SubCalls : d # c => ch \notin scall'[d].seen
    BY <1>7
  <2>3. \A d \in SubCalls : d # c /\ d \in Busy /\ scall'[d].clean /\ scall[d].op \in AboutPairs =>
           /\ Registered \subseteq Registered' /\ \A ch \in Channels : channel'[ch].subs \subseteq channel[ch].subs
           /\ c \in Busy' => scall'[c].op = "initialize"
    BY <1>3, <1>4, <1>5, <1>7, <1>10
  <2>4. c \in Busy' /\ scall'[c].clean /\ scall'[c].op \in AboutPairs => \A d \in SubCalls : d # c /\ d \in Busy => scall[d].op = "initialize"
    BY <1>2, <1>3, <1>4
  <2> QED BY <1>6, <1>9, <1>11, <2>1, <2>2, <2>3, <2>4, OthersFollow
<1>13. ASSUME NEW p \in Pairs PROVE ToldIsSo(p)'
  <2>1. ToldIsSo(p)
    BY DEF ManagerInv
  <2>2. CASE told'[p] = "nothing"
    BY <2>2 DEF ToldIsSo
  <2>3. CASE told'[p] # "nothing"
    <3>1. p \notin pairs /\ told'[p] = told[p]
      BY <1>1, <2>3
    <3>2. \A d \in Busy : scall'[d].op = scall[d].op /\ Leaving(scall'[d]) = Leaving(scall[d])
      BY <1>5, <1>8 DEF Follows, Leaving, Busy
    <3>3. scall'[c].op = "initialize" \/ (scall'[c].op \in AboutPairs /\ p \notin Leaving(scall'[c]))
      <4>1. Leaving(k) = Leaving(record)
        BY <1>3 DEF Leaving
      <4>2. record.op \in SubOps
        BY DEF SubCallStates
      <4> QED BY <1>3, <1>4, <3>1, <4>1, <4>2 DEF SubOps, AboutPairs
    <3>4. \A d \in Busy' : scall'[d].op = "initialize" \/ (scall'[d].op \in AboutPairs /\ p \notin Leaving(scall'[d]))
      BY <1>8, <2>1, <2>3, <3>1, <3>2, <3>3 DEF ToldIsSo
    <3>5. Registered \subseteq Channels
      BY DEF Registered, ManagerInv, ManagerTyped, Range
    <3> QED BY <1>7, <1>10, <2>1, <2>3, <3>1, <3>4, <3>5 DEF ToldIsSo
  <2> QED BY <2>2, <2>3
<1>14. AskedIfInitialized'
  <2>1. Registered \subseteq Channels
    BY DEF Registered, ManagerInv, ManagerTyped, Range
  <2> QED BY <1>7, <1>9, <1>10, <2>1 DEF ManagerInv, AskedIfInitialized
<1>15. told' \in [Pairs -> {"nothing", "subscribed", "unsubscribed"}]
  BY <1>1, <1>a
<1> QED BY <1>6, <1>7, <1>12, <1>13, <1>14, <1>15 DEF ManagerInv, ManagerTyped

\* A call that is over at once.
LEMMA InstantSound ==
  ASSUME ManagerInv, NEW c \in SubCalls, Instant(c), UNCHANGED channel,
         manager'.channels = manager.channels,
         manager' \in [channels : Seq(Channels), order : Seq(Channels), initialized : BOOLEAN, own : [SubNodes -> Seq(Channels)]],
         manager'.initialized => manager.initialized \/ manager.channels = <<>>
  PROVE  ManagerInv'
<1>a. scall \in [SubCalls -> SubCallStates]
  BY DEF ManagerInv, ManagerTyped
<1> DEFINE e == [NoSubCall EXCEPT !.step = "done"]
<1>1. scall[c].step = "idle" /\ scall' = [scall EXCEPT ![c] = e] /\ UNCHANGED told
  BY DEF Instant, MayStart, Ended
<1>2. e \in SubCallStates /\ e.step # "awaiting" /\ e.seen = {}
  BY EndedCall
<1> HIDE DEF e
<1>3. scall' \in [SubCalls -> SubCallStates] /\ scall'[c] = e /\ \A d \in SubCalls : d # c => scall'[d] = scall[d]
  BY <1>a, <1>1, <1>2
<1>4. Busy' = Busy /\ \A d \in Busy : scall'[d] = scall[d]
  BY <1>1, <1>2, <1>3 DEF Busy
<1>5. Disposing' = Disposing /\ Registered' = Registered
  BY <1>4 DEF Disposing, Registered
<1>6. CleanIsAlone'
  BY <1>4 DEF ManagerInv, CleanIsAlone
<1>7. ASSUME NEW d \in SubCalls PROVE CallFits(scall[d])'
  <2>1. CASE d = c
    BY <1>2, <1>3, <2>1 DEF CallFits
  <2>2. CASE d # c
    <3>1. CallFits(scall[d]) /\ scall'[d] = scall[d]
      BY <1>3, <2>2 DEF ManagerInv
    <3> QED BY <1>5, <3>1 DEF CallFits, Leaving
  <2> QED BY <2>1, <2>2
<1>8. ASSUME NEW p \in Pairs PROVE ToldIsSo(p)'
  <2>1. ToldIsSo(p)
    BY DEF ManagerInv
  <2> QED BY <1>1, <1>4, <1>5, <2>1 DEF ToldIsSo, Leaving
<1>9. AskedIfInitialized'
  <2>1. manager.channels = <<>> => Registered = {}
    BY DEF Registered, Range
  <2> QED BY <1>5, <2>1 DEF ManagerInv, AskedIfInitialized
<1> QED BY <1>1, <1>3, <1>6, <1>7, <1>8, <1>9 DEF ManagerInv, ManagerTyped

LEMMA NextIsRegistered ==
  ASSUME ManagerInv, NEW seen
  PROVE  /\ (\E ch \in Registered : ch \notin seen) => NextChannel(seen) \in Registered \ seen
         /\ ~(\E ch \in Registered : ch \notin seen) => NextChannel(seen) = Nobody
         /\ Registered \subseteq Channels
<1>1. manager.channels \in Seq(Channels)
  BY DEF ManagerInv, ManagerTyped
<1>2. Registered \subseteq Channels
  BY <1>1 DEF Registered, Range
<1> QED BY <1>1, <1>2, FirstFound DEF NextChannel, Registered

LEMMA FirstOfAll ==
  ASSUME ManagerInv, manager.channels # <<>>
  PROVE  NextChannel({}) \in Registered
<1>1. manager.channels \in Seq(Channels)
  BY DEF ManagerInv, ManagerTyped
<1>2. manager.channels[1] \in Registered
  <2>1. 1 \in DOMAIN manager.channels
    BY <1>1
  <2> QED BY <2>1 DEF Registered, Range
<1> QED BY <1>2, NextIsRegistered

LEMMA ManagerStartsAllSound ==
  ASSUME ManagerInv, NEW c \in SubCalls, ManagerStarts(c)
  PROVE  ManagerInv'
<1>a. /\ manager \in [channels : Seq(Channels), order : Seq(Channels), initialized : BOOLEAN, own : [SubNodes -> Seq(Channels)]]
      /\ IsInjective(manager.channels)
      /\ channel \in [Channels -> [asked : {"no", "asked", "left"}, subs : SUBSET Pairs]]
      /\ told \in [Pairs -> {"nothing", "subscribed", "unsubscribed"}]
      /\ scall \in [SubCalls -> SubCallStates] /\ <<>> \in Seq(Channels) /\ Registered \subseteq Channels
  <2>1. <<>> \in Seq(Channels)
    OBVIOUS
  <2>2. Registered \subseteq Channels
    BY NextIsRegistered
  <2> QED BY <2>1, <2>2 DEF ManagerInv, ManagerTyped
<1>1. CASE Initialize(c)
  <2>1. CASE Instant(c) /\ manager' = [manager EXCEPT !.initialized = TRUE] /\ UNCHANGED channel /\ (manager.initialized \/ manager.channels = <<>>)
    <3>1. /\ manager' \in [channels : Seq(Channels), order : Seq(Channels), initialized : BOOLEAN, own : [SubNodes -> Seq(Channels)]]
          /\ manager'.channels = manager.channels
      BY <1>a, <2>1
    <3> QED BY <2>1, <3>1, InstantSound
  <2>2. CASE ~(manager.initialized \/ manager.channels = <<>>)
    <3> DEFINE first == NextChannel({})
               r == [NoSubCall EXCEPT !.op = "initialize", !.step = "awaiting", !.at = first, !.seen = {first}]
    <3>1. first \in Registered /\ first \in Channels
      BY <1>a, <2>2, FirstOfAll
    <3>2. Starts(c, r, {}) /\ channel' = Asking(first) /\ UNCHANGED manager
      BY <1>1, <2>2 DEF Initialize
    <3> HIDE DEF first
    <3>3. r \in SubCallStates /\ r.op = "initialize" /\ r.step = "awaiting" /\ r.at = first /\ r.seen = {first}
      BY <1>a, <3>1 DEF NoSubCall, SubCallStates, SubOps
    <3> HIDE DEF r
    <3> QED BY <3>1, <3>2, <3>3, CallStartSound DEF AboutPairs
  <2> QED BY <1>1, <2>1, <2>2 DEF Initialize
<1>2. CASE Dispose(c)
  <2> DEFINE first == NextChannel({})
             r == [NoSubCall EXCEPT !.op = "dispose", !.step = "awaiting", !.at = first, !.seen = {first}]
  <2>1. first \in Registered /\ first \in Channels
    BY <1>a, <1>2, FirstOfAll DEF Dispose
  <2>2. Starts(c, r, Pairs) /\ UNCHANGED <<manager, channel>>
    BY <1>2 DEF Dispose
  <2> HIDE DEF first
  <2>3. r \in SubCallStates /\ r.op = "dispose" /\ r.step = "awaiting" /\ r.at = first /\ r.seen = {first}
    BY <1>a, <2>1 DEF NoSubCall, SubCallStates, SubOps
  <2> HIDE DEF r
  <2> QED BY <2>1, <2>2, <2>3, CallStartSound DEF AboutPairs
<1>3. ASSUME NEW ch \in Channels, UnregisterChannel(c, ch) PROVE ManagerInv'
  <2> DEFINE r == [NoSubCall EXCEPT !.op = "unregister", !.step = "awaiting", !.at = ch]
  <2>2. Starts(c, r, Pairs) /\ UNCHANGED <<manager, channel>>
    BY <1>3 DEF UnregisterChannel
  <2>3. r \in SubCallStates /\ r.op = "unregister" /\ r.step = "awaiting" /\ r.at = ch /\ r.seen = {}
    BY <1>a DEF NoSubCall, SubCallStates, SubOps
  <2> HIDE DEF r
  <2> QED BY <2>2, <2>3, CallStartSound DEF AboutPairs
<1>4. ASSUME NEW n \in SubNodes, NEW cb \in Callbacks, SubscribeToNode(c, n, cb) PROVE ManagerInv'
  <2> DEFINE available == AvailableChannels(n)
             first == FirstOf(EffectiveOrder(n), available)
             r == [NoSubCall EXCEPT !.op = "subscribe", !.step = "awaiting", !.node = n, !.cb = cb, !.at = first,
                                    !.order = EffectiveOrder(n), !.todo = available \ {first}]
  <2>1. CASE first = Nobody
    BY <1>4, <1>a, <2>1, InstantSound DEF SubscribeToNode
  <2>2. CASE first # Nobody
    <3>1. EffectiveOrder(n) \in Seq(Channels)
      BY <1>a DEF EffectiveOrder
    <3>2. available \subseteq Registered
      BY DEF AvailableChannels, IsRegistered, Registered
    <3>3. first \in Registered /\ first \in Channels
      BY <1>a, <2>2, <3>1, <3>2, FirstFound
    <3>4. Starts(c, r, {<<n, cb>>}) /\ UNCHANGED <<manager, channel>>
      BY <1>4, <2>2 DEF SubscribeToNode
    <3> HIDE DEF available, first
    <3>5. /\ r \in SubCallStates /\ r.op = "subscribe" /\ r.step = "awaiting" /\ r.at = first /\ r.seen = {} /\ r.node = n /\ r.cb = cb
          /\ r.todo \subseteq Registered
      BY <1>a, <3>1, <3>2, <3>3 DEF NoSubCall, SubCallStates, SubOps
    <3> HIDE DEF r
    <3>6. \A p \in Pairs : p \in Leaving(r) => p = <<n, cb>>
      <4>1. cb # Nobody
        BY ManagerAssumption
      <4>2. \A p \in Pairs : p = <<p[1], p[2]>>
        BY DEF Pairs
      <4> QED BY <3>5, <4>1, <4>2 DEF Leaving
    <3> QED BY <3>3, <3>4, <3>5, <3>6, CallStartSound DEF AboutPairs
  <2> QED BY <2>1, <2>2
<1>5. ASSUME NEW n \in SubNodes, NEW cb \in Callbacks \cup {Nobody}, UnsubscribeFromNode(c, n, cb) PROVE ManagerInv'
  <2>1. CASE manager.channels = <<>>
    BY <1>5, <1>a, <2>1, InstantSound DEF UnsubscribeFromNode
  <2>2. CASE manager.channels # <<>>
    <3> DEFINE first == NextChannel({})
               pairs == {p \in Pairs : p[1] = n /\ cb \in {p[2], Nobody}}
               r == [NoSubCall EXCEPT !.op = "unsubscribe", !.step = "awaiting", !.node = n, !.cb = cb, !.at = first, !.seen = {first}]
    <3>1. first \in Registered /\ first \in Channels
      BY <1>a, <2>2, FirstOfAll
    <3>2. Starts(c, r, pairs) /\ UNCHANGED <<manager, channel>>
      BY <1>5, <2>2 DEF UnsubscribeFromNode
    <3> HIDE DEF first
    <3>3. r \in SubCallStates /\ r.op = "unsubscribe" /\ r.step = "awaiting" /\ r.at = first /\ r.seen = {first} /\ r.node = n /\ r.cb = cb
      BY <1>a, <3>1 DEF NoSubCall, SubCallStates, SubOps
    <3> HIDE DEF r
    <3>4. \A p \in Pairs : p \in Leaving(r) => p \in pairs
      BY <3>3 DEF Leaving
    <3> HIDE DEF pairs
    <3> QED BY <3>1, <3>2, <3>3, <3>4, CallStartSound DEF AboutPairs
  <2> QED BY <2>1, <2>2
<1>6. ASSUME NEW order \in Orders, SetGlobalChannelOrder(c, order) PROVE ManagerInv'
  <2>1. manager' = [manager EXCEPT !.order = order] /\ order \in Seq(Channels) /\ Instant(c) /\ UNCHANGED channel
    BY <1>6, OrdersAre DEF SetGlobalChannelOrder
  <2>2. /\ manager' \in [channels : Seq(Channels), order : Seq(Channels), initialized : BOOLEAN, own : [SubNodes -> Seq(Channels)]]
        /\ manager'.channels = manager.channels /\ manager'.initialized = manager.initialized
    BY <1>a, <2>1
  <2> QED BY <2>1, <2>2, InstantSound
<1>7. ASSUME NEW order \in Orders, NEW n \in SubNodes, SetNodeChannelOrder(c, n, order) PROVE ManagerInv'
  <2>1. manager' = [manager EXCEPT !.own = [manager.own EXCEPT ![n] = order]] /\ order \in Seq(Channels) /\ Instant(c) /\ UNCHANGED channel
    BY <1>7, OrdersAre DEF SetNodeChannelOrder
  <2>2. [manager.own EXCEPT ![n] = order] \in [SubNodes -> Seq(Channels)]
    BY <1>a, <2>1
  <2>3. /\ manager' \in [channels : Seq(Channels), order : Seq(Channels), initialized : BOOLEAN, own : [SubNodes -> Seq(Channels)]]
        /\ manager'.channels = manager.channels /\ manager'.initialized = manager.initialized
    BY <1>a, <2>1, <2>2
  <2> QED BY <2>1, <2>3, InstantSound
<1>8. ASSUME NEW ch \in Channels, NEW auto \in BOOLEAN, RegisterChannel(c, ch, auto) PROVE ManagerInv'
  <2> DEFINE e == [NoSubCall EXCEPT !.step = "done"]
             asked == IF auto THEN IF manager.initialized THEN "asked" ELSE "no" ELSE "left"
  <2>1. /\ ch \notin Registered /\ scall[c].step = "idle" /\ scall' = [scall EXCEPT ![c] = e]
        /\ told' = [p \in Pairs |-> IF p \in channel[ch].subs THEN "nothing" ELSE told[p]]
        /\ manager' = [manager EXCEPT !.channels = Append(@, ch)] /\ channel' = [channel EXCEPT ![ch].asked = asked]
    BY <1>8 DEF RegisterChannel, MayStart, Ended, IsRegistered, Registered
  <2>2. e \in SubCallStates /\ e.step # "awaiting" /\ e.seen = {}
    BY EndedCall
  <2>3. asked \in {"no", "asked", "left"} /\ (manager.initialized => asked # "no")
    OBVIOUS
  <2> HIDE DEF e, asked
  <2>4. scall' \in [SubCalls -> SubCallStates] /\ scall'[c] = e /\ \A d \in SubCalls : d # c => scall'[d] = scall[d]
    BY <1>a, <2>1, <2>2
  <2>5. Busy' = Busy /\ \A d \in Busy : scall'[d] = scall[d]
    BY <2>1, <2>2, <2>4 DEF Busy
  <2>6. /\ manager' \in [channels : Seq(Channels), order : Seq(Channels), initialized : BOOLEAN, own : [SubNodes -> Seq(Channels)]]
        /\ IsInjective(manager'.channels) /\ Registered' = Registered \cup {ch} /\ manager'.initialized = manager.initialized
    BY <1>a, <2>1, OrderWith DEF Registered
  <2>7. /\ channel' \in [Channels -> [asked : {"no", "asked", "left"}, subs : SUBSET Pairs]]
        /\ \A x \in Channels : channel'[x].subs = channel[x].subs /\ (x # ch => channel'[x].asked = channel[x].asked)
        /\ channel'[ch].asked = asked
    BY <1>a, <2>1, <2>3
  <2>8. Disposing' = Disposing
    BY <2>5 DEF Disposing
  <2>9. CleanIsAlone'
    BY <2>5 DEF ManagerInv, CleanIsAlone
  <2>10. ASSUME NEW d \in SubCalls PROVE CallFits(scall[d])'
    <3>1. CASE d = c
      BY <2>2, <2>4, <3>1 DEF CallFits
    <3>2. CASE d # c
      <4>1. CallFits(scall[d]) /\ scall'[d] = scall[d] /\ scall[d] \in SubCallStates
        BY <1>a, <2>4, <3>2 DEF ManagerInv
      <4>2. scall[d].seen \subseteq Channels /\ ch \notin scall[d].seen
        BY <2>1, <4>1 DEF CallFits, SubCallStates
      <4> QED BY <2>6, <2>7, <2>8, <4>1, <4>2 DEF CallFits, Leaving
    <3> QED BY <3>1, <3>2
  <2>11. ASSUME NEW p \in Pairs PROVE ToldIsSo(p)'
    <3>1. ToldIsSo(p)
      BY DEF ManagerInv
    <3>2. told'[p] # "nothing" => told'[p] = told[p] /\ p \notin channel[ch].subs
      BY <2>1
    <3> QED BY <1>a, <2>5, <2>6, <2>7, <3>1, <3>2 DEF ToldIsSo, Leaving
  <2>12. AskedIfInitialized'
    BY <1>a, <2>3, <2>6, <2>7, <2>8 DEF ManagerInv, AskedIfInitialized
  <2>13. told' \in [Pairs -> {"nothing", "subscribed", "unsubscribed"}]
    BY <1>a, <2>1
  <2> QED BY <2>4, <2>6, <2>7, <2>9, <2>10, <2>11, <2>12, <2>13 DEF ManagerInv, ManagerTyped
<1> QED BY <1>1, <1>2, <1>3, <1>4, <1>5, <1>6, <1>7, <1>8 DEF ManagerStarts

\* What stays of the other calls when a call goes on, or ends.
LEMMA OnlyOneMoves ==
  ASSUME ManagerInv, NEW c \in Busy, NEW e \in SubCallStates, scall' = [scall EXCEPT ![c] = e]
  PROVE  /\ c \in SubCalls /\ scall' \in [SubCalls -> SubCallStates] /\ scall'[c] = e /\ \A d \in SubCalls : d # c => scall'[d] = scall[d] /\ Follows(d)
         /\ \A d \in Busy' : d # c => d \in Busy /\ scall'[d] = scall[d]
         /\ (c \in Busy' <=> e.step = "awaiting")
         /\ scall[c].op # "dispose" => (Disposing' <=> Disposing \/ (e.step = "awaiting" /\ e.op = "dispose"))
         /\ scall[c].op = e.op => (e.step = "awaiting" => (Disposing' <=> Disposing))
<1>1. scall \in [SubCalls -> SubCallStates] /\ c \in SubCalls /\ scall[c].step = "awaiting"
  BY DEF ManagerInv, ManagerTyped, Busy
<1>2. scall' \in [SubCalls -> SubCallStates] /\ scall'[c] = e /\ \A d \in SubCalls : d # c => scall'[d] = scall[d]
  BY <1>1
<1>3. \A d \in SubCalls : d # c => Follows(d)
  BY <1>2 DEF Follows
<1>4. \A d \in SubCalls : d # c => (d \in Busy' <=> d \in Busy)
  BY <1>2 DEF Busy
<1>5. c \in Busy' <=> e.step = "awaiting"
  BY <1>1, <1>2 DEF Busy
<1>6. \A d \in Busy' : d # c => d \in Busy /\ scall'[d] = scall[d]
  BY <1>2, <1>4 DEF Busy
<1>7. \A d \in Busy : d # c => d \in Busy' /\ scall'[d] = scall[d]
  BY <1>2, <1>4 DEF Busy
<1>8. scall[c].op # "dispose" => (Disposing' <=> Disposing \/ (e.step = "awaiting" /\ e.op = "dispose"))
  BY <1>2, <1>5, <1>6, <1>7 DEF Disposing
<1>9. scall[c].op = e.op => (e.step = "awaiting" => (Disposing' <=> Disposing))
  BY <1>2, <1>5, <1>6, <1>7 DEF Disposing
<1> QED BY <1>1, <1>2, <1>3, <1>5, <1>6, <1>8, <1>9

\* Who is told something had nobody at work on the same pair.
LEMMA ToldIsLeft ==
  ASSUME ManagerInv, NEW c \in Busy, NEW p \in Pairs, told[p] # "nothing"
  PROVE  scall[c].op = "initialize" \/ (scall[c].op \in AboutPairs /\ p \notin Leaving(scall[c]))
BY DEF ManagerInv, ToldIsSo

LEMMA ChannelSubscribesSound ==
  ASSUME ManagerInv, NEW c \in SubCalls, ChannelSubscribes(c)
  PROVE  ManagerInv'
<1> DEFINE k == scall[c]
           next == FirstOf(k.order, k.todo)
           pair == <<k.node, k.cb>>
<1>1. /\ c \in Busy /\ k.step = "awaiting" /\ k.op = "subscribe" /\ UNCHANGED manager /\ Registered' = Registered
  BY DEF ChannelSubscribes, Busy, Registered
<1>2. /\ channel \in [Channels -> [asked : {"no", "asked", "left"}, subs : SUBSET Pairs]]
      /\ told \in [Pairs -> {"nothing", "subscribed", "unsubscribed"}] /\ k \in SubCallStates /\ CallFits(k) /\ Registered \subseteq Channels
  BY NextIsRegistered DEF ManagerInv, ManagerTyped
<1>3. k.at \in Channels /\ k.node \in SubNodes /\ k.cb \in Callbacks /\ pair \in Pairs /\ pair \in Leaving(k)
  <2>1. k.at \in Channels /\ k.node \in SubNodes /\ k.cb \in Callbacks
    BY <1>1, <1>2 DEF CallFits
  <2> QED BY <2>1 DEF Pairs, Leaving
<1>4. \A d \in SubCalls : d # c /\ d \in Busy => ~(scall[d].clean /\ scall[d].op \in AboutPairs)
  BY <1>1, NobodyCleanBeside
<1>5. CASE /\ channel' = [channel EXCEPT ![k.at].subs = @ \cup {pair}, ![k.at].asked = IF @ = "no" THEN "asked" ELSE @]
           /\ scall' = Ended(c, "done") /\ Tells(c, {pair}, "subscribed")
  <2> DEFINE e == [NoSubCall EXCEPT !.step = "done"]
  <2>1. e \in SubCallStates /\ e.step = "done" /\ e.seen = {} /\ scall' = [scall EXCEPT ![c] = e]
    BY <1>5, EndedCall DEF Ended
  <2> HIDE DEF e
  <2>2. /\ scall' \in [SubCalls -> SubCallStates] /\ scall'[c] = e /\ \A d \in SubCalls : d # c => scall'[d] = scall[d] /\ Follows(d)
        /\ \A d \in Busy' : d # c => d \in Busy /\ scall'[d] = scall[d]
        /\ c \notin Busy' /\ (Disposing' <=> Disposing)
    BY <1>1, <2>1, OnlyOneMoves
  <2>3. /\ channel' \in [Channels -> [asked : {"no", "asked", "left"}, subs : SUBSET Pairs]]
        /\ \A ch \in Channels : (channel[ch].asked # "no" => channel'[ch].asked # "no")
        /\ \A ch \in Channels : channel[ch].subs \subseteq channel'[ch].subs /\ channel'[ch].subs \subseteq channel[ch].subs \cup {pair}
        /\ pair \in channel'[k.at].subs
    BY <1>2, <1>3, <1>5
  <2>4. \A p \in Pairs : told'[p] = IF k.clean /\ p = pair THEN "subscribed" ELSE told[p]
    BY <1>5 DEF Tells
  <2>5. told' \in [Pairs -> {"nothing", "subscribed", "unsubscribed"}]
    BY <1>2, <1>5 DEF Tells
  <2> HIDE DEF pair, k
  <2>6. CleanIsAlone' /\ \A d \in SubCalls : CallFits(scall[d])'
    <3>1. \A d \in SubCalls : d # c => Follows(d) /\ scall'[d].seen \subseteq Registered'
      BY <1>1, <2>2 DEF ManagerInv, CallFits
    <3>2. CallFits(scall[c])'
      BY <2>1, <2>2 DEF CallFits
    <3>3. \A d \in SubCalls : d # c /\ d \in Busy /\ scall'[d].clean /\ scall[d].op \in AboutPairs => FALSE
      BY <1>4, <2>2
    <3> QED BY <2>2, <2>3, <3>1, <3>2, <3>3, OthersFollow
  <2>7. ASSUME NEW p \in Pairs PROVE ToldIsSo(p)'
    <3>1. CASE k.clean /\ p = pair
      <4>1. k.at \in Registered
        BY <1>1, <1>2, <3>1 DEF CallFits
      <4>2. \A d \in Busy' : scall'[d].op = "initialize"
        BY <1>1, <2>2, <3>1 DEF k, ManagerInv, CleanIsAlone, AboutPairs
      <4> QED BY <1>1, <2>3, <2>4, <3>1, <4>1, <4>2 DEF ToldIsSo
    <3>2. CASE ~(k.clean /\ p = pair) /\ told[p] # "nothing"
      <4>1. p # pair
        BY <1>1, <1>3, <3>2, ToldIsLeft DEF k
      <4>2. told'[p] = told[p] /\ ToldIsSo(p)
        BY <2>4, <3>2 DEF ManagerInv
      <4>3. \A d \in Busy' : d \in Busy /\ scall'[d] = scall[d]
        BY <2>2
      <4>4. \A ch \in Channels : p \in channel'[ch].subs <=> p \in channel[ch].subs
        BY <2>3, <4>1
      <4> QED BY <1>1, <1>2, <4>2, <4>3, <4>4 DEF ToldIsSo, Leaving
    <3>3. CASE ~(k.clean /\ p = pair) /\ told[p] = "nothing"
      BY <2>4, <3>3 DEF ToldIsSo
    <3> QED BY <3>1, <3>2, <3>3
  <2>8. AskedIfInitialized'
    BY <1>1, <1>2, <2>2, <2>3 DEF ManagerInv, AskedIfInitialized
  <2> QED BY <1>1, <2>2, <2>3, <2>5, <2>6, <2>7, <2>8 DEF ManagerInv, ManagerTyped
<1>6. CASE /\ scall' = IF next = Nobody THEN Ended(c, "failed") ELSE [scall EXCEPT ![c].at = next, ![c].todo = @ \ {next}]
           /\ UNCHANGED <<channel, told>>
  <2>1. PICK e \in SubCallStates :
          /\ scall' = [scall EXCEPT ![c] = e]
          /\ e.step = "failed" \/ (e.step = "awaiting" /\ e.op = "subscribe" /\ e.node = k.node /\ e.cb = k.cb /\ e.clean = k.clean
                                   /\ e.at \in k.todo /\ e.todo \subseteq k.todo)
          /\ e.seen \subseteq k.seen
    <3>1. CASE next = Nobody
      <4> DEFINE e == [NoSubCall EXCEPT !.step = "failed"]
      <4>1. e \in SubCallStates /\ e.step = "failed" /\ e.seen = {} /\ scall' = [scall EXCEPT ![c] = e]
        BY <1>6, <3>1, EndedCall DEF Ended
      <4> HIDE DEF e
      <4> QED BY <4>1
    <3>2. CASE next # Nobody
      <4>1. k.order \in Seq(Channels)
        BY <1>2 DEF SubCallStates
      <4>2. next \in k.todo
        BY <3>2, <4>1, FirstFound
      <4> DEFINE e == [k EXCEPT !.at = next, !.todo = @ \ {next}]
      <4> HIDE DEF next
      <4>3. scall' = [scall EXCEPT ![c] = e]
        <5>1. scall \in [SubCalls -> SubCallStates]
          BY DEF ManagerInv, ManagerTyped
        <5>2. scall' = [scall EXCEPT ![c].at = next, ![c].todo = @ \ {next}]
          BY <1>6, <3>2
        <5> QED BY <5>1, <5>2
      <4>4. /\ e \in SubCallStates /\ e.step = "awaiting" /\ e.op = "subscribe" /\ e.node = k.node /\ e.cb = k.cb /\ e.clean = k.clean
            /\ e.at \in k.todo /\ e.todo \subseteq k.todo /\ e.seen = k.seen
        BY <1>1, <1>2, <4>2 DEF SubCallStates
      <4> HIDE DEF e
      <4> QED BY <4>3, <4>4
    <3> QED BY <3>1, <3>2
  <2>2. /\ scall' \in [SubCalls -> SubCallStates] /\ scall'[c] = e /\ \A d \in SubCalls : d # c => scall'[d] = scall[d] /\ Follows(d)
        /\ \A d \in Busy' : d # c => d \in Busy /\ scall'[d] = scall[d]
        /\ (c \in Busy' <=> e.step = "awaiting") /\ (Disposing' <=> Disposing)
    BY <1>1, <2>1, OnlyOneMoves
  <2>3. UNCHANGED <<channel, told>>
    BY <1>6
  <2> HIDE DEF next
  <2>6. CleanIsAlone' /\ \A d \in SubCalls : CallFits(scall[d])'
    <3>1. \A d \in SubCalls : d # c => Follows(d) /\ scall'[d].seen \subseteq Registered'
      BY <1>1, <2>2 DEF ManagerInv, CallFits
    <3>2. CallFits(scall[c])'
      <4>1. k.todo \subseteq Channels /\ k.seen \subseteq Registered
        BY <1>2 DEF SubCallStates, CallFits
      <4> QED BY <1>1, <1>2, <1>3, <2>1, <2>2, <4>1 DEF CallFits
    <3>3. \A d \in SubCalls : d # c /\ d \in Busy /\ scall'[d].clean /\ scall[d].op \in AboutPairs => FALSE
      BY <1>4, <2>2
    <3>4. c \in Busy' /\ scall'[c].clean /\ scall'[c].op \in AboutPairs => \A d \in SubCalls : d # c /\ d \in Busy => scall[d].op = "initialize"
      BY <1>1, <2>1, <2>2 DEF ManagerInv, CleanIsAlone, AboutPairs
    <3> QED BY <2>2, <2>3, <3>1, <3>2, <3>3, <3>4, OthersFollow
  <2>7. ASSUME NEW p \in Pairs PROVE ToldIsSo(p)'
    <3>1. ToldIsSo(p)
      BY DEF ManagerInv
    <3>2. \A d \in Busy' : d \in Busy /\ scall'[d].op = scall[d].op /\ Leaving(scall'[d]) = Leaving(scall[d])
      BY <1>1, <2>1, <2>2 DEF Leaving
    <3> QED BY <1>1, <2>3, <3>1, <3>2 DEF ToldIsSo
  <2>8. AskedIfInitialized'
    BY <1>1, <2>2, <2>3 DEF ManagerInv, AskedIfInitialized
  <2> QED BY <1>1, <2>2, <2>3, <2>6, <2>7, <2>8 DEF ManagerInv, ManagerTyped
<1> QED BY <1>5, <1>6 DEF ChannelSubscribes

\* A call that ends by giving channels up: the other calls may have to go to them again.
LEMMA ForgottenCalls ==
  ASSUME ManagerInv, NEW c \in SubCalls, NEW gone, scall' = Forgotten(c, gone)
  PROVE  /\ scall' \in [SubCalls -> SubCallStates] /\ scall'[c].step = "done" /\ scall'[c].seen = {}
         /\ \A d \in SubCalls : d # c => Follows(d) /\ scall'[d].seen = scall[d].seen \ gone
<1> DEFINE e == [NoSubCall EXCEPT !.step = "done"]
<1>1. e \in SubCallStates /\ e.step = "done" /\ e.seen = {}
  BY EndedCall
<1>2. scall' = [d \in SubCalls |-> IF d = c THEN e ELSE [scall[d] EXCEPT !.seen = @ \ gone]]
  BY DEF Forgotten
<1> HIDE DEF e
<1>3. scall \in [SubCalls -> SubCallStates]
  BY DEF ManagerInv, ManagerTyped
<1>4. ASSUME NEW d \in SubCalls, d # c PROVE scall'[d] \in SubCallStates /\ Follows(d) /\ scall'[d].seen = scall[d].seen \ gone
  <2>1. scall[d] \in SubCallStates /\ scall'[d] = [scall[d] EXCEPT !.seen = @ \ gone]
    BY <1>2, <1>3, <1>4
  <2> QED BY <2>1 DEF SubCallStates, Follows
<1>5. scall'[c] = e
  BY <1>2
<1>6. \A d \in SubCalls : scall'[d] \in SubCallStates
  BY <1>1, <1>4, <1>5
<1>7. scall' \in [SubCalls -> SubCallStates]
  BY <1>2, <1>6
<1> QED BY <1>1, <1>4, <1>5, <1>7

LEMMA NextOfRoundSound ==
  ASSUME ManagerInv, NEW c \in SubCalls, NEW ok \in BOOLEAN, NextOfRound(c, ok)
  PROVE  ManagerInv'
<1> DEFINE k == scall[c]
           next == NextChannel(k.seen)
           e == [k EXCEPT !.at = next, !.seen = @ \cup {next}, !.missed = Missed(k, ok)]
<1>1. /\ c \in Busy /\ k.step = "awaiting" /\ k.op \in {"initialize", "unsubscribe", "dispose"} /\ UNCHANGED <<manager, told>>
      /\ Registered' = Registered /\ next # Nobody
      /\ scall' = [scall EXCEPT ![c].at = next, ![c].seen = @ \cup {next}, ![c].missed = Missed(k, ok)]
  BY DEF NextOfRound, Busy, Registered, GoesOn
<1>2. /\ channel \in [Channels -> [asked : {"no", "asked", "left"}, subs : SUBSET Pairs]]
      /\ k \in SubCallStates /\ CallFits(k) /\ Registered \subseteq Channels /\ scall \in [SubCalls -> SubCallStates]
  BY NextIsRegistered DEF ManagerInv, ManagerTyped
<1>3. next \in Registered /\ next \notin k.seen /\ next \in Channels /\ k.at \in Channels /\ k.seen \subseteq Channels
  BY <1>1, <1>2, NextIsRegistered DEF CallFits
<1>4. scall' = [scall EXCEPT ![c] = e]
  BY <1>1, <1>2
<1>5. CASE k.op = "initialize" /\ channel' = Asking(next)
  <2> HIDE DEF next
  <2>1. Missed(k, ok) \in BOOLEAN
    BY <1>2 DEF Missed, SubCallStates
  <2>2. e \in SubCallStates /\ e.step = "awaiting" /\ e.op = "initialize" /\ e.at = next /\ e.seen = k.seen \cup {next}
    BY <1>1, <1>2, <1>3, <1>5, <2>1 DEF SubCallStates
  <2> HIDE DEF e
  <2>3. /\ scall' \in [SubCalls -> SubCallStates] /\ scall'[c] = e /\ \A d \in SubCalls : d # c => scall'[d] = scall[d] /\ Follows(d)
        /\ \A d \in Busy' : d # c => d \in Busy /\ scall'[d] = scall[d]
        /\ c \in Busy' /\ (Disposing' <=> Disposing)
    BY <1>1, <1>4, <1>5, <2>2, OnlyOneMoves
  <2>4. /\ channel' \in [Channels -> [asked : {"no", "asked", "left"}, subs : SUBSET Pairs]]
        /\ \A ch \in Channels : channel'[ch].subs = channel[ch].subs /\ (channel[ch].asked # "no" => channel'[ch].asked # "no")
        /\ channel'[next].asked # "no"
    BY <1>2, <1>3, <1>5 DEF Asking
  <2>5. CallFits(scall[c])'
    <3>1. ~Disposing' => \A ch \in e.seen : channel'[ch].asked # "no"
      BY <1>1, <1>2, <1>3, <1>5, <2>2, <2>3, <2>4 DEF CallFits
    <3> QED BY <1>1, <1>2, <1>3, <2>2, <2>3, <3>1 DEF CallFits
  <2>6. CleanIsAlone' /\ \A d \in SubCalls : CallFits(scall[d])'
    <3>1. \A d \in SubCalls : d # c => Follows(d) /\ scall'[d].seen \subseteq Registered'
      BY <1>1, <2>3 DEF ManagerInv, CallFits
    <3>2. \A d \in SubCalls : d # c /\ d \in Busy /\ scall'[d].clean /\ scall[d].op \in AboutPairs =>
            /\ Registered \subseteq Registered' /\ \A ch \in Channels : channel'[ch].subs \subseteq channel[ch].subs
            /\ c \in Busy' => scall'[c].op = "initialize"
      BY <1>1, <2>2, <2>3, <2>4
    <3>3. scall'[c].op \notin AboutPairs
      BY <2>2, <2>3 DEF AboutPairs
    <3> QED BY <2>3, <2>4, <2>5, <3>1, <3>2, <3>3, OthersFollow
  <2>7. ASSUME NEW p \in Pairs PROVE ToldIsSo(p)'
    <3>1. ToldIsSo(p)
      BY DEF ManagerInv
    <3>2. told[p] # "nothing" => \A d \in Busy' : scall'[d].op = "initialize" \/ (scall'[d].op \in AboutPairs /\ p \notin Leaving(scall'[d]))
      BY <2>2, <2>3, <3>1 DEF ToldIsSo
    <3> QED BY <1>1, <1>2, <2>4, <3>1, <3>2 DEF ToldIsSo
  <2>8. AskedIfInitialized'
    BY <1>1, <1>2, <2>3, <2>4 DEF ManagerInv, AskedIfInitialized
  <2> QED BY <1>1, <2>3, <2>4, <2>6, <2>7, <2>8 DEF ManagerInv, ManagerTyped
<1>6. CASE k.op = "unsubscribe" /\ channel' = IF ok THEN [channel EXCEPT ![k.at].subs = @ \ Leaving(k)] ELSE channel
  <2> HIDE DEF next
  <2>1. Missed(k, ok) \in BOOLEAN
    BY <1>2 DEF Missed, SubCallStates
  <2>2. /\ e \in SubCallStates /\ e.step = "awaiting" /\ e.op = "unsubscribe" /\ e.at = next /\ e.seen = k.seen \cup {next}
        /\ e.node = k.node /\ e.cb = k.cb /\ e.clean = k.clean /\ e.missed = Missed(k, ok)
    BY <1>1, <1>2, <1>3, <1>6, <2>1 DEF SubCallStates
  <2>a. Leaving(e) = Leaving(k)
    BY <2>2 DEF Leaving
  <2> HIDE DEF e
  <2>3. /\ scall' \in [SubCalls -> SubCallStates] /\ scall'[c] = e /\ \A d \in SubCalls : d # c => scall'[d] = scall[d] /\ Follows(d)
        /\ \A d \in Busy' : d # c => d \in Busy /\ scall'[d] = scall[d]
        /\ c \in Busy' /\ (Disposing' <=> Disposing)
    BY <1>1, <1>4, <1>6, <2>2, OnlyOneMoves
  <2>4. /\ channel' \in [Channels -> [asked : {"no", "asked", "left"}, subs : SUBSET Pairs]]
        /\ \A ch \in Channels : channel'[ch].asked = channel[ch].asked /\ channel'[ch].subs \subseteq channel[ch].subs
        /\ \A ch \in Channels : channel[ch].subs \subseteq channel'[ch].subs \cup Leaving(k)
        /\ ~Missed(k, ok) => channel'[k.at].subs \cap Leaving(k) = {} /\ ~k.missed
    BY <1>2, <1>3, <1>6 DEF Missed
  <2>5. CallFits(scall[c])'
    <3>1. e.clean /\ ~e.missed => \A ch \in e.seen \ {e.at} : channel'[ch].subs \cap Leaving(e) = {}
      <4> SUFFICES ASSUME e.clean, ~e.missed, NEW ch \in e.seen \ {e.at} PROVE channel'[ch].subs \cap Leaving(k) = {}
        BY <2>a
      <4>1. ch \in k.seen /\ ch \in Channels /\ ~Missed(k, ok) /\ k.clean /\ ~k.missed
        BY <1>3, <2>2, <2>4
      <4>2. CASE ch = k.at
        BY <2>4, <4>1, <4>2
      <4>3. CASE ch # k.at
        <5>1. channel[ch].subs \cap Leaving(k) = {}
          BY <1>1, <1>2, <1>6, <4>1, <4>3 DEF CallFits
        <5> QED BY <2>4, <4>1, <5>1
      <4> QED BY <4>2, <4>3
    <3> QED BY <1>1, <1>2, <1>3, <2>2, <2>3, <3>1 DEF CallFits
  <2>6. CleanIsAlone' /\ \A d \in SubCalls : CallFits(scall[d])'
    <3>1. \A d \in SubCalls : d # c => Follows(d) /\ scall'[d].seen \subseteq Registered'
      BY <1>1, <2>3 DEF ManagerInv, CallFits
    <3>2. \A d \in SubCalls : d # c /\ d \in Busy /\ scall'[d].clean /\ scall[d].op \in AboutPairs => FALSE
      BY <1>1, <1>6, <2>3, NobodyCleanBeside
    <3>3. scall'[c].clean => \A d \in SubCalls : d # c /\ d \in Busy => scall[d].op = "initialize"
      BY <1>1, <1>6, <2>2, <2>3 DEF ManagerInv, CleanIsAlone, AboutPairs
    <3> QED BY <1>1, <2>3, <2>4, <2>5, <3>1, <3>2, <3>3, OthersFollow
  <2>7. ASSUME NEW p \in Pairs PROVE ToldIsSo(p)'
    <3>1. CASE told[p] = "nothing"
      BY <1>1, <3>1 DEF ToldIsSo
    <3>2. CASE told[p] # "nothing"
      <4>1. p \notin Leaving(k) /\ ToldIsSo(p)
        BY <1>1, <1>6, <3>2, ToldIsLeft DEF ManagerInv
      <4>2. \A d \in Busy' : scall'[d].op = "initialize" \/ (scall'[d].op \in AboutPairs /\ p \notin Leaving(scall'[d]))
        BY <2>2, <2>a, <2>3, <3>2, <4>1 DEF ToldIsSo, AboutPairs
      <4>3. \A ch \in Channels : p \in channel'[ch].subs <=> p \in channel[ch].subs
        BY <2>4, <4>1
      <4> QED BY <1>1, <1>2, <4>1, <4>2, <4>3 DEF ToldIsSo
    <3> QED BY <3>1, <3>2
  <2>8. AskedIfInitialized'
    BY <1>1, <1>2, <2>3, <2>4 DEF ManagerInv, AskedIfInitialized
  <2> QED BY <1>1, <2>3, <2>4, <2>6, <2>7, <2>8 DEF ManagerInv, ManagerTyped
<1>7. CASE k.op = "dispose" /\ channel' = [channel EXCEPT ![k.at] = [asked |-> "no", subs |-> {}]]
  <2> HIDE DEF next
  <2>1. Missed(k, ok) \in BOOLEAN
    BY <1>2 DEF Missed, SubCallStates
  <2>2. e \in SubCallStates /\ e.step = "awaiting" /\ e.op = "dispose" /\ e.at = next /\ e.seen = k.seen \cup {next}
    BY <1>1, <1>2, <1>3, <1>7, <2>1 DEF SubCallStates
  <2> HIDE DEF e
  <2>3. /\ scall' \in [SubCalls -> SubCallStates] /\ scall'[c] = e /\ \A d \in SubCalls : d # c => scall'[d] = scall[d] /\ Follows(d)
        /\ c \in Busy' /\ Disposing'
    <3>1. Disposing
      BY <1>1, <1>7 DEF Disposing
    <3>2. e.step = "awaiting" /\ k.op = e.op
      BY <1>7, <2>2
    <3> HIDE DEF k
    <3> QED BY <1>1, <1>4, <2>2, <3>1, <3>2, OnlyOneMoves DEF k
  <2>4. channel' \in [Channels -> [asked : {"no", "asked", "left"}, subs : SUBSET Pairs]]
    BY <1>2, <1>3, <1>7
  <2>5. CallFits(scall[c])'
    BY <1>1, <1>2, <1>3, <2>2, <2>3 DEF CallFits
  <2>6. CleanIsAlone' /\ \A d \in SubCalls : CallFits(scall[d])'
    <3>1. \A d \in SubCalls : d # c => Follows(d) /\ scall'[d].seen \subseteq Registered'
      BY <1>1, <2>3 DEF ManagerInv, CallFits
    <3>2. \A d \in SubCalls : d # c /\ d \in Busy /\ scall'[d].clean /\ scall[d].op \in AboutPairs => FALSE
      BY <1>1, <1>7, <2>3, NobodyCleanBeside
    <3> QED BY <1>1, <2>2, <2>3, <2>5, <3>1, <3>2, OthersFollow DEF AboutPairs
  <2>7. ASSUME NEW p \in Pairs PROVE ToldIsSo(p)'
    <3>1. told[p] = "nothing"
      BY <1>1, <1>7, ToldIsLeft DEF AboutPairs
    <3> QED BY <1>1, <3>1 DEF ToldIsSo
  <2>8. AskedIfInitialized'
    BY <2>3 DEF AskedIfInitialized
  <2> QED BY <1>1, <2>3, <2>4, <2>6, <2>7, <2>8 DEF ManagerInv, ManagerTyped
<1>8. channel' = IF k.op = "initialize" THEN Asking(next)
                 ELSE IF k.op = "unsubscribe" THEN IF ok THEN [channel EXCEPT ![k.at].subs = @ \ Leaving(k)] ELSE channel
                 ELSE [channel EXCEPT ![k.at] = [asked |-> "no", subs |-> {}]]
  BY <1>1, Zenon DEF NextOfRound, GoesOn
<1> QED BY <1>1, <1>5, <1>6, <1>7, <1>8

LEMMA UnregisteredSound ==
  ASSUME ManagerInv, NEW c \in SubCalls, Unregistered(c)
  PROVE  ManagerInv'
<1> DEFINE k == scall[c]
           ch == k.at
<1>1. /\ c \in Busy /\ k.step = "awaiting" /\ k.op = "unregister" /\ UNCHANGED told
      /\ scall' = Forgotten(c, {ch}) /\ manager' = [manager EXCEPT !.channels = Without(@, ch)]
      /\ channel' = [channel EXCEPT ![ch] = [asked |-> "no", subs |-> {}]]
  BY DEF Unregistered, Busy
<1>2. /\ manager \in [channels : Seq(Channels), order : Seq(Channels), initialized : BOOLEAN, own : [SubNodes -> Seq(Channels)]]
      /\ IsInjective(manager.channels)
      /\ channel \in [Channels -> [asked : {"no", "asked", "left"}, subs : SUBSET Pairs]]
      /\ scall \in [SubCalls -> SubCallStates] /\ CallFits(k) /\ Registered \subseteq Channels
  BY NextIsRegistered DEF ManagerInv, ManagerTyped
<1>3. ch \in Channels
  BY <1>1, <1>2 DEF CallFits
<1>4. /\ manager' \in [channels : Seq(Channels), order : Seq(Channels), initialized : BOOLEAN, own : [SubNodes -> Seq(Channels)]]
      /\ IsInjective(manager'.channels) /\ Registered' = Registered \ {ch} /\ manager'.initialized = manager.initialized
  <2>1. /\ Without(manager.channels, ch) \in Seq(Channels) /\ IsInjective(Without(manager.channels, ch))
        /\ Range(Without(manager.channels, ch)) = Range(manager.channels) \ {ch}
    BY <1>2, OrderWithout
  <2>2. manager'.channels = Without(manager.channels, ch)
    BY <1>1, <1>2
  <2> QED BY <1>1, <1>2, <2>1, <2>2 DEF Registered
<1>5. /\ channel' \in [Channels -> [asked : {"no", "asked", "left"}, subs : SUBSET Pairs]]
      /\ \A x \in Channels : x # ch => channel'[x] = channel[x]
  BY <1>1, <1>2, <1>3
<1>6. /\ scall' \in [SubCalls -> SubCallStates] /\ scall'[c].step = "done" /\ scall'[c].seen = {}
      /\ \A d \in SubCalls : d # c => Follows(d) /\ scall'[d].seen = scall[d].seen \ {ch}
  BY <1>1, <1>2, ForgottenCalls
<1>7. c \notin Busy' /\ \A d \in SubCalls : d # c => (d \in Busy' <=> d \in Busy)
  BY <1>6 DEF Busy, Follows
<1>8. Disposing' <=> Disposing
  <2>1. \A d \in SubCalls : d # c => scall'[d].op = scall[d].op
    BY <1>6 DEF Follows
  <2>2. \A d \in Busy : d \in SubCalls
    BY DEF Busy
  <2>3. \A d \in Busy' : d \in SubCalls
    BY DEF Busy
  <2> QED BY <1>1, <1>7, <2>1, <2>2, <2>3 DEF Disposing
<1>9. CleanIsAlone' /\ \A d \in SubCalls : CallFits(scall[d])'
  <2>1. \A d \in SubCalls : d # c => Follows(d) /\ scall'[d].seen \subseteq Registered'
    BY <1>4, <1>6 DEF ManagerInv, CallFits
  <2>2. \A d \in SubCalls : d # c /\ d \in Busy /\ scall'[d].clean /\ scall[d].op \in AboutPairs => FALSE
    BY <1>1, <1>6, NobodyCleanBeside DEF Follows
  <2>3. CallFits(scall[c])'
    BY <1>6 DEF CallFits
  <2>4. \A x \in Channels : channel[x].asked # "no" /\ channel'[x].asked = "no" => \A d \in SubCalls : d # c => x \notin scall'[d].seen
    BY <1>5, <1>6
  <2> QED BY <1>6, <1>7, <1>8, <2>1, <2>2, <2>3, <2>4, OthersFollow
<1>10. ASSUME NEW p \in Pairs PROVE ToldIsSo(p)'
  <2>1. told[p] = "nothing"
    BY <1>1, ToldIsLeft DEF AboutPairs
  <2> QED BY <1>1, <2>1 DEF ToldIsSo
<1>11. AskedIfInitialized'
  BY <1>2, <1>4, <1>5, <1>8 DEF ManagerInv, AskedIfInitialized
<1>12. UNCHANGED told
  BY <1>1
<1> QED BY <1>4, <1>5, <1>6, <1>9, <1>10, <1>11, <1>12 DEF ManagerInv, ManagerTyped

LEMMA RoundEndsSound ==
  ASSUME ManagerInv, NEW c \in SubCalls, NEW ok \in BOOLEAN, RoundEnds(c, ok)
  PROVE  ManagerInv'
<1> DEFINE k == scall[c]
           e == [NoSubCall EXCEPT !.step = "done"]
<1>1. /\ c \in Busy /\ k.step = "awaiting" /\ k.op \in {"initialize", "unsubscribe", "dispose"}
      /\ NextChannel(k.seen) = Nobody
  BY DEF RoundEnds, Busy, GoesOn
<1>2. /\ manager \in [channels : Seq(Channels), order : Seq(Channels), initialized : BOOLEAN, own : [SubNodes -> Seq(Channels)]]
      /\ IsInjective(manager.channels)
      /\ channel \in [Channels -> [asked : {"no", "asked", "left"}, subs : SUBSET Pairs]]
      /\ told \in [Pairs -> {"nothing", "subscribed", "unsubscribed"}]
      /\ k \in SubCallStates /\ CallFits(k) /\ Registered \subseteq Channels /\ scall \in [SubCalls -> SubCallStates]
  BY NextIsRegistered DEF ManagerInv, ManagerTyped
<1>3. k.at \in Channels /\ \A ch \in Registered : ch \in k.seen
  <2>1. k.at \in Channels
    BY <1>1, <1>2 DEF CallFits
  <2>2. \A ch \in Registered : ch # Nobody
    BY <1>2, ManagerAssumption
  <2> QED BY <1>1, <2>1, <2>2, NextIsRegistered
<1>4. e \in SubCallStates /\ e.step = "done" /\ e.seen = {}
  BY EndedCall
<1> HIDE DEF e
<1>5. scall' = [scall EXCEPT ![c] = e] /\ k.op # "dispose" =>
        /\ scall' \in [SubCalls -> SubCallStates] /\ scall'[c] = e /\ \A d \in SubCalls : d # c => scall'[d] = scall[d] /\ Follows(d)
        /\ \A d \in Busy' : d # c => d \in Busy /\ scall'[d] = scall[d]
        /\ c \notin Busy' /\ (Disposing' <=> Disposing)
  BY <1>1, <1>4, OnlyOneMoves
<1>6. CASE k.op = "initialize" /\ scall' = Ended(c, "done") /\ manager' = [manager EXCEPT !.initialized = TRUE] /\ UNCHANGED <<channel, told>>
  <2>1. /\ scall' \in [SubCalls -> SubCallStates] /\ scall'[c] = e /\ \A d \in SubCalls : d # c => scall'[d] = scall[d] /\ Follows(d)
        /\ \A d \in Busy' : d # c => d \in Busy /\ scall'[d] = scall[d]
        /\ c \notin Busy' /\ (Disposing' <=> Disposing)
    BY <1>5, <1>6 DEF Ended, e
  <2>2. /\ manager' \in [channels : Seq(Channels), order : Seq(Channels), initialized : BOOLEAN, own : [SubNodes -> Seq(Channels)]]
        /\ manager'.channels = manager.channels /\ Registered' = Registered
    BY <1>2, <1>6 DEF Registered
  <2>3. CallFits(scall[c])'
    BY <1>4, <2>1 DEF CallFits
  <2>4. CleanIsAlone' /\ \A d \in SubCalls : CallFits(scall[d])'
    <3>1. \A d \in SubCalls : d # c => Follows(d) /\ scall'[d].seen \subseteq Registered'
      BY <2>1, <2>2 DEF ManagerInv, CallFits
    <3> QED BY <1>6, <2>1, <2>2, <2>3, <3>1, OthersFollow
  <2>5. ASSUME NEW p \in Pairs PROVE ToldIsSo(p)'
    <3>1. ToldIsSo(p)
      BY DEF ManagerInv
    <3>2. \A d \in Busy' : d \in Busy /\ scall'[d] = scall[d]
      BY <2>1
    <3> QED BY <1>6, <2>2, <3>1, <3>2 DEF ToldIsSo, Leaving
  <2>6. AskedIfInitialized'
    <3>1. ~Disposing => \A ch \in k.seen : channel[ch].asked # "no"
      BY <1>1, <1>2, <1>6 DEF CallFits
    <3> QED BY <1>3, <1>6, <2>1, <2>2, <3>1 DEF AskedIfInitialized
  <2> QED BY <1>2, <1>6, <2>1, <2>2, <2>4, <2>5, <2>6 DEF ManagerInv, ManagerTyped
<1>7. CASE /\ k.op = "unsubscribe" /\ scall' = Ended(c, "done") /\ UNCHANGED manager
           /\ channel' = IF ok THEN [channel EXCEPT ![k.at].subs = @ \ Leaving(k)] ELSE channel
           /\ Tells(c, IF ~Missed(k, ok) THEN Leaving(k) ELSE {}, "unsubscribed")
  <2>1. /\ scall' \in [SubCalls -> SubCallStates] /\ scall'[c] = e /\ \A d \in SubCalls : d # c => scall'[d] = scall[d] /\ Follows(d)
        /\ \A d \in Busy' : d # c => d \in Busy /\ scall'[d] = scall[d]
        /\ c \notin Busy' /\ (Disposing' <=> Disposing)
    BY <1>5, <1>7 DEF Ended, e
  <2>2. Registered' = Registered /\ UNCHANGED manager
    BY <1>7 DEF Registered
  <2>3. /\ channel' \in [Channels -> [asked : {"no", "asked", "left"}, subs : SUBSET Pairs]]
        /\ \A ch \in Channels : channel'[ch].asked = channel[ch].asked /\ channel'[ch].subs \subseteq channel[ch].subs
        /\ \A ch \in Channels : channel[ch].subs \subseteq channel'[ch].subs \cup Leaving(k)
        /\ ~Missed(k, ok) => channel'[k.at].subs \cap Leaving(k) = {} /\ ~k.missed
    BY <1>2, <1>3, <1>7 DEF Missed
  <2>4. CallFits(scall[c])'
    BY <1>4, <2>1 DEF CallFits
  <2>5. CleanIsAlone' /\ \A d \in SubCalls : CallFits(scall[d])'
    <3>1. \A d \in SubCalls : d # c => Follows(d) /\ scall'[d].seen \subseteq Registered'
      BY <2>1, <2>2 DEF ManagerInv, CallFits
    <3>2. \A d \in SubCalls : d # c /\ d \in Busy /\ scall'[d].clean /\ scall[d].op \in AboutPairs => FALSE
      BY <1>1, <1>7, <2>1, NobodyCleanBeside
    <3> QED BY <2>1, <2>3, <2>4, <3>1, <3>2, OthersFollow
  <2>6. \A p \in Pairs : told'[p] = IF k.clean /\ ~Missed(k, ok) /\ p \in Leaving(k) THEN "unsubscribed" ELSE told[p]
    <3>1. told' = [p \in Pairs |-> IF k.clean /\ p \in (IF ~Missed(k, ok) THEN Leaving(k) ELSE {}) THEN "unsubscribed" ELSE told[p]]
      BY <1>7 DEF Tells
    <3> QED BY <3>1
  <2>7. told' \in [Pairs -> {"nothing", "subscribed", "unsubscribed"}]
    BY <1>2, <1>7 DEF Tells
  <2>8. ASSUME NEW p \in Pairs PROVE ToldIsSo(p)'
    <3>1. CASE k.clean /\ ~Missed(k, ok) /\ p \in Leaving(k)
      <4>1. \A d \in Busy' : scall'[d].op = "initialize"
        BY <1>1, <1>7, <2>1, <3>1 DEF ManagerInv, CleanIsAlone, AboutPairs
      <4>2. ASSUME NEW ch \in Registered PROVE p \notin channel'[ch].subs
        <5>1. CASE ch = k.at
          BY <2>3, <3>1, <5>1
        <5>2. CASE ch # k.at
          <6>1. channel[ch].subs \cap Leaving(k) = {}
            BY <1>1, <1>2, <1>3, <1>7, <2>3, <3>1, <5>2 DEF CallFits
          <6> QED BY <1>2, <2>3, <3>1, <6>1
        <5> QED BY <5>1, <5>2
      <4> QED BY <2>2, <2>6, <3>1, <4>1, <4>2 DEF ToldIsSo
    <3>2. CASE ~(k.clean /\ ~Missed(k, ok) /\ p \in Leaving(k)) /\ told[p] = "nothing"
      BY <2>6, <3>2 DEF ToldIsSo
    <3>3. CASE ~(k.clean /\ ~Missed(k, ok) /\ p \in Leaving(k)) /\ told[p] # "nothing"
      <4>1. p \notin Leaving(k) /\ ToldIsSo(p) /\ told'[p] = told[p]
        BY <1>1, <1>7, <2>6, <3>3, ToldIsLeft DEF ManagerInv
      <4>2. \A d \in Busy' : d \in Busy /\ scall'[d] = scall[d]
        BY <2>1
      <4>3. \A ch \in Channels : p \in channel'[ch].subs <=> p \in channel[ch].subs
        BY <2>3, <4>1
      <4> QED BY <1>2, <2>2, <4>1, <4>2, <4>3 DEF ToldIsSo, Leaving
    <3> QED BY <3>1, <3>2, <3>3
  <2>9. AskedIfInitialized'
    BY <1>2, <2>1, <2>2, <2>3 DEF ManagerInv, AskedIfInitialized
  <2> QED BY <1>2, <2>1, <2>2, <2>3, <2>5, <2>7, <2>8, <2>9 DEF ManagerInv, ManagerTyped
<1>8. CASE /\ k.op = "dispose" /\ scall' = Forgotten(c, Channels) /\ UNCHANGED told
           /\ manager' = [manager EXCEPT !.channels = <<>>, !.initialized = FALSE]
           /\ channel' = [channel EXCEPT ![k.at] = [asked |-> "no", subs |-> {}]]
  <2>1. /\ scall' \in [SubCalls -> SubCallStates] /\ scall'[c].step = "done" /\ scall'[c].seen = {}
        /\ \A d \in SubCalls : d # c => Follows(d) /\ scall'[d].seen = scall[d].seen \ Channels
    BY <1>8, ForgottenCalls
  <2>2. \A d \in SubCalls : scall'[d].seen = {}
    <3>1. \A d \in SubCalls : scall[d].seen \subseteq Channels
      BY <1>2 DEF ManagerInv, CallFits
    <3> QED BY <2>1, <3>1
  <2>3. /\ manager' \in [channels : Seq(Channels), order : Seq(Channels), initialized : BOOLEAN, own : [SubNodes -> Seq(Channels)]]
        /\ manager'.channels = <<>> /\ manager'.initialized = FALSE
    <3>1. <<>> \in Seq(Channels)
      OBVIOUS
    <3> QED BY <1>2, <1>8, <3>1
  <2>4. IsInjective(manager'.channels) /\ Registered' = {}
    BY <2>3 DEF IsInjective, Registered, Range
  <2>5. channel' \in [Channels -> [asked : {"no", "asked", "left"}, subs : SUBSET Pairs]]
    BY <1>2, <1>3, <1>8
  <2>6. c \notin Busy'
    BY <2>1 DEF Busy
  <2>7. CleanIsAlone' /\ \A d \in SubCalls : CallFits(scall[d])'
    <3>1. \A d \in SubCalls : d # c => Follows(d) /\ scall'[d].seen \subseteq Registered'
      BY <2>1, <2>2
    <3>2. \A d \in SubCalls : d # c /\ d \in Busy /\ scall'[d].clean /\ scall[d].op \in AboutPairs => FALSE
      BY <1>1, <1>8, <2>1, NobodyCleanBeside DEF Follows
    <3>3. CallFits(scall[c])'
      BY <2>1 DEF CallFits
    <3> QED BY <2>1, <2>2, <2>6, <3>1, <3>2, <3>3, OthersFollow
  <2>8. ASSUME NEW p \in Pairs PROVE ToldIsSo(p)'
    <3>1. told[p] = "nothing"
      BY <1>1, <1>8, ToldIsLeft DEF AboutPairs
    <3> QED BY <1>8, <3>1 DEF ToldIsSo
  <2>9. AskedIfInitialized'
    BY <2>3 DEF AskedIfInitialized
  <2> QED BY <1>2, <1>8, <2>1, <2>3, <2>4, <2>5, <2>7, <2>8, <2>9 DEF ManagerInv, ManagerTyped
<1> QED BY <1>6, <1>7, <1>8 DEF RoundEnds

LEMMA ManagerStep == ManagerInv /\ [ManagerNext]_managerVars => ManagerInv'
<1> SUFFICES ASSUME ManagerInv, [ManagerNext]_managerVars PROVE ManagerInv'
  OBVIOUS
<1>1. ASSUME NEW c \in SubCalls, ManagerStarts(c) PROVE ManagerInv'
  BY <1>1, ManagerStartsAllSound
<1>2. ASSUME NEW c \in SubCalls, ManagerProgress(c) PROVE ManagerInv'
  BY <1>2, ChannelSubscribesSound, UnregisteredSound, NextOfRoundSound, RoundEndsSound DEF ManagerProgress
<1>3. CASE UNCHANGED managerVars
  BY <1>3 DEF managerVars, ManagerInv, ManagerTyped, CleanIsAlone, AskedIfInitialized, CallFits, ToldIsSo, Registered, Disposing, Busy, Leaving
<1> QED BY <1>1, <1>2, <1>3 DEF ManagerNext

\* Whatever users of the manager register, unregister, subscribe, unsubscribe and
\* dispose of meanwhile, at any await of each other's calls
\* (ESPRMNeoSubscriptionManager): what a call told of a subscription stays so until
\* a call that is about it, and a channel an initialized manager has was initialized.
THEOREM SubscriptionsStayKept == ManagerSpec => []SubscriptionsAreKept
<1>1. ManagerInv => SubscriptionsAreKept
  <2> SUFFICES ASSUME ManagerInv PROVE SubscriptionsAreKept
    OBVIOUS
  <2>1. Registered \subseteq Channels /\ \A ch \in Channels : IsRegistered(ch) <=> ch \in Registered
    BY NextIsRegistered DEF IsRegistered, Registered
  <2>2. \A p \in Pairs : ToldIsSo(p)
    BY DEF ManagerInv
  <2>3. Disposals = {} => ~Disposing
    BY DEF Disposals, Disposing
  <2> QED BY <2>1, <2>2, <2>3 DEF SubscriptionsAreKept, ToldIsSo, ManagerInv, AskedIfInitialized
<1> QED BY <1>1, ManagerStartsSound, ManagerStep, PTL DEF ManagerSpec

\* What is in order once is an order: no list of different channels is longer than
\* there are channels.
LEMMA OnceIsOrder ==
  ASSUME NEW s \in Seq(Channels), IsInjective(s)
  PROVE  s \in Orders
<1> DEFINE n == Len(s)
<1>1. n \in Nat /\ DOMAIN s = 1..n /\ s \in [1..n -> Channels] /\ IsFiniteSet(Channels) /\ Cardinality(Channels) \in Nat
  BY ManagerAssumption, FS_CardinalityType
<1>2. s \in Injection(1..n, Channels)
  BY <1>1 DEF Injection
<1>3. Cardinality(1..n) <= Cardinality(Channels)
  BY <1>1, <1>2, FS_Injection
<1> HIDE DEF n
<1>4. Cardinality(1..n) = n
  <2>1. 1 \in Int /\ n \in Int /\ n \in Nat
    BY <1>1
  <2>2. Cardinality(1..n) = IF 1 > n THEN 0 ELSE n - 1 + 1
    BY <2>1, FS_Interval
  <2> QED BY <2>1, <2>2
<1>5. n \in 0..Cardinality(Channels)
  BY <1>1, <1>3, <1>4
<1> QED BY <1>1, <1>5 DEF Orders

OrdersKept == manager.order \in Orders /\ \A n \in SubNodes : manager.own[n] \in Orders

LEMMA ManagerTypes == ManagerSpec => []ManagerTypeOK
<1>1. ManagerInit => OrdersKept
  <2> SUFFICES ASSUME ManagerInit PROVE OrdersKept
    OBVIOUS
  <2>1. PICK ch \in Generic : manager = [channels |-> <<ch>>, order |-> <<ch>>, initialized |-> FALSE, own |-> [n \in SubNodes |-> <<>>]]
    BY DEF ManagerInit
  <2>2. ch \in Channels /\ <<ch>> \in Seq(Channels) /\ <<>> \in Seq(Channels) /\ IsInjective(<<ch>>) /\ IsInjective(<<>>)
    BY <2>1, ManagerAssumption DEF IsInjective
  <2>3. <<ch>> \in Orders /\ <<>> \in Orders
    BY <2>2, OnceIsOrder
  <2> QED BY <2>1, <2>3 DEF OrdersKept
<1>2. ManagerInv /\ OrdersKept /\ [ManagerNext]_managerVars => OrdersKept'
  <2> SUFFICES ASSUME ManagerInv, OrdersKept, [ManagerNext]_managerVars PROVE OrdersKept'
    OBVIOUS
  <2>1. manager \in [channels : Seq(Channels), order : Seq(Channels), initialized : BOOLEAN, own : [SubNodes -> Seq(Channels)]]
    BY DEF ManagerInv, ManagerTyped
  <2>2. ASSUME manager'.order = manager.order, manager'.own = manager.own PROVE OrdersKept'
    BY <2>2 DEF OrdersKept
  <2>3. ASSUME NEW c \in SubCalls, NEW order \in Orders, SetGlobalChannelOrder(c, order) PROVE OrdersKept'
    <3>1. manager'.order = order /\ manager'.own = manager.own
      BY <2>1, <2>3 DEF SetGlobalChannelOrder
    <3> QED BY <3>1 DEF OrdersKept
  <2>4. ASSUME NEW c \in SubCalls, NEW n \in SubNodes, NEW order \in Orders, SetNodeChannelOrder(c, n, order) PROVE OrdersKept'
    <3>1. manager'.order = manager.order /\ \A m \in SubNodes : manager'.own[m] = IF m = n THEN order ELSE manager.own[m]
      BY <2>1, <2>4 DEF SetNodeChannelOrder
    <3> QED BY <3>1 DEF OrdersKept
  <2>5. ASSUME NEW c \in SubCalls,
               \/ Initialize(c) \/ Dispose(c)
               \/ \E ch \in Channels : UnregisterChannel(c, ch) \/ \E auto \in BOOLEAN : RegisterChannel(c, ch, auto)
               \/ \E n \in SubNodes : \E cb \in Callbacks : SubscribeToNode(c, n, cb)
               \/ \E n \in SubNodes : \E cb \in Callbacks \cup {Nobody} : UnsubscribeFromNode(c, n, cb)
        PROVE  OrdersKept'
    <3>1. manager'.order = manager.order /\ manager'.own = manager.own
      BY <2>1, <2>5 DEF Initialize, Dispose, UnregisterChannel, RegisterChannel, SubscribeToNode, UnsubscribeFromNode
    <3> QED BY <2>2, <3>1
  <2>6. ASSUME NEW c \in SubCalls, ManagerProgress(c) PROVE OrdersKept'
    <3>1. manager'.order = manager.order /\ manager'.own = manager.own
      BY <2>1, <2>6 DEF ManagerProgress, ChannelSubscribes, Unregistered, NextOfRound, RoundEnds
    <3> QED BY <2>2, <3>1
  <2>7. CASE UNCHANGED managerVars
    BY <2>2, <2>7 DEF managerVars
  <2> QED BY <2>3, <2>4, <2>5, <2>6, <2>7 DEF ManagerNext, ManagerStarts
<1>3. ManagerInv /\ OrdersKept => ManagerTypeOK
  <2> SUFFICES ASSUME ManagerInv, OrdersKept PROVE ManagerTypeOK
    OBVIOUS
  <2>1. /\ manager \in [channels : Seq(Channels), order : Seq(Channels), initialized : BOOLEAN, own : [SubNodes -> Seq(Channels)]]
        /\ IsInjective(manager.channels)
    BY DEF ManagerInv, ManagerTyped
  <2>2. manager.channels \in Orders /\ manager.order \in Orders /\ manager.own \in [SubNodes -> Orders]
    BY <2>1, OnceIsOrder DEF OrdersKept
  <2>3. manager \in [channels : Orders, order : Orders, initialized : BOOLEAN, own : [SubNodes -> Orders]]
    BY <2>1, <2>2
  <2>4. \A c \in SubCalls : scall[c] \in SubCallStates
    BY DEF ManagerInv, ManagerTyped
  <2>5. \A c \in SubCalls : scall[c].step \in {"idle", "awaiting", "done", "failed"} /\ scall[c].at \in Channels \cup {Nobody}
    BY <2>4 DEF SubCallStates
  <2> QED BY <2>3, <2>5 DEF ManagerInv, ManagerTyped, ManagerTypeOK
<1> QED BY <1>1, <1>2, <1>3, ManagerStartsSound, ManagerStep, PTL DEF ManagerSpec

-----------------------------------------------------------------------------
(* --- CloudObjects ------------------------------------------------------------------- *)

AutomationOps == {"addAction", "removeAction", "addCondition", "removeCondition", "update"}
NodeOps == {"addNode", "removeNode"}
GroupOps == NodeOps \cup {"updateName", "createSubGroup", "leave", "getGroups"}
GroupThings == Members \cup {"name", "subgroup", "user"}
AutomationStates == [actions : Seq(Targets), conditions : SUBSET Triggers, enabled : BOOLEAN]
CloudGroups == [members : SUBSET Members, name : GroupNames, subgroups : SUBSET ObjCalls, mine : BOOLEAN]

ObjCallStates ==
  [step : {"idle", "sent", "taken", "done", "failed"}, what : AutomationOps \cup GroupOps \cup {"none"},
   about : SUBSET (GroupThings \cup {"automation"}),
   arg : Members \cup GroupNames \cup ObjCalls \cup {"current", "all", {}} \cup SUBSET {"actions", "conditions", "enabled"},
   body : AutomationStates \cup {<<>>} \cup {<<g>> : g \in CloudGroups}]

ObjTyped ==
  /\ cloudGroup \in CloudGroups /\ group \in [nodeIds : Seq(Members), name : GroupNames, subgroups : SUBSET ObjCalls]
  /\ automation \in AutomationStates /\ cloudAutomation \in AutomationStates
  /\ ocall \in [ObjCalls -> ObjCallStates] /\ objects \in [met : BOOLEAN, failed : BOOLEAN, lost : BOOLEAN]

\* Calls under way, and those of them the cloud has taken.
Underway == {c \in ObjCalls : ocall[c].step \in {"sent", "taken"}}
TakenCalls == {c \in ObjCalls : ocall[c].step = "taken"}

\* What a call is about goes with what it does.
AboutFits(k) ==
  /\ k.what \in AutomationOps => k.about = {"automation"} /\ k.body \in AutomationStates
  /\ k.what \in NodeOps => k.arg \in Members /\ k.about = {k.arg}
  /\ k.what = "updateName" => k.arg \in GroupNames /\ k.about = {"name"}
  /\ k.what = "createSubGroup" => k.about = {"subgroup"}
  /\ k.what = "leave" => k.about = {"user"}
  /\ k.what = "getGroups" => k.about = GroupThings
  /\ k.what = "getGroups" /\ k.step = "taken" => k.body \in {<<g>> : g \in CloudGroups}

Apart ==
  \A c, d \in Underway : c # d => ocall[c].about \cap ocall[d].about = {} \/ (ocall[c].what = "createSubGroup" /\ ocall[d].what = "createSubGroup")

Once(ids) == \A i, j \in DOMAIN ids : ids[i] = ids[j] => i = j
Has(n) == \E i \in DOMAIN group.nodeIds : group.nodeIds[i] = n
Changing(n) == \E c \in TakenCalls : ocall[c].what \in NodeOps /\ ocall[c].arg = n

NodesMirrored ==
  /\ Once(group.nodeIds)
  /\ \A c \in Underway : ocall[c].what = "addNode" => ~Has(ocall[c].arg)
  /\ \A c \in TakenCalls : ocall[c].what \in NodeOps => (ocall[c].arg \in cloudGroup.members <=> ocall[c].what = "addNode")
  /\ \A n \in Members : ~Changing(n) => (Has(n) <=> n \in cloudGroup.members)

NameMirrored ==
  /\ \A c \in TakenCalls : ocall[c].what = "updateName" => cloudGroup.name = ocall[c].arg
  /\ (\A c \in TakenCalls : ocall[c].what # "updateName") => group.name = cloudGroup.name

SubgroupsMirrored ==
  cloudGroup.subgroups = group.subgroups \cup {c \in TakenCalls : ocall[c].what = "createSubGroup"}

AnswersMirror == \A c \in TakenCalls : ocall[c].what = "getGroups" => ocall[c].body = <<cloudGroup>>

AutomationMirrored ==
  /\ \A c \in Underway : ocall[c].what \in AutomationOps =>
       ocall[c].body = automation /\ (ocall[c].step = "taken" => cloudAutomation = automation)
  /\ (\A c \in Underway : ocall[c].what \notin AutomationOps) => automation = cloudAutomation

Mirrored ==
  /\ Apart /\ NodesMirrored /\ NameMirrored /\ SubgroupsMirrored /\ AnswersMirror
  /\ ~objects.failed => AutomationMirrored

ObjInv ==
  /\ ObjTyped /\ \A c \in Underway : AboutFits(ocall[c]) /\ ocall[c].what # "none"
  /\ ~objects.met /\ ~objects.lost => Mirrored

-----------------------------------------------------------------------------
\* The numbers up to m that are kept, in their order.
Listed(keep, n, m) ==
  \E k \in 0..m : \E at \in [1..k -> 1..n] :
    /\ \A j \in 1..k : at[j] \in keep /\ at[j] <= m
    /\ \A i \in 1..m : i \in keep => \E j \in 1..k : at[j] = i
    /\ \A i, j \in 1..k : i < j => at[i] < at[j]

LEMMA ListsOneMore ==
  ASSUME NEW keep, NEW n \in Nat, NEW m \in 0..(n - 1), Listed(keep, n, m)
  PROVE  Listed(keep, n, m + 1)
<1>1. PICK k \in 0..m : \E at \in [1..k -> 1..n] :
        /\ \A j \in 1..k : at[j] \in keep /\ at[j] <= m
        /\ \A i \in 1..m : i \in keep => \E j \in 1..k : at[j] = i
        /\ \A i, j \in 1..k : i < j => at[i] < at[j]
  BY DEF Listed
<1>2. PICK at \in [1..k -> 1..n] :
        /\ \A j \in 1..k : at[j] \in keep /\ at[j] <= m
        /\ \A i \in 1..m : i \in keep => \E j \in 1..k : at[j] = i
        /\ \A i, j \in 1..k : i < j => at[i] < at[j]
  BY <1>1
<1>3. m + 1 \in 1..n /\ \A i \in 1..(m + 1) : i \in 1..m \/ i = m + 1
  OBVIOUS
<1>4. CASE m + 1 \notin keep
  <2>1. k \in 0..(m + 1)
    OBVIOUS
  <2>2. \A j \in 1..k : at[j] \in keep /\ at[j] <= m + 1
    BY <1>2
  <2>3. \A i \in 1..(m + 1) : i \in keep => \E j \in 1..k : at[j] = i
    BY <1>2, <1>3, <1>4
  <2> QED BY <1>2, <2>1, <2>2, <2>3 DEF Listed
<1>5. CASE m + 1 \in keep
  <2> DEFINE more == [j \in 1..(k + 1) |-> IF j = k + 1 THEN m + 1 ELSE at[j]]
  <2>1. k + 1 \in 0..(m + 1) /\ 1..k \subseteq 1..(k + 1) /\ k + 1 \in 1..(k + 1) /\ \A j \in 1..(k + 1) : j \in 1..k \/ j = k + 1
    OBVIOUS
  <2>2. more \in [1..(k + 1) -> 1..n]
    BY <1>3, <2>1
  <2>3. more[k + 1] = m + 1 /\ \A j \in 1..k : more[j] = at[j]
    BY <2>1
  <2> HIDE DEF more
  <2>4. \A j \in 1..(k + 1) : more[j] \in keep /\ more[j] <= m + 1
    BY <1>2, <1>5, <2>1, <2>3
  <2>5. ASSUME NEW i \in 1..(m + 1), i \in keep PROVE \E j \in 1..(k + 1) : more[j] = i
    <3>1. CASE i = m + 1
      BY <2>1, <2>3, <3>1
    <3>2. CASE i \in 1..m
      <4>1. PICK j \in 1..k : at[j] = i
        BY <1>2, <2>5, <3>2
      <4> QED BY <2>1, <2>3, <4>1
    <3> QED BY <1>3, <3>1, <3>2
  <2>6. ASSUME NEW i \in 1..(k + 1), NEW j \in 1..(k + 1), i < j PROVE more[i] < more[j]
    <3>1. i \in 1..k
      BY <2>1, <2>6
    <3>2. CASE j \in 1..k
      BY <1>2, <2>3, <2>6, <3>1, <3>2
    <3>3. CASE j = k + 1
      <4>1. at[i] <= m /\ at[i] \in 1..n
        BY <1>2, <3>1
      <4> QED BY <2>3, <3>1, <3>3, <4>1
    <3> QED BY <2>1, <3>2, <3>3
  <2> QED BY <2>1, <2>2, <2>4, <2>5, <2>6 DEF Listed
<1> QED BY <1>4, <1>5

LEMMA AllAreListed ==
  ASSUME NEW keep, NEW n \in Nat
  PROVE  Listed(keep, n, n)
<1> DEFINE wrong == {m \in 0..n : ~Listed(keep, n, m)}
<1>1. Listed(keep, n, 0)
  <2>1. \A i \in 1..0 : FALSE
    OBVIOUS
  <2>2. [i \in 1..0 |-> i] \in [1..0 -> 1..n] /\ 0 \in 0..0
    BY <2>1
  <2>3. \E at \in [1..0 -> 1..n] :
          /\ \A j \in 1..0 : at[j] \in keep /\ at[j] <= 0
          /\ \A i \in 1..0 : i \in keep => \E j \in 1..0 : at[j] = i
          /\ \A i, j \in 1..0 : i < j => at[i] < at[j]
    BY <2>1, <2>2, Zenon
  <2> QED BY <2>2, <2>3 DEF Listed
<1>2. SUFFICES ASSUME wrong # {} PROVE FALSE
  <2>1. n \in 0..n
    OBVIOUS
  <2> QED BY <1>2, <2>1
<1>3. wrong \in SUBSET Nat
  OBVIOUS
<1>4. PICK m \in wrong : \A j \in wrong : m <= j
  <2> HIDE DEF wrong
  <2> QED BY <1>2, <1>3, LeastExists
<1>5. m # 0 /\ m \in 0..n /\ ~Listed(keep, n, m)
  BY <1>1, <1>4
<1>6. (m - 1) \in 0..(n - 1) /\ (m - 1) \in 0..n /\ (m - 1) + 1 = m /\ ~(m <= m - 1)
  BY <1>5
<1>7. Listed(keep, n, m - 1)
  BY <1>4, <1>6
<1>8. Listed(keep, n, (m - 1) + 1)
  BY <1>6, <1>7, ListsOneMore
<1> QED BY <1>5, <1>6, <1>8

\* What is left when an id is taken out.
LEMMA WithoutIdIs ==
  ASSUME NEW ids \in Seq(Members), NEW n
  PROVE  /\ WithoutId(ids, n) \in Seq(Members) /\ (Once(ids) => Once(WithoutId(ids, n)))
         /\ \A x : (\E j \in DOMAIN WithoutId(ids, n) : WithoutId(ids, n)[j] = x) <=> (x # n /\ \E i \in DOMAIN ids : ids[i] = x)
<1> DEFINE l == Len(ids)
           keep == {i \in DOMAIN ids : ids[i] # n}
           lists == UNION {[1..k -> DOMAIN ids] : k \in 0..Len(ids)}
           fits(at) == /\ {at[j] : j \in DOMAIN at} = {i \in DOMAIN ids : ids[i] # n}
                       /\ \A i, j \in DOMAIN at : i < j => at[i] < at[j]
           left == CHOOSE at \in lists : fits(at)
<1>1. l \in Nat /\ DOMAIN ids = 1..l /\ keep \subseteq 1..l
  OBVIOUS
<1>2. \E at \in lists : fits(at)
  <2> HIDE DEF keep
  <2>1. Listed(keep, l, l)
    BY <1>1, AllAreListed
  <2>2. PICK k \in 0..l : \E at \in [1..k -> 1..l] :
          /\ \A j \in 1..k : at[j] \in keep /\ at[j] <= l
          /\ \A i \in 1..l : i \in keep => \E j \in 1..k : at[j] = i
          /\ \A i, j \in 1..k : i < j => at[i] < at[j]
    BY <2>1 DEF Listed
  <2>3. PICK at \in [1..k -> 1..l] :
          /\ \A j \in 1..k : at[j] \in keep /\ at[j] <= l
          /\ \A i \in 1..l : i \in keep => \E j \in 1..k : at[j] = i
          /\ \A i, j \in 1..k : i < j => at[i] < at[j]
    BY <2>2
  <2>4. DOMAIN at = 1..k /\ at \in lists
    BY <1>1
  <2>5. {at[j] : j \in DOMAIN at} = keep
    <3>1. \A i \in keep : \E j \in 1..k : at[j] = i
      BY <1>1, <2>3
    <3>2. \A j \in 1..k : at[j] \in keep
      BY <2>3
    <3> QED BY <2>4, <3>1, <3>2
  <2>6. \A i, j \in DOMAIN at : i < j => at[i] < at[j]
    BY <2>3, <2>4
  <2> HIDE DEF lists
  <2> QED BY <2>4, <2>5, <2>6 DEF keep
<1>3. left \in lists /\ fits(left)
  <2> HIDE DEF lists, fits
  <2> QED BY <1>2
<1>4. WithoutId(ids, n) = [j \in DOMAIN left |-> ids[left[j]]]
  BY DEF WithoutId
<1> HIDE DEF left
<1>5. PICK k \in 0..l : left \in [1..k -> 1..l]
  BY <1>1, <1>3
<1>6. /\ \A j \in 1..k : left[j] \in keep
      /\ \A i \in keep : \E j \in 1..k : left[j] = i
      /\ \A i, j \in 1..k : i < j => left[i] < left[j]
  <2>1. DOMAIN left = 1..k /\ {left[j] : j \in DOMAIN left} = keep
    BY <1>3, <1>5
  <2>2. \A i, j \in DOMAIN left : i < j => left[i] < left[j]
    BY <1>3
  <2> HIDE DEF keep, fits
  <2> QED BY <2>1, <2>2
<1> HIDE DEF fits, lists
<1> DEFINE w == [j \in 1..k |-> ids[left[j]]]
<1>7. WithoutId(ids, n) = w
  BY <1>4, <1>5
<1>8. /\ w \in Seq(Members) /\ DOMAIN w = 1..k /\ \A j \in 1..k : w[j] = ids[left[j]] /\ left[j] \in DOMAIN ids
  BY <1>1, <1>5
<1> HIDE DEF w
<1>9. Once(ids) => Once(w)
  <2> SUFFICES ASSUME Once(ids), NEW i \in 1..k, NEW j \in 1..k, w[i] = w[j] PROVE i = j
    BY <1>8 DEF Once
  <2>1. left[i] = left[j]
    BY <1>8 DEF Once
  <2>2. left[i] \in 1..l /\ left[j] \in 1..l /\ i \in Int /\ j \in Int
    BY <1>5
  <2>3. ~(i < j) /\ ~(j < i)
    BY <1>1, <1>6, <2>1, <2>2
  <2> QED BY <2>2, <2>3
<1>10. ASSUME NEW x PROVE (\E j \in DOMAIN w : w[j] = x) <=> (x # n /\ \E i \in DOMAIN ids : ids[i] = x)
  <2>1. ASSUME NEW j \in 1..k PROVE w[j] # n /\ \E i \in DOMAIN ids : ids[i] = w[j]
    BY <1>6, <1>8
  <2>2. ASSUME NEW i \in DOMAIN ids, ids[i] # n PROVE \E j \in 1..k : w[j] = ids[i]
    <3>1. i \in keep
      BY <2>2
    <3>2. PICK j \in 1..k : left[j] = i
      BY <1>6, <3>1
    <3> QED BY <1>8, <3>2
  <2> QED BY <1>8, <2>1, <2>2
<1> QED BY <1>7, <1>8, <1>9, <1>10

LEMMA SomeOrderIs ==
  ASSUME NEW S \in SUBSET Members
  PROVE  /\ InSomeOrder(S) \in Seq(Members) /\ Once(InSomeOrder(S))
         /\ \A x : (\E j \in DOMAIN InSomeOrder(S) : InSomeOrder(S)[j] = x) <=> x \in S
<1>1. IsFiniteSet(S)
  BY ObjAssumption, FS_Subset
<1>2. Cardinality(S) \in Nat /\ ExistsBijection(1..Cardinality(S), S)
  BY <1>1, FS_CardinalityType
<1> DEFINE fits(s) == {s[i] : i \in DOMAIN s} = S /\ \A i, j \in DOMAIN s : s[i] = s[j] => i = j
           lists == [1..Cardinality(S) -> S]
<1>3. PICK s \in Bijection(1..Cardinality(S), S) : TRUE
  BY <1>2 DEF ExistsBijection
<1>4. s \in lists /\ fits(s)
  BY <1>3 DEF Bijection, Injection, Surjection, IsInjective
<1> HIDE DEF fits, lists
<1>5. InSomeOrder(S) = CHOOSE x \in lists : fits(x)
  BY DEF InSomeOrder, fits, lists
<1>6. InSomeOrder(S) \in lists /\ fits(InSomeOrder(S))
  BY <1>4, <1>5
<1> HIDE DEF InSomeOrder
<1>7. InSomeOrder(S) \in Seq(Members)
  BY <1>2, <1>6 DEF lists
<1> QED BY <1>6, <1>7 DEF fits, Once

-----------------------------------------------------------------------------
\* Only this call changes.
Moves(c) ==
  /\ ocall' \in [ObjCalls -> ObjCallStates]
  /\ \A d \in ObjCalls : d # c => ocall'[d] = ocall[d]

LEMMA MovesIs ==
  ASSUME NEW c \in ObjCalls, Moves(c)
  PROVE  /\ \A d \in ObjCalls : d # c => (d \in Underway' <=> d \in Underway) /\ (d \in TakenCalls' <=> d \in TakenCalls)
         /\ c \in Underway' <=> ocall'[c].step \in {"sent", "taken"}
         /\ c \in TakenCalls' <=> ocall'[c].step = "taken"
         /\ Underway' \subseteq ObjCalls /\ TakenCalls' \subseteq Underway' /\ Underway \subseteq ObjCalls /\ TakenCalls \subseteq Underway
BY DEF Moves, Underway, TakenCalls

LEMMA ObjStart == ObjInit => ObjInv
<1> SUFFICES ASSUME ObjInit PROVE ObjInv
  OBVIOUS
<1>1. NoObjCall \in ObjCallStates
  BY DEF NoObjCall, ObjCallStates
<1>2. ocall \in [ObjCalls -> ObjCallStates] /\ \A c \in ObjCalls : ocall[c].step = "idle"
  <2>1. ocall = [c \in ObjCalls |-> NoObjCall] /\ NoObjCall.step = "idle"
    BY DEF ObjInit, NoObjCall
  <2> HIDE DEF ObjInit
  <2> QED BY <1>1, <2>1
<1>3. Underway = {} /\ TakenCalls = {}
  BY <1>2 DEF Underway, TakenCalls
<1>4. /\ cloudGroup \in CloudGroups /\ group \in [nodeIds : Seq(Members), name : GroupNames, subgroups : SUBSET ObjCalls]
      /\ cloudGroup.members = {} /\ cloudGroup.subgroups = {} /\ group.nodeIds = <<>> /\ group.subgroups = {} /\ group.name = cloudGroup.name
  <2>1. PICK name \in GroupNames : cloudGroup = [members |-> {}, name |-> name, subgroups |-> {}, mine |-> TRUE]
    BY DEF ObjInit
  <2>2. <<>> \in Seq(Members)
    OBVIOUS
  <2>3. group = [nodeIds |-> <<>>, name |-> cloudGroup.name, subgroups |-> {}]
    BY DEF ObjInit
  <2> QED BY <2>1, <2>2, <2>3 DEF CloudGroups
<1>5. cloudAutomation \in AutomationStates /\ automation = cloudAutomation
  <2>1. PICK t \in Targets : cloudAutomation = [actions |-> <<t>>, conditions |-> {}, enabled |-> TRUE]
    BY DEF ObjInit
  <2>2. <<t>> \in Seq(Targets)
    OBVIOUS
  <2> QED BY <2>1, <2>2 DEF AutomationStates, ObjInit
<1>6. objects \in [met : BOOLEAN, failed : BOOLEAN, lost : BOOLEAN]
  BY DEF ObjInit
<1>7. DOMAIN group.nodeIds = {}
  BY <1>4
<1>8. NodesMirrored
  BY <1>3, <1>4, <1>7 DEF NodesMirrored, Once, Has
<1>9. NameMirrored /\ SubgroupsMirrored /\ AnswersMirror /\ AutomationMirrored /\ Apart
  BY <1>3, <1>4, <1>5 DEF NameMirrored, SubgroupsMirrored, AnswersMirror, AutomationMirrored, Apart
<1> QED BY <1>2, <1>3, <1>4, <1>5, <1>6, <1>8, <1>9 DEF ObjInv, ObjTyped, Mirrored

-----------------------------------------------------------------------------
\* A call that is sent: nothing else under way is about the same, or calls meet.
LEMMA SendKeeps ==
  ASSUME ObjInv, NEW c \in ObjCalls, Moves(c), ocall[c].step = "idle", ocall'[c].step = "sent",
         AboutFits(ocall'[c]), ocall'[c].what # "none",
         UNCHANGED <<cloudGroup, cloudAutomation, group>>, automation' \in AutomationStates,
         objects' \in [met : BOOLEAN, failed : BOOLEAN, lost : BOOLEAN],
         ~objects'.met => /\ ~objects.met
                          /\ \A d \in Underway : \/ ocall[d].about \cap ocall'[c].about = {}
                                                 \/ ocall[d].what = "createSubGroup" /\ ocall'[c].what = "createSubGroup",
         objects'.failed = objects.failed, objects'.lost = objects.lost,
         ocall'[c].what = "addNode" => ~Has(ocall'[c].arg),
         ocall'[c].what \in AutomationOps => ocall'[c].body = automation',
         ocall'[c].what \notin AutomationOps => automation' = automation
  PROVE  ObjInv'
<1>1. /\ \A d \in ObjCalls : d # c => (d \in Underway' <=> d \in Underway) /\ (d \in TakenCalls' <=> d \in TakenCalls) /\ ocall'[d] = ocall[d]
      /\ c \in Underway' /\ c \notin TakenCalls' /\ Underway' \subseteq ObjCalls /\ TakenCalls' \subseteq Underway'
  BY MovesIs DEF Moves
<1>2. c \notin Underway /\ TakenCalls' = TakenCalls /\ TakenCalls \subseteq Underway /\ Underway \subseteq ObjCalls
  BY <1>1, MovesIs DEF Underway, TakenCalls
<1>3. ObjTyped'
  BY DEF ObjInv, ObjTyped, Moves
<1>4. \A d \in Underway' : AboutFits(ocall'[d]) /\ ocall'[d].what # "none"
  <2> SUFFICES ASSUME NEW d \in Underway' PROVE AboutFits(ocall'[d]) /\ ocall'[d].what # "none"
    OBVIOUS
  <2>1. d = c \/ (d \in Underway /\ ocall'[d] = ocall[d])
    BY <1>1
  <2>2. \A e \in Underway : AboutFits(ocall[e]) /\ ocall[e].what # "none"
    BY DEF ObjInv
  <2> QED BY <2>1, <2>2
<1>5. ASSUME ~objects'.met, ~objects'.lost PROVE Mirrored'
  <2>1. Mirrored
    BY <1>5 DEF ObjInv
  <2>2. Apart'
    <3> SUFFICES ASSUME NEW d \in Underway', NEW e \in Underway', d # e
                 PROVE  ocall'[d].about \cap ocall'[e].about = {} \/ (ocall'[d].what = "createSubGroup" /\ ocall'[e].what = "createSubGroup")
      BY DEF Apart
    <3>1. (d = c \/ (d \in Underway /\ ocall'[d] = ocall[d])) /\ (e = c \/ (e \in Underway /\ ocall'[e] = ocall[e]))
      BY <1>1
    <3> QED BY <1>5, <2>1, <3>1 DEF Mirrored, Apart
  <2>3. \A n : Has(n)' = Has(n) /\ Changing(n)' = Changing(n)
    <3>1. \A d \in TakenCalls : ocall'[d] = ocall[d]
      BY <1>1, <1>2
    <3> QED BY <1>2, <3>1 DEF Has, Changing
  <2>4. NodesMirrored'
    <3>1. \A d \in Underway' : ocall'[d].what = "addNode" => \A i \in DOMAIN group'.nodeIds : group'.nodeIds[i] # ocall'[d].arg
      <4> SUFFICES ASSUME NEW d \in Underway', ocall'[d].what = "addNode" PROVE ~Has(ocall'[d].arg)
        BY DEF Has
      <4> QED BY <1>1, <2>1 DEF Mirrored, NodesMirrored
    <3>2. \A d \in TakenCalls' : ocall'[d].what \in NodeOps => (ocall'[d].arg \in cloudGroup'.members <=> ocall'[d].what = "addNode")
      BY <1>1, <1>2, <2>1 DEF Mirrored, NodesMirrored
    <3>3. \A n \in Members : ~Changing(n)' => (Has(n)' <=> n \in cloudGroup'.members)
      BY <2>1, <2>3 DEF Mirrored, NodesMirrored
    <3>4. Once(group'.nodeIds)
      BY <2>1 DEF Mirrored, NodesMirrored
    <3> QED BY <3>1, <3>2, <3>3, <3>4 DEF NodesMirrored, Has
  <2>5. NameMirrored' /\ SubgroupsMirrored' /\ AnswersMirror'
    <3>1. \A d \in TakenCalls : ocall'[d] = ocall[d]
      BY <1>1, <1>2
    <3> QED BY <1>2, <2>1, <3>1 DEF Mirrored, NameMirrored, SubgroupsMirrored, AnswersMirror
  <2>6. ASSUME ~objects'.failed PROVE AutomationMirrored'
    <3>1. AutomationMirrored
      BY <2>1, <2>6 DEF Mirrored
    <3>2. CASE ocall'[c].what \in AutomationOps
      <4>1. \A d \in Underway' : d # c => ocall'[d].what \notin AutomationOps
        <5> SUFFICES ASSUME NEW d \in Underway', d # c, ocall'[d].what \in AutomationOps PROVE FALSE
          OBVIOUS
        <5>1. ocall'[d].about = {"automation"} /\ ocall'[c].about = {"automation"}
          BY <1>4, <3>2 DEF AboutFits
        <5>2. ocall'[c].what # "createSubGroup"
          BY <3>2 DEF AutomationOps
        <5> QED BY <1>1, <2>2, <5>1, <5>2 DEF Apart
      <4> QED BY <1>1, <3>2, <4>1 DEF AutomationMirrored
    <3>3. CASE ocall'[c].what \notin AutomationOps
      BY <1>1, <1>2, <3>1, <3>3 DEF AutomationMirrored
    <3> QED BY <3>2, <3>3
  <2> QED BY <2>2, <2>4, <2>5, <2>6 DEF Mirrored
<1> QED BY <1>3, <1>4, <1>5 DEF ObjInv

LEMMA Sends ==
  ASSUME ObjInv, NEW c \in ObjCalls, NEW what \in AutomationOps \cup GroupOps, NEW about, NEW arg, NEW body,
         Send(c, what, about, arg, body),
         LET k == [step |-> "sent", what |-> what, about |-> about, arg |-> arg, body |-> body] IN
           k \in ObjCallStates /\ AboutFits(k),
         automation' \in AutomationStates,
         what = "addNode" => ~Has(arg),
         what \in AutomationOps => body = automation',
         what \notin AutomationOps => automation' = automation
  PROVE  ObjInv'
<1> DEFINE k == [step |-> "sent", what |-> what, about |-> about, arg |-> arg, body |-> body]
<1>1. k \in ObjCallStates /\ AboutFits(k)
  OBVIOUS
<1>2. k.step = "sent" /\ k.what = what /\ k.about = about /\ k.arg = arg /\ k.body = body
  OBVIOUS
<1>3. ocall' = [ocall EXCEPT ![c] = k] /\ ocall[c].step = "idle" /\ UNCHANGED <<cloudGroup, cloudAutomation, group>>
      /\ objects' = [objects EXCEPT !.met = @ \/ Meets(what, about)]
  BY DEF Send
<1> HIDE DEF k
<1>4. ocall \in [ObjCalls -> ObjCallStates] /\ objects \in [met : BOOLEAN, failed : BOOLEAN, lost : BOOLEAN]
  BY DEF ObjInv, ObjTyped
<1>5. Moves(c) /\ ocall'[c] = k
  BY <1>1, <1>3, <1>4 DEF Moves
<1>6. Meets(what, about) \in BOOLEAN
  BY DEF Meets
<1>7. /\ objects' \in [met : BOOLEAN, failed : BOOLEAN, lost : BOOLEAN]
      /\ objects'.failed = objects.failed /\ objects'.lost = objects.lost /\ objects'.met = (objects.met \/ Meets(what, about))
  BY <1>3, <1>4, <1>6
<1>8. ASSUME ~objects'.met
      PROVE  /\ ~objects.met
             /\ \A d \in Underway : ocall[d].about \cap k.about = {} \/ (ocall[d].what = "createSubGroup" /\ k.what = "createSubGroup")
  <2>1. ~objects.met /\ ~Meets(what, about)
    BY <1>7, <1>8
  <2> SUFFICES ASSUME NEW d \in Underway
               PROVE  ocall[d].about \cap k.about = {} \/ (ocall[d].what = "createSubGroup" /\ k.what = "createSubGroup")
    BY <2>1
  <2>2. d \in ObjCalls /\ ocall[d].step \in {"sent", "taken"}
    BY DEF Underway
  <2>3. ocall[d].about \cap about = {} \/ {what, ocall[d].what} = {"createSubGroup"}
    BY <2>1, <2>2 DEF Meets
  <2> QED BY <1>2, <2>3
<1>9. k.what # "none"
  BY <1>2 DEF AutomationOps, GroupOps, NodeOps
<1> QED BY <1>1, <1>2, <1>3, <1>5, <1>7, <1>8, <1>9, SendKeeps

\* The arguments of a call have their places in its record.
LEMMA GroupStep ==
  ASSUME ObjInv, NEW c \in ObjCalls,
         NEW what \in GroupOps, NEW about \in SUBSET (GroupThings \cup {"automation"}),
         NEW arg \in Members \cup GroupNames \cup ObjCalls \cup {"current", "all"},
         GroupSend(c, what, about, arg),
         AboutFits([step |-> "sent", what |-> what, about |-> about, arg |-> arg, body |-> <<>>]),
         what = "addNode" => ~Has(arg)
  PROVE  ObjInv'
<1> DEFINE k == [step |-> "sent", what |-> what, about |-> about, arg |-> arg, body |-> <<>>]
<1>1. k \in ObjCallStates
  BY DEF ObjCallStates
<1>2. what \in AutomationOps \cup GroupOps /\ what \notin AutomationOps
  BY DEF AutomationOps, GroupOps, NodeOps
<1>3. automation' = automation /\ automation \in AutomationStates /\ Send(c, what, about, arg, <<>>)
  BY DEF GroupSend, ObjInv, ObjTyped
<1> QED BY <1>1, <1>2, <1>3, Sends

LEMMA AutomationStep ==
  ASSUME ObjInv, NEW c \in ObjCalls, NEW what \in AutomationOps,
         NEW fields \in SUBSET {"actions", "conditions", "enabled"}, NEW a \in AutomationStates,
         UpdateAutomation(c, what, fields, a)
  PROVE  ObjInv'
<1> DEFINE k == [step |-> "sent", what |-> what, about |-> {"automation"}, arg |-> fields, body |-> automation']
<1>1. automation' = Merged(fields, a) /\ Send(c, what, {"automation"}, fields, automation')
  BY DEF UpdateAutomation
<1>2. automation \in AutomationStates
  BY DEF ObjInv, ObjTyped
<1>3. automation' \in AutomationStates
  BY <1>1, <1>2 DEF Merged, AutomationStates
<1>4. k \in ObjCallStates
  BY <1>3 DEF ObjCallStates
<1>5. AboutFits(k)
  BY <1>3 DEF AboutFits, AutomationOps, NodeOps
<1>6. what \in AutomationOps \cup GroupOps /\ what # "addNode"
  BY DEF AutomationOps
<1> QED BY <1>1, <1>3, <1>4, <1>5, <1>6, Sends

LEMMA StartsKeep ==
  ASSUME ObjInv, NEW c \in ObjCalls, ObjStarts(c)
  PROVE  ObjInv'
<1> USE DEF GroupOps, NodeOps, GroupThings
<1>1. CASE CreateSubGroup(c)
  <2>1. AboutFits([step |-> "sent", what |-> "createSubGroup", about |-> {"subgroup"}, arg |-> c, body |-> <<>>])
    BY DEF AboutFits, AutomationOps
  <2> QED BY <1>1, <2>1, GroupStep DEF CreateSubGroup
<1>2. CASE Leave(c)
  <2>1. AboutFits([step |-> "sent", what |-> "leave", about |-> {"user"}, arg |-> "current", body |-> <<>>])
    BY DEF AboutFits, AutomationOps
  <2> QED BY <1>2, <2>1, GroupStep DEF Leave
<1>3. CASE GetGroups(c)
  <2>1. AboutFits([step |-> "sent", what |-> "getGroups", about |-> Members \cup {"name", "subgroup", "user"}, arg |-> "all", body |-> <<>>])
    BY DEF AboutFits, AutomationOps
  <2> QED BY <1>3, <2>1, GroupStep DEF GetGroups
<1>4. ASSUME NEW n \in Members, AddNode(c, n) PROVE ObjInv'
  <2>1. AboutFits([step |-> "sent", what |-> "addNode", about |-> {n}, arg |-> n, body |-> <<>>])
    BY DEF AboutFits, AutomationOps
  <2>2. ~Has(n) /\ GroupSend(c, "addNode", {n}, n)
    BY <1>4 DEF AddNode, Has
  <2> QED BY <2>1, <2>2, GroupStep
<1>5. ASSUME NEW n \in Members, RemoveMemberNode(c, n) PROVE ObjInv'
  <2>1. AboutFits([step |-> "sent", what |-> "removeNode", about |-> {n}, arg |-> n, body |-> <<>>])
    BY DEF AboutFits, AutomationOps
  <2> QED BY <1>5, <2>1, GroupStep DEF RemoveMemberNode
<1>6. ASSUME NEW name \in GroupNames, UpdateName(c, name) PROVE ObjInv'
  <2>1. AboutFits([step |-> "sent", what |-> "updateName", about |-> {"name"}, arg |-> name, body |-> <<>>])
    BY DEF AboutFits, AutomationOps
  <2> QED BY <1>6, <2>1, GroupStep DEF UpdateName
<1> USE DEF AutomationOps
<1>7. automation \in AutomationStates
  BY DEF ObjInv, ObjTyped
<1>8. ASSUME NEW t \in Targets, AddAction(c, t) PROVE ObjInv'
  <2>1. Append(automation.actions, t) \in Seq(Targets)
    BY <1>7 DEF AutomationStates
  <2>2. [automation EXCEPT !.actions = Append(@, t)] \in AutomationStates
    BY <1>7, <2>1 DEF AutomationStates
  <2> QED BY <1>8, <2>2, AutomationStep DEF AddAction
<1>9. ASSUME NEW i \in 1..MaxActions, RemoveAction(c, i) PROVE ObjInv'
  <2> DEFINE left == SubSeq(automation.actions, 1, i - 1) \o SubSeq(automation.actions, i + 1, Len(automation.actions))
  <2>1. automation.actions \in Seq(Targets) /\ i \in 1..Len(automation.actions)
    BY <1>7, <1>9 DEF AutomationStates, RemoveAction
  <2>2. SubSeq(automation.actions, 1, i - 1) \in Seq(Targets) /\ SubSeq(automation.actions, i + 1, Len(automation.actions)) \in Seq(Targets)
    BY <2>1
  <2>3. left \in Seq(Targets)
    BY <2>2
  <2> HIDE DEF left
  <2>4. [automation EXCEPT !.actions = left] \in AutomationStates
    BY <1>7, <2>3 DEF AutomationStates
  <2>5. UpdateAutomation(c, "removeAction", {"actions"}, [automation EXCEPT !.actions = left])
    BY <1>9 DEF RemoveAction, left
  <2> QED BY <2>4, <2>5, AutomationStep
<1>10. ASSUME NEW r \in Triggers, AddCondition(c, r) PROVE ObjInv'
  <2>1. [automation EXCEPT !.conditions = @ \cup {r}] \in AutomationStates
    BY <1>7 DEF AutomationStates
  <2> QED BY <1>10, <2>1, AutomationStep DEF AddCondition
<1>11. ASSUME NEW r \in Triggers, RemoveCondition(c, r) PROVE ObjInv'
  <2>1. [automation EXCEPT !.conditions = @ \ {r}] \in AutomationStates
    BY <1>7 DEF AutomationStates
  <2> QED BY <1>11, <2>1, AutomationStep DEF RemoveCondition
<1>12. ASSUME NEW on \in BOOLEAN, SetStatus(c, on) PROVE ObjInv'
  <2>1. [automation EXCEPT !.enabled = on] \in AutomationStates
    BY <1>7 DEF AutomationStates
  <2> QED BY <1>12, <2>1, AutomationStep DEF SetStatus
<1> QED BY <1>1, <1>2, <1>3, <1>4, <1>5, <1>6, <1>8, <1>9, <1>10, <1>11, <1>12 DEF ObjStarts

-----------------------------------------------------------------------------
LEMMA FailsKeep ==
  ASSUME ObjInv, NEW c \in ObjCalls, Fails(c)
  PROVE  ObjInv'
<1> DEFINE k == [NoObjCall EXCEPT !.step = "failed"]
<1>1. k \in ObjCallStates /\ k.step = "failed" /\ k.what = "none"
  BY DEF NoObjCall, ObjCallStates
<1>2. /\ ocall' = [ocall EXCEPT ![c] = k] /\ ocall[c].step \in {"sent", "taken"}
      /\ objects' = [objects EXCEPT !.failed = @ \/ ocall[c].about = {"automation"}, !.lost = @ \/ ocall[c].step = "taken"]
      /\ UNCHANGED <<cloudGroup, cloudAutomation, group, automation>>
  BY DEF Fails
<1> HIDE DEF k
<1>3. ocall \in [ObjCalls -> ObjCallStates] /\ objects \in [met : BOOLEAN, failed : BOOLEAN, lost : BOOLEAN]
  BY DEF ObjInv, ObjTyped
<1>4. Moves(c) /\ ocall'[c] = k
  BY <1>1, <1>2, <1>3 DEF Moves
<1>5. /\ \A d \in Underway' : d \in Underway /\ d # c /\ ocall'[d] = ocall[d]
      /\ \A d \in Underway : d = c \/ d \in Underway'
      /\ \A d \in TakenCalls' : d \in TakenCalls /\ d # c /\ ocall'[d] = ocall[d]
      /\ \A d \in TakenCalls : d = c \/ d \in TakenCalls'
      /\ c \in Underway /\ TakenCalls' \subseteq Underway' /\ Underway' \subseteq ObjCalls
  BY <1>1, <1>2, <1>4, MovesIs DEF Moves, Underway
<1>6. /\ objects' \in [met : BOOLEAN, failed : BOOLEAN, lost : BOOLEAN]
      /\ objects'.met = objects.met /\ objects'.failed = (objects.failed \/ ocall[c].about = {"automation"})
      /\ objects'.lost = (objects.lost \/ ocall[c].step = "taken")
  BY <1>2, <1>3
<1>7. ObjTyped'
  BY <1>2, <1>4, <1>6 DEF ObjInv, ObjTyped, Moves
<1>8. \A d \in Underway' : AboutFits(ocall'[d]) /\ ocall'[d].what # "none"
  BY <1>5 DEF ObjInv
<1>9. ASSUME ~objects'.met, ~objects'.lost PROVE Mirrored'
  <2>1. ~objects.met /\ ~objects.lost /\ ocall[c].step # "taken" /\ Mirrored
    BY <1>6, <1>9 DEF ObjInv
  <2>2. c \notin TakenCalls
    BY <2>1 DEF TakenCalls
  <2>3. TakenCalls' = TakenCalls /\ \A d \in TakenCalls : ocall'[d] = ocall[d]
    BY <1>5, <2>2
  <2>4. Apart'
    BY <1>5, <2>1 DEF Mirrored, Apart
  <2>5. \A n : Has(n)' = Has(n) /\ Changing(n)' = Changing(n)
    BY <1>2, <2>3 DEF Has, Changing
  <2>6. NodesMirrored'
    <3>1. \A d \in Underway' : ocall'[d].what = "addNode" => \A i \in DOMAIN group'.nodeIds : group'.nodeIds[i] # ocall'[d].arg
      <4> SUFFICES ASSUME NEW d \in Underway', ocall'[d].what = "addNode" PROVE ~Has(ocall'[d].arg)
        BY <1>2 DEF Has
      <4> QED BY <1>5, <2>1 DEF Mirrored, NodesMirrored
    <3>2. \A d \in TakenCalls' : ocall'[d].what \in NodeOps => (ocall'[d].arg \in cloudGroup'.members <=> ocall'[d].what = "addNode")
      BY <1>2, <2>1, <2>3 DEF Mirrored, NodesMirrored
    <3>3. \A n \in Members : ~Changing(n)' => (Has(n)' <=> n \in cloudGroup'.members)
      BY <1>2, <2>1, <2>5 DEF Mirrored, NodesMirrored
    <3>4. Once(group'.nodeIds)
      BY <1>2, <2>1 DEF Mirrored, NodesMirrored
    <3> QED BY <3>1, <3>2, <3>3, <3>4 DEF NodesMirrored, Has
  <2>7. NameMirrored' /\ SubgroupsMirrored' /\ AnswersMirror'
    BY <1>2, <2>1, <2>3 DEF Mirrored, NameMirrored, SubgroupsMirrored, AnswersMirror
  <2>8. ASSUME ~objects'.failed PROVE AutomationMirrored'
    <3>1. AutomationMirrored /\ ocall[c].about # {"automation"}
      BY <1>6, <2>1, <2>8 DEF Mirrored
    <3>2. ocall[c].what \notin AutomationOps
      BY <1>5, <3>1 DEF ObjInv, AboutFits
    <3> QED BY <1>2, <1>5, <3>1, <3>2 DEF AutomationMirrored
  <2> QED BY <2>4, <2>6, <2>7, <2>8 DEF Mirrored
<1> QED BY <1>7, <1>8, <1>9 DEF ObjInv

-----------------------------------------------------------------------------
\* What a request does to the cloud.
LEMMA TakenIs ==
  ASSUME ObjInv, NEW c \in ObjCalls, Taken(c)
  PROVE  /\ c \in Underway /\ c \notin TakenCalls /\ UNCHANGED <<group, automation, objects>>
         /\ Moves(c) /\ ocall'[c].step = "taken" /\ ocall'[c].what = ocall[c].what /\ ocall'[c].about = ocall[c].about
         /\ ocall'[c].arg = ocall[c].arg
         /\ ocall'[c].body = IF ocall[c].what = "getGroups" THEN <<cloudGroup>> ELSE ocall[c].body
         /\ cloudGroup' \in CloudGroups
         /\ cloudGroup'.members = CASE ocall[c].what = "addNode" -> cloudGroup.members \cup {ocall[c].arg}
                                    [] ocall[c].what = "removeNode" -> cloudGroup.members \ {ocall[c].arg}
                                    [] OTHER -> cloudGroup.members
         /\ cloudGroup'.name = IF ocall[c].what = "updateName" THEN ocall[c].arg ELSE cloudGroup.name
         /\ cloudGroup'.subgroups = IF ocall[c].what = "createSubGroup" THEN cloudGroup.subgroups \cup {c} ELSE cloudGroup.subgroups
         /\ ocall[c].what \notin GroupOps \ {"getGroups"} => cloudGroup' = cloudGroup
         /\ cloudAutomation' = IF ocall[c].what \in AutomationOps THEN ocall[c].body ELSE cloudAutomation
<1> DEFINE k == ocall[c]
<1>1. ocall \in [ObjCalls -> ObjCallStates] /\ cloudGroup \in CloudGroups /\ k \in ObjCallStates /\ k.step = "sent"
  BY DEF ObjInv, ObjTyped, Taken
<1>2. c \in Underway /\ c \notin TakenCalls /\ UNCHANGED <<group, automation, objects>>
  BY <1>1 DEF Taken, Underway, TakenCalls
<1>3. AboutFits(k) /\ k.what # "none"
  BY <1>2 DEF ObjInv
<1> DEFINE b == IF k.what = "getGroups" THEN <<cloudGroup>> ELSE k.body
<1>4. ocall' = [ocall EXCEPT ![c].step = "taken", ![c].body = b]
  BY DEF Taken
<1>5. b \in AutomationStates \cup {<<>>} \cup {<<g>> : g \in CloudGroups}
  BY <1>1 DEF ObjCallStates
<1> HIDE DEF b
<1>6. /\ Moves(c) /\ ocall'[c].step = "taken" /\ ocall'[c].what = k.what /\ ocall'[c].about = k.about /\ ocall'[c].arg = k.arg
      /\ ocall'[c].body = b
  BY <1>1, <1>4, <1>5 DEF Moves, ObjCallStates
<1>7. cloudGroup' = CASE k.what = "addNode" -> [cloudGroup EXCEPT !.members = @ \cup {k.arg}]
                      [] k.what = "removeNode" -> [cloudGroup EXCEPT !.members = @ \ {k.arg}]
                      [] k.what = "updateName" -> [cloudGroup EXCEPT !.name = k.arg]
                      [] k.what = "createSubGroup" -> [cloudGroup EXCEPT !.subgroups = @ \cup {c}]
                      [] k.what = "leave" -> [cloudGroup EXCEPT !.mine = FALSE]
                      [] OTHER -> cloudGroup
  BY DEF Taken
<1>8. cloudAutomation' = IF k.about = {"automation"} THEN k.body ELSE cloudAutomation
  BY DEF Taken
<1>9. k.about = {"automation"} <=> k.what \in AutomationOps
  <2>1. k.what \in AutomationOps \cup GroupOps
    BY <1>1, <1>3 DEF ObjCallStates
  <2>2. k.what \in AutomationOps => k.about = {"automation"}
    BY <1>3 DEF AboutFits
  <2>3. k.what \in NodeOps => k.about # {"automation"}
    BY <1>3, ObjAssumption DEF AboutFits
  <2>4. "name" \in GroupThings
    BY DEF GroupThings
  <2>5. k.what \in GroupOps \ NodeOps => k.about # {"automation"}
    BY <1>3, <2>4 DEF AboutFits, GroupOps
  <2> QED BY <2>1, <2>2, <2>3, <2>5
<1>10. /\ k.what \in NodeOps => k.arg \in Members
       /\ k.what = "updateName" => k.arg \in GroupNames
  BY <1>3 DEF AboutFits
<1>11. /\ cloudGroup' \in CloudGroups
       /\ cloudGroup'.members = CASE k.what = "addNode" -> cloudGroup.members \cup {k.arg}
                                  [] k.what = "removeNode" -> cloudGroup.members \ {k.arg}
                                  [] OTHER -> cloudGroup.members
       /\ cloudGroup'.name = IF k.what = "updateName" THEN k.arg ELSE cloudGroup.name
       /\ cloudGroup'.subgroups = IF k.what = "createSubGroup" THEN cloudGroup.subgroups \cup {c} ELSE cloudGroup.subgroups
       /\ k.what \notin GroupOps \ {"getGroups"} => cloudGroup' = cloudGroup
  <2> HIDE DEF k
  <2>1. CASE k.what = "addNode"
    BY <1>1, <1>7, <1>10, <2>1 DEF CloudGroups, NodeOps, GroupOps
  <2>2. CASE k.what = "removeNode"
    BY <1>1, <1>7, <1>10, <2>2 DEF CloudGroups, NodeOps, GroupOps
  <2>3. CASE k.what = "updateName"
    BY <1>1, <1>7, <1>10, <2>3 DEF CloudGroups, GroupOps
  <2>4. CASE k.what = "createSubGroup"
    BY <1>1, <1>7, <2>4 DEF CloudGroups, GroupOps
  <2>5. CASE k.what = "leave"
    BY <1>1, <1>7, <2>5 DEF CloudGroups, GroupOps
  <2>6. CASE k.what \notin {"addNode", "removeNode", "updateName", "createSubGroup", "leave"}
    BY <1>1, <1>7, <2>6 DEF CloudGroups
  <2> QED BY <2>1, <2>2, <2>3, <2>4, <2>5, <2>6
<1> QED BY <1>2, <1>6, <1>8, <1>9, <1>11 DEF b

\* Two calls of a group that are not both new subgroups are about different nodes, or
\* about different kinds of things; getGroups is about all of them.
LEMMA ApartIs ==
  ASSUME ObjInv, Apart, NEW c \in Underway, NEW d \in Underway, c # d
  PROVE  /\ ocall[c].what \in NodeOps /\ ocall[d].what \in NodeOps => ocall[c].arg # ocall[d].arg
         /\ ocall[c].what \in GroupOps => ocall[d].what # "getGroups"
         /\ ocall[c].what = "updateName" => ocall[d].what # "updateName"
         /\ ocall[c].what \in AutomationOps => ocall[d].what \notin AutomationOps
<1>1. AboutFits(ocall[c]) /\ AboutFits(ocall[d])
  BY DEF ObjInv
<1>2. ocall[c].about \cap ocall[d].about = {} \/ (ocall[c].what = "createSubGroup" /\ ocall[d].what = "createSubGroup")
  BY DEF Apart
<1>3. ocall[c].what \in NodeOps /\ ocall[d].what \in NodeOps => ocall[c].arg # ocall[d].arg
  BY <1>1, <1>2 DEF AboutFits, NodeOps
<1>4. ocall[c].what \in GroupOps => ocall[d].what # "getGroups"
  <2> SUFFICES ASSUME ocall[c].what \in GroupOps, ocall[d].what = "getGroups" PROVE FALSE
    OBVIOUS
  <2>1. ocall[d].about = GroupThings
    BY <1>1 DEF AboutFits
  <2>2. ocall[c].about \cap GroupThings = {}
    BY <1>2, <2>1
  <2>3. CASE ocall[c].what \in NodeOps
    BY <1>1, <2>2, <2>3 DEF AboutFits, GroupThings
  <2>4. CASE ocall[c].what \in {"updateName", "createSubGroup", "leave", "getGroups"}
    BY <1>1, <2>2, <2>4 DEF AboutFits, GroupThings
  <2> QED BY <2>3, <2>4 DEF GroupOps
<1>5. ocall[c].what = "updateName" => ocall[d].what # "updateName"
  BY <1>1, <1>2 DEF AboutFits
<1>6. ocall[c].what \in AutomationOps => ocall[d].what \notin AutomationOps
  BY <1>1, <1>2 DEF AboutFits, AutomationOps
<1> QED BY <1>3, <1>4, <1>5, <1>6

LEMMA TakenKeeps ==
  ASSUME ObjInv, NEW c \in ObjCalls, Taken(c)
  PROVE  ObjInv'
<1> DEFINE w == ocall[c].what
           n == ocall[c].arg
<1>1. /\ c \in Underway /\ c \notin TakenCalls /\ UNCHANGED <<group, automation, objects>>
      /\ Moves(c) /\ ocall'[c].step = "taken" /\ ocall'[c].what = w /\ ocall'[c].about = ocall[c].about
      /\ ocall'[c].arg = n
      /\ ocall'[c].body = IF w = "getGroups" THEN <<cloudGroup>> ELSE ocall[c].body
      /\ cloudGroup' \in CloudGroups
      /\ w = "addNode" => cloudGroup'.members = cloudGroup.members \cup {n}
      /\ w = "removeNode" => cloudGroup'.members = cloudGroup.members \ {n}
      /\ w \notin NodeOps => cloudGroup'.members = cloudGroup.members
      /\ cloudGroup'.name = IF w = "updateName" THEN n ELSE cloudGroup.name
      /\ cloudGroup'.subgroups = IF w = "createSubGroup" THEN cloudGroup.subgroups \cup {c} ELSE cloudGroup.subgroups
      /\ w \notin GroupOps \ {"getGroups"} => cloudGroup' = cloudGroup
      /\ cloudAutomation' = IF w \in AutomationOps THEN ocall[c].body ELSE cloudAutomation
  BY TakenIs DEF NodeOps
<1> HIDE DEF Taken
<1>2. /\ \A d \in TakenCalls : d \in TakenCalls' /\ d # c /\ d \in Underway /\ ocall'[d] = ocall[d]
      /\ \A d \in TakenCalls' : d = c \/ d \in TakenCalls
      /\ \A d \in ObjCalls : ocall'[d].what = ocall[d].what /\ ocall'[d].about = ocall[d].about /\ ocall'[d].arg = ocall[d].arg
      /\ \A d \in ObjCalls : d # c => ocall'[d] = ocall[d]
      /\ Underway' = Underway /\ c \in TakenCalls' /\ Underway \subseteq ObjCalls /\ TakenCalls' \subseteq Underway
  BY <1>1, MovesIs DEF Moves
<1>3. AboutFits(ocall[c]) /\ w # "none" /\ w \in AutomationOps \cup GroupOps
  <2>1. ocall[c] \in ObjCallStates
    BY DEF ObjInv, ObjTyped
  <2>2. AboutFits(ocall[c]) /\ w # "none"
    BY <1>1 DEF ObjInv
  <2> QED BY <2>1, <2>2 DEF ObjCallStates
<1>4. ObjTyped'
  <2>1. cloudAutomation' \in AutomationStates
    BY <1>1, <1>3 DEF ObjInv, ObjTyped, AboutFits
  <2> QED BY <1>1, <2>1 DEF ObjInv, ObjTyped, Moves
<1>5. ASSUME NEW d \in Underway' PROVE AboutFits(ocall'[d]) /\ ocall'[d].what # "none"
  <2>1. d \in Underway /\ AboutFits(ocall[d]) /\ ocall[d].what # "none"
    BY <1>2, <1>5 DEF ObjInv
  <2>2. CASE d # c
    BY <1>2, <2>1, <2>2
  <2>3. CASE d = c
    <3>1. w \in AutomationOps => ocall'[c].body = ocall[c].body
      BY <1>1 DEF AutomationOps
    <3>2. AboutFits(ocall'[c])
      <4>1. w = "getGroups" => ocall'[c].body \in {<<g>> : g \in CloudGroups}
        BY <1>1 DEF ObjInv, ObjTyped
      <4> QED BY <1>1, <1>3, <3>1, <4>1 DEF AboutFits
    <3> QED BY <1>1, <1>3, <2>3, <3>2
  <2> QED BY <2>2, <2>3
<1>6. ASSUME ~objects.met, ~objects.lost PROVE Mirrored'
  <2>1. Mirrored
    BY <1>6 DEF ObjInv
  <2>2. Apart /\ NodesMirrored /\ NameMirrored /\ SubgroupsMirrored /\ AnswersMirror /\ (~objects.failed => AutomationMirrored)
    BY <2>1 DEF Mirrored
  <2>3. \A d \in Underway : d # c =>
          /\ w \in NodeOps /\ ocall[d].what \in NodeOps => n # ocall[d].arg
          /\ w \in GroupOps => ocall[d].what # "getGroups"
          /\ w = "updateName" => ocall[d].what # "updateName"
          /\ w \in AutomationOps => ocall[d].what \notin AutomationOps
    BY <1>1, <2>2, ApartIs
  <2>4. Apart'
    BY <1>2, <2>2 DEF Apart
  <2>5. \A x : Has(x)' = Has(x)
    BY <1>1 DEF Has
  <2>6. \A x : Changing(x)' <=> (Changing(x) \/ (w \in NodeOps /\ n = x))
    <3> SUFFICES ASSUME NEW x PROVE Changing(x)' <=> (Changing(x) \/ (w \in NodeOps /\ n = x))
      OBVIOUS
    <3> QED BY <1>1, <1>2 DEF Changing
  <2>7. NodesMirrored'
    <3>1. \A d \in Underway' : ocall'[d].what = "addNode" => \A i \in DOMAIN group'.nodeIds : group'.nodeIds[i] # ocall'[d].arg
      <4> SUFFICES ASSUME NEW d \in Underway', ocall'[d].what = "addNode" PROVE ~Has(ocall'[d].arg)
        BY <1>1 DEF Has
      <4> QED BY <1>2, <2>2 DEF NodesMirrored
    <3>2. ASSUME NEW d \in TakenCalls', ocall'[d].what \in NodeOps
          PROVE  ocall'[d].arg \in cloudGroup'.members <=> ocall'[d].what = "addNode"
      <4>1. CASE d = c
        BY <1>1, <3>2, <4>1 DEF NodeOps
      <4>2. CASE d # c
        <5>1. d \in TakenCalls /\ d \in Underway /\ ocall'[d] = ocall[d]
          BY <1>2, <4>2
        <5>2. ocall[d].arg \in cloudGroup.members <=> ocall[d].what = "addNode"
          BY <2>2, <3>2, <5>1 DEF NodesMirrored
        <5>3. w \in NodeOps => ocall[d].arg # n
          BY <2>3, <3>2, <4>2, <5>1
        <5>4. w = "addNode" \/ w = "removeNode" <=> w \in NodeOps
          BY DEF NodeOps
        <5> QED BY <1>1, <5>1, <5>2, <5>3, <5>4
      <4> QED BY <4>1, <4>2
    <3>3. ASSUME NEW x \in Members, ~Changing(x)' PROVE Has(x)' <=> x \in cloudGroup'.members
      <4>1. ~Changing(x) /\ ~(w \in NodeOps /\ n = x)
        BY <2>6, <3>3
      <4>2. Has(x) <=> x \in cloudGroup.members
        BY <2>2, <4>1 DEF NodesMirrored
      <4>3. w = "addNode" \/ w = "removeNode" <=> w \in NodeOps
        BY DEF NodeOps
      <4> QED BY <1>1, <2>5, <4>1, <4>2, <4>3
    <3>4. Once(group'.nodeIds)
      BY <1>1, <2>2 DEF NodesMirrored
    <3> QED BY <3>1, <3>2, <3>3, <3>4 DEF NodesMirrored, Has
  <2>8. NameMirrored'
    <3>1. ASSUME NEW d \in TakenCalls', ocall'[d].what = "updateName" PROVE cloudGroup'.name = ocall'[d].arg
      <4>1. CASE d = c
        BY <1>1, <3>1, <4>1
      <4>2. CASE d # c
        <5>1. d \in TakenCalls /\ d \in Underway /\ ocall'[d] = ocall[d] /\ ocall[d].what = "updateName"
          BY <1>2, <3>1, <4>2
        <5>2. w # "updateName"
          BY <2>3, <4>2, <5>1
        <5> QED BY <1>1, <2>2, <5>1, <5>2 DEF NameMirrored
      <4> QED BY <4>1, <4>2
    <3>2. ASSUME \A d \in TakenCalls' : ocall'[d].what # "updateName" PROVE group'.name = cloudGroup'.name
      <4>1. w # "updateName" /\ \A d \in TakenCalls : ocall[d].what # "updateName"
        BY <1>1, <1>2, <3>2
      <4> QED BY <1>1, <2>2, <4>1 DEF NameMirrored
    <3> QED BY <3>1, <3>2 DEF NameMirrored
  <2>9. SubgroupsMirrored'
    <3>1. {d \in TakenCalls' : ocall'[d].what = "createSubGroup"}
            = {d \in TakenCalls : ocall[d].what = "createSubGroup"} \cup (IF w = "createSubGroup" THEN {c} ELSE {})
      BY <1>1, <1>2
    <3> QED BY <1>1, <2>2, <3>1 DEF SubgroupsMirrored
  <2>10. AnswersMirror'
    <3> SUFFICES ASSUME NEW d \in TakenCalls', ocall'[d].what = "getGroups" PROVE ocall'[d].body = <<cloudGroup'>>
      BY DEF AnswersMirror
    <3>1. CASE d = c
      BY <1>1, <3>1
    <3>2. CASE d # c
      <4>1. d \in TakenCalls /\ d \in Underway /\ ocall'[d] = ocall[d] /\ ocall[d].what = "getGroups"
        BY <1>2, <3>2
      <4>2. w \notin GroupOps
        BY <2>3, <3>2, <4>1
      <4> QED BY <1>1, <2>2, <4>1, <4>2 DEF AnswersMirror
    <3> QED BY <3>1, <3>2
  <2>11. ASSUME ~objects.failed PROVE AutomationMirrored'
    <3>1. AutomationMirrored
      BY <2>2, <2>11
    <3>2. CASE w \in AutomationOps
      <4>1. ocall[c].body = automation /\ cloudAutomation' = automation /\ w # "getGroups"
        BY <1>1, <3>1, <3>2 DEF AutomationMirrored, AutomationOps
      <4>2. \A d \in Underway : d # c => ocall[d].what \notin AutomationOps
        BY <2>3, <3>2
      <4> QED BY <1>1, <1>2, <3>2, <4>1, <4>2 DEF AutomationMirrored
    <3>3. CASE w \notin AutomationOps
      <4>1. cloudAutomation' = cloudAutomation /\ automation' = automation
        BY <1>1, <3>3
      <4>2. ASSUME NEW d \in Underway, ocall'[d].what \in AutomationOps PROVE d # c /\ ocall'[d] = ocall[d]
        BY <1>1, <1>2, <3>3, <4>2
      <4> QED BY <1>2, <3>1, <4>1, <4>2 DEF AutomationMirrored
    <3> QED BY <3>2, <3>3
  <2> QED BY <1>1, <2>4, <2>7, <2>8, <2>9, <2>10, <2>11 DEF Mirrored
<1> QED BY <1>1, <1>4, <1>5, <1>6 DEF ObjInv

-----------------------------------------------------------------------------
\* What an answer does to the objects.
LEMMA AnsweredKeeps ==
  ASSUME ObjInv, NEW c \in ObjCalls, Answered(c)
  PROVE  ObjInv'
<1> DEFINE k == [NoObjCall EXCEPT !.step = "done"]
           w == ocall[c].what
           n == ocall[c].arg
           body == ocall[c].body
<1>1. k \in ObjCallStates /\ k.step = "done" /\ k.what = "none"
  BY DEF NoObjCall, ObjCallStates
<1>2. ocall' = [ocall EXCEPT ![c] = k] /\ ocall[c].step = "taken" /\ UNCHANGED <<cloudGroup, cloudAutomation, objects>>
  BY DEF Answered
<1> HIDE DEF k
<1>3. /\ ocall \in [ObjCalls -> ObjCallStates] /\ group \in [nodeIds : Seq(Members), name : GroupNames, subgroups : SUBSET ObjCalls]
      /\ automation \in AutomationStates /\ cloudAutomation \in AutomationStates /\ cloudGroup \in CloudGroups
  BY DEF ObjInv, ObjTyped
<1>4. Moves(c) /\ ocall'[c] = k
  BY <1>1, <1>2, <1>3 DEF Moves
<1>5. /\ \A d \in Underway' : d \in Underway /\ d # c /\ ocall'[d] = ocall[d]
      /\ \A d \in Underway : d = c \/ d \in Underway'
      /\ \A d \in TakenCalls' : d \in TakenCalls /\ d \in Underway /\ d # c /\ ocall'[d] = ocall[d]
      /\ \A d \in TakenCalls : d = c \/ d \in TakenCalls'
      /\ c \in Underway /\ c \in TakenCalls /\ TakenCalls' \subseteq Underway' /\ Underway' \subseteq ObjCalls
  BY <1>1, <1>2, <1>4, MovesIs DEF Moves, Underway, TakenCalls
<1>6. AboutFits(ocall[c]) /\ w # "none" /\ w \in AutomationOps \cup GroupOps
  <2>1. ocall[c] \in ObjCallStates
    BY <1>3
  <2>2. AboutFits(ocall[c]) /\ w # "none"
    BY <1>5 DEF ObjInv
  <2> QED BY <2>1, <2>2 DEF ObjCallStates
<1>7. group' = CASE w = "addNode" -> [group EXCEPT !.nodeIds = Append(@, n)]
                 [] w = "removeNode" -> [group EXCEPT !.nodeIds = WithoutId(@, n)]
                 [] w = "updateName" -> [group EXCEPT !.name = n]
                 [] w = "createSubGroup" -> [group EXCEPT !.subgroups = @ \cup {c}]
                 [] w = "getGroups" -> FromAnswer(body[1])
                 [] OTHER -> group
  BY DEF Answered
<1>8. automation' = CASE w \in {"addAction", "removeAction"} -> [automation EXCEPT !.actions = body.actions]
                      [] w \in {"addCondition", "removeCondition"} -> [automation EXCEPT !.conditions = body.conditions]
                      [] OTHER -> automation
  BY DEF Answered
<1> HIDE DEF w, n, body
<1>9. group' \in [nodeIds : Seq(Members), name : GroupNames, subgroups : SUBSET ObjCalls]
  <2>1. CASE w = "addNode"
    <3>1. n \in Members
      BY <1>6, <2>1 DEF AboutFits, NodeOps, w, n
    <3>2. Append(group.nodeIds, n) \in Seq(Members)
      BY <1>3, <3>1
    <3> QED BY <1>3, <1>7, <2>1, <3>2
  <2>2. CASE w = "removeNode"
    <3>1. group' = [group EXCEPT !.nodeIds = WithoutId(group.nodeIds, n)]
      BY <1>7, <2>2
    <3>2. WithoutId(group.nodeIds, n) \in Seq(Members)
      BY <1>3, WithoutIdIs
    <3> QED BY <1>3, <3>1, <3>2
  <2>3. CASE w = "updateName"
    <3>1. n \in GroupNames
      BY <1>6, <2>3 DEF AboutFits, w, n
    <3> QED BY <1>3, <1>7, <2>3, <3>1
  <2>4. CASE w = "createSubGroup"
    BY <1>3, <1>7, <2>4
  <2>5. CASE w = "getGroups"
    <3>1. PICK g \in CloudGroups : body = <<g>>
      BY <1>2, <1>6, <2>5 DEF AboutFits, w, body
    <3>2. group' = FromAnswer(g)
      BY <1>7, <2>5, <3>1
    <3>3. g.members \in SUBSET Members /\ g.name \in GroupNames /\ g.subgroups \in SUBSET ObjCalls
      BY DEF CloudGroups
    <3>4. InSomeOrder(g.members) \in Seq(Members)
      BY <3>3, SomeOrderIs
    <3> QED BY <3>2, <3>3, <3>4 DEF FromAnswer
  <2>6. CASE w \notin {"addNode", "removeNode", "updateName", "createSubGroup", "getGroups"}
    BY <1>3, <1>7, <2>6
  <2> QED BY <2>1, <2>2, <2>3, <2>4, <2>5, <2>6
<1>10. automation' \in AutomationStates
  <2>1. CASE w \in {"addAction", "removeAction"}
    <3>1. body \in AutomationStates
      BY <1>6, <2>1 DEF AboutFits, AutomationOps, w, body
    <3> QED BY <1>3, <1>8, <2>1, <3>1 DEF AutomationStates
  <2>2. CASE w \in {"addCondition", "removeCondition"}
    <3>1. body \in AutomationStates
      BY <1>6, <2>2 DEF AboutFits, AutomationOps, w, body
    <3> QED BY <1>3, <1>8, <2>2, <3>1 DEF AutomationStates
  <2>3. CASE w \notin {"addAction", "removeAction", "addCondition", "removeCondition"}
    BY <1>3, <1>8, <2>3
  <2> QED BY <2>1, <2>2, <2>3
<1>11. ObjTyped'
  BY <1>2, <1>4, <1>9, <1>10 DEF ObjInv, ObjTyped, Moves
<1>12. \A d \in Underway' : AboutFits(ocall'[d]) /\ ocall'[d].what # "none"
  BY <1>5 DEF ObjInv
<1>13. ASSUME ~objects.met, ~objects.lost PROVE Mirrored'
  <2>1. Mirrored
    BY <1>13 DEF ObjInv
  <2>2. Apart /\ NodesMirrored /\ NameMirrored /\ SubgroupsMirrored /\ AnswersMirror /\ (~objects.failed => AutomationMirrored)
    BY <2>1 DEF Mirrored
  <2>3. \A d \in Underway' :
          /\ w \in NodeOps /\ ocall[d].what \in NodeOps => n # ocall[d].arg
          /\ w = "getGroups" => ocall[d].what \notin GroupOps
          /\ w = "updateName" => ocall[d].what # "updateName"
          /\ w \in AutomationOps => ocall[d].what \notin AutomationOps
    BY <1>5, <2>2, ApartIs DEF w, n
  <2>4. Apart'
    BY <1>5, <2>2 DEF Apart
  <2>5. w = "getGroups" => group' = FromAnswer(cloudGroup)
    <3>1. w = "getGroups" => body = <<cloudGroup>>
      BY <1>5, <2>2 DEF AnswersMirror, w, body
    <3> QED BY <1>7, <3>1
  <2>6. NodesMirrored'
    <3>1. ASSUME NEW x PROVE Changing(x) <=> (Changing(x)' \/ (w \in NodeOps /\ n = x))
      BY <1>5 DEF Changing, w, n
    <3>2. ASSUME NEW x, w \in NodeOps, x = n PROVE ~Changing(x)'
      BY <1>5, <2>3, <3>2 DEF Changing
    <3>3. /\ Once(group'.nodeIds)
          /\ w = "addNode" => \A x : Has(x)' <=> (Has(x) \/ x = n)
          /\ w = "removeNode" => \A x : Has(x)' <=> (Has(x) /\ x # n)
          /\ w = "getGroups" => \A x : Has(x)' <=> x \in cloudGroup.members
          /\ w \notin {"addNode", "removeNode", "getGroups"} => group'.nodeIds = group.nodeIds
      <4>1. CASE w = "addNode"
        <5>1. group'.nodeIds = Append(group.nodeIds, n) /\ group.nodeIds \in Seq(Members)
          BY <1>3, <1>7, <4>1
        <5>2. ~Has(n) /\ Once(group.nodeIds)
          BY <1>5, <2>2, <4>1 DEF NodesMirrored, w, n
        <5> DEFINE l == Len(group.nodeIds)
        <5>3. /\ l \in Nat /\ DOMAIN group.nodeIds = 1..l /\ DOMAIN group'.nodeIds = 1..(l + 1)
              /\ group'.nodeIds[l + 1] = n /\ \A i \in 1..l : group'.nodeIds[i] = group.nodeIds[i]
          BY <5>1
        <5>4. \A i \in 1..(l + 1) : i \in 1..l \/ i = l + 1
          BY <5>3
        <5>5. 1..l \subseteq 1..(l + 1) /\ l + 1 \in 1..(l + 1)
          BY <5>3
        <5> HIDE DEF l
        <5>6. Once(group'.nodeIds)
          BY <5>2, <5>3, <5>4 DEF Once, Has
        <5>7. \A x : Has(x)' <=> (Has(x) \/ x = n)
          BY <5>3, <5>4, <5>5 DEF Has
        <5> QED BY <4>1, <5>6, <5>7
      <4>2. CASE w = "removeNode"
        <5>1. group' = [group EXCEPT !.nodeIds = WithoutId(group.nodeIds, n)] /\ group.nodeIds \in Seq(Members)
          BY <1>3, <1>7, <4>2
        <5>2. group'.nodeIds = WithoutId(group.nodeIds, n)
          BY <1>3, <5>1
        <5>3. Once(group.nodeIds)
          BY <2>2 DEF NodesMirrored
        <5> DEFINE left == WithoutId(group.nodeIds, n)
        <5>4. Once(left) /\ \A x : (\E j \in DOMAIN left : left[j] = x) <=> (x # n /\ \E i \in DOMAIN group.nodeIds : group.nodeIds[i] = x)
          BY <5>1, <5>3, WithoutIdIs
        <5>5. group'.nodeIds = left
          BY <5>2
        <5> HIDE DEF left
        <5>6. \A x : Has(x)' <=> (Has(x) /\ x # n)
          BY <5>4, <5>5 DEF Has
        <5> QED BY <4>2, <5>4, <5>5, <5>6
      <4>3. CASE w = "getGroups"
        <5>1. group'.nodeIds = InSomeOrder(cloudGroup.members) /\ cloudGroup.members \in SUBSET Members
          BY <1>3, <2>5, <4>3 DEF FromAnswer, CloudGroups
        <5>2. Once(group'.nodeIds) /\ \A x : Has(x)' <=> x \in cloudGroup.members
          BY <5>1, SomeOrderIs DEF Has
        <5> QED BY <4>3, <5>2
      <4>4. CASE w \notin {"addNode", "removeNode", "getGroups"}
        <5>1. group'.nodeIds = group.nodeIds
          <6>1. CASE w = "updateName"
            BY <1>3, <1>7, <6>1
          <6>2. CASE w = "createSubGroup"
            BY <1>3, <1>7, <6>2
          <6>3. CASE w \notin {"updateName", "createSubGroup"}
            BY <1>7, <4>4, <6>3
          <6> QED BY <6>1, <6>2, <6>3
        <5> QED BY <2>2, <4>4, <5>1 DEF NodesMirrored
      <4> QED BY <4>1, <4>2, <4>3, <4>4
    <3>4. ASSUME NEW d \in Underway', ocall'[d].what = "addNode" PROVE \A i \in DOMAIN group'.nodeIds : group'.nodeIds[i] # ocall'[d].arg
      <4>1. d \in Underway /\ ocall'[d] = ocall[d] /\ ocall[d].what \in NodeOps /\ ocall[d].what \in GroupOps
        BY <1>5, <3>4 DEF NodeOps, GroupOps
      <4>2. ~Has(ocall[d].arg)
        BY <2>2, <3>4, <4>1 DEF NodesMirrored
      <4>3. w # "getGroups" /\ (w \in NodeOps => n # ocall[d].arg)
        BY <2>3, <4>1
      <4>4. CASE w \in NodeOps
        <5>1. ASSUME NEW x, ~Has(x), x # n PROVE ~Has(x)'
          BY <3>3, <4>4, <5>1 DEF NodeOps
        <5>2. \A x : ~Has(x) /\ x # n => \A i \in DOMAIN group'.nodeIds : group'.nodeIds[i] # x
          BY <5>1 DEF Has
        <5> QED BY <4>1, <4>2, <4>3, <4>4, <5>2
      <4>5. CASE w \notin NodeOps
        <5>1. group'.nodeIds = group.nodeIds
          BY <3>3, <4>3, <4>5 DEF NodeOps
        <5> QED BY <4>1, <4>2, <5>1 DEF Has
      <4> QED BY <4>4, <4>5
    <3>5. \A d \in TakenCalls' : ocall'[d].what \in NodeOps => (ocall'[d].arg \in cloudGroup'.members <=> ocall'[d].what = "addNode")
      BY <1>2, <1>5, <2>2 DEF NodesMirrored
    <3>6. ASSUME NEW x \in Members, ~Changing(x)' PROVE Has(x)' <=> x \in cloudGroup'.members
      <4>1. w \in NodeOps => (n \in cloudGroup.members <=> w = "addNode")
        BY <1>5, <2>2 DEF NodesMirrored, w, n
      <4>2. CASE w \in NodeOps /\ x = n
        BY <1>2, <3>3, <4>1, <4>2 DEF NodeOps
      <4>3. CASE ~(w \in NodeOps /\ x = n)
        <5>1. ~Changing(x)
          BY <3>1, <3>6, <4>3
        <5>2. Has(x) <=> x \in cloudGroup.members
          BY <2>2, <5>1 DEF NodesMirrored
        <5>3. CASE w \in NodeOps
          BY <1>2, <3>3, <4>3, <5>2, <5>3 DEF NodeOps
        <5>4. CASE w = "getGroups"
          BY <1>2, <3>3, <5>4
        <5>5. CASE w \notin NodeOps /\ w # "getGroups"
          <6>1. group'.nodeIds = group.nodeIds
            BY <3>3, <5>5 DEF NodeOps
          <6>2. Has(x)' <=> Has(x)
            BY <6>1 DEF Has
          <6> QED BY <1>2, <5>2, <6>2
        <5> QED BY <5>3, <5>4, <5>5
      <4> QED BY <4>2, <4>3
    <3> QED BY <3>3, <3>4, <3>5, <3>6 DEF NodesMirrored, Has
  <2>7. NameMirrored'
    <3>1. \A d \in TakenCalls' : ocall'[d].what = "updateName" => cloudGroup'.name = ocall'[d].arg
      BY <1>2, <1>5, <2>2 DEF NameMirrored
    <3>2. ASSUME \A d \in TakenCalls' : ocall'[d].what # "updateName" PROVE group'.name = cloudGroup'.name
      <4>1. CASE w = "updateName"
        <5>1. cloudGroup.name = n
          BY <1>5, <2>2, <4>1 DEF NameMirrored, w, n
        <5> QED BY <1>2, <1>3, <1>7, <4>1, <5>1
      <4>2. CASE w = "getGroups"
        BY <1>2, <2>5, <4>2 DEF FromAnswer
      <4>3. CASE w \notin {"updateName", "getGroups"}
        <5>1. \A d \in TakenCalls : ocall[d].what # "updateName"
          BY <1>5, <3>2, <4>3 DEF w
        <5>2. group'.name = group.name
          <6>1. CASE w \in {"addNode", "removeNode", "createSubGroup"}
            BY <1>3, <1>7, <6>1
          <6>2. CASE w \notin {"addNode", "removeNode", "createSubGroup"}
            BY <1>7, <4>3, <6>2
          <6> QED BY <6>1, <6>2
        <5> QED BY <1>2, <2>2, <5>1, <5>2 DEF NameMirrored
      <4> QED BY <4>1, <4>2, <4>3
    <3> QED BY <3>1, <3>2 DEF NameMirrored
  <2>8. SubgroupsMirrored'
    <3>1. cloudGroup.subgroups = group.subgroups \cup {d \in TakenCalls : ocall[d].what = "createSubGroup"}
      BY <2>2 DEF SubgroupsMirrored
    <3>2. {d \in TakenCalls : ocall[d].what = "createSubGroup"}
            = {d \in TakenCalls' : ocall'[d].what = "createSubGroup"} \cup (IF w = "createSubGroup" THEN {c} ELSE {})
      BY <1>5 DEF w
    <3>3. CASE w = "createSubGroup"
      <4>1. group'.subgroups = group.subgroups \cup {c}
        BY <1>3, <1>7, <3>3
      <4> QED BY <1>2, <3>1, <3>2, <3>3, <4>1 DEF SubgroupsMirrored
    <3>4. CASE w = "getGroups"
      <4>1. group'.subgroups = cloudGroup.subgroups
        BY <2>5, <3>4 DEF FromAnswer
      <4>2. \A d \in TakenCalls' : ocall'[d].what # "createSubGroup"
        BY <1>5, <2>3, <3>4 DEF GroupOps
      <4> QED BY <1>2, <4>1, <4>2 DEF SubgroupsMirrored
    <3>5. CASE w \notin {"createSubGroup", "getGroups"}
      <4>1. group'.subgroups = group.subgroups
        <5>1. CASE w \in {"addNode", "removeNode", "updateName"}
          BY <1>3, <1>7, <5>1
        <5>2. CASE w \notin {"addNode", "removeNode", "updateName"}
          BY <1>7, <3>5, <5>2
        <5> QED BY <5>1, <5>2
      <4> QED BY <1>2, <3>1, <3>2, <3>5, <4>1 DEF SubgroupsMirrored
    <3> QED BY <3>3, <3>4, <3>5
  <2>9. AnswersMirror'
    BY <1>2, <1>5, <2>2 DEF AnswersMirror
  <2>10. ASSUME ~objects.failed PROVE AutomationMirrored'
    <3>1. AutomationMirrored
      BY <2>2, <2>10
    <3>2. CASE w \in AutomationOps
      <4>1. body = automation /\ cloudAutomation = automation
        BY <1>2, <1>5, <3>1, <3>2 DEF AutomationMirrored, w, body
      <4>2. automation' = automation
        <5>1. [automation EXCEPT !.actions = automation.actions] = automation /\ [automation EXCEPT !.conditions = automation.conditions] = automation
          BY <1>3 DEF AutomationStates
        <5> QED BY <1>8, <4>1, <5>1
      <4>3. \A d \in Underway' : ocall'[d].what \notin AutomationOps
        BY <1>5, <2>3, <3>2
      <4> QED BY <1>2, <4>1, <4>2, <4>3 DEF AutomationMirrored
    <3>3. CASE w \notin AutomationOps
      <4>1. automation' = automation
        BY <1>8, <3>3 DEF AutomationOps
      <4> QED BY <1>2, <1>5, <3>1, <3>3, <4>1 DEF AutomationMirrored, w
    <3> QED BY <3>2, <3>3
  <2> QED BY <1>2, <2>4, <2>6, <2>7, <2>8, <2>9, <2>10 DEF Mirrored
<1> QED BY <1>2, <1>11, <1>12, <1>13 DEF ObjInv

LEMMA ObjStep == ObjInv /\ [ObjNext]_objVars => ObjInv'
<1> SUFFICES ASSUME ObjInv, [ObjNext]_objVars PROVE ObjInv'
  OBVIOUS
<1>1. ASSUME NEW c \in ObjCalls, ObjStarts(c) PROVE ObjInv'
  BY <1>1, StartsKeep
<1>2. ASSUME NEW c \in ObjCalls, ObjProgress(c) PROVE ObjInv'
  BY <1>2, TakenKeeps, FailsKeep, AnsweredKeeps DEF ObjProgress
<1>3. CASE UNCHANGED objVars
  <2>1. UNCHANGED <<cloudGroup, group, cloudAutomation, automation, ocall, objects>>
    BY <1>3 DEF objVars
  <2>2. Underway' = Underway /\ TakenCalls' = TakenCalls
    BY <2>1 DEF Underway, TakenCalls
  <2>3. ObjTyped'
    BY <2>1 DEF ObjInv, ObjTyped
  <2>4. \A d \in Underway' : AboutFits(ocall'[d]) /\ ocall'[d].what # "none"
    BY <2>1, <2>2 DEF ObjInv
  <2>5. ASSUME ~objects.met, ~objects.lost PROVE Mirrored'
    <3>1. Mirrored
      BY <2>5 DEF ObjInv
    <3>2. Apart' /\ NameMirrored' /\ SubgroupsMirrored' /\ AnswersMirror' /\ (~objects'.failed => AutomationMirrored')
      BY <2>1, <2>2, <3>1 DEF Mirrored, Apart, NameMirrored, SubgroupsMirrored, AnswersMirror, AutomationMirrored
    <3>3. NodesMirrored'
      BY <2>1, <2>2, <3>1 DEF Mirrored, NodesMirrored, Once, Has, Changing
    <3> QED BY <3>2, <3>3 DEF Mirrored
  <2> QED BY <2>1, <2>3, <2>4, <2>5 DEF ObjInv
<1> QED BY <1>1, <1>2, <1>3 DEF ObjNext

LEMMA MirrorHolds == ObjInv => ObjectsMirrorCloud
<1> SUFFICES ASSUME ObjInv, ObjQuiet, ~objects.met, ~objects.lost
             PROVE  /\ \A n \in Members : Cardinality({i \in DOMAIN group.nodeIds : group.nodeIds[i] = n})
                                           = IF n \in cloudGroup.members THEN 1 ELSE 0
                    /\ group.name = cloudGroup.name /\ group.subgroups = cloudGroup.subgroups
                    /\ ~objects.failed => automation = cloudAutomation
  BY DEF ObjectsMirrorCloud
<1>1. Underway = {} /\ TakenCalls = {}
  BY DEF ObjQuiet, Underway, TakenCalls
<1>2. NodesMirrored /\ NameMirrored /\ SubgroupsMirrored /\ (~objects.failed => AutomationMirrored)
  BY DEF ObjInv, Mirrored
<1>3. ASSUME NEW n \in Members
      PROVE  Cardinality({i \in DOMAIN group.nodeIds : group.nodeIds[i] = n}) = IF n \in cloudGroup.members THEN 1 ELSE 0
  <2>1. Has(n) <=> n \in cloudGroup.members
    BY <1>1, <1>2 DEF NodesMirrored, Changing
  <2>2. CASE n \in cloudGroup.members
    <3>1. PICK i \in DOMAIN group.nodeIds : group.nodeIds[i] = n
      BY <2>1, <2>2 DEF Has
    <3>2. {j \in DOMAIN group.nodeIds : group.nodeIds[j] = n} = {i}
      BY <1>2, <3>1 DEF NodesMirrored, Once
    <3> QED BY <2>2, <3>2, FS_Singleton
  <2>3. CASE n \notin cloudGroup.members
    <3>1. {j \in DOMAIN group.nodeIds : group.nodeIds[j] = n} = {}
      BY <2>1, <2>3 DEF Has
    <3> QED BY <2>3, <3>1, FS_EmptySet
  <2> QED BY <2>2, <2>3
<1>4. group.name = cloudGroup.name
  BY <1>1, <1>2 DEF NameMirrored
<1>5. group.subgroups = cloudGroup.subgroups
  BY <1>1, <1>2 DEF SubgroupsMirrored
<1>6. ~objects.failed => automation = cloudAutomation
  BY <1>1, <1>2 DEF AutomationMirrored
<1> QED BY <1>3, <1>4, <1>5, <1>6

\* Once nothing is under way a group and an automation show what the cloud has, for
\* any members, names, targets and number of calls that overlap, fail and are answered
\* in any order, under the conditions the property names (addNodes, removeNodes,
\* updateName, createSubGroup, getGroups, ESPRMNeoAutomation.update and what is built
\* on it).
THEOREM ObjectsMirror == ObjSpec => []ObjectsMirrorCloud
<1> QED BY ObjStart, ObjStep, MirrorHolds, PTL DEF ObjSpec

\* An automation has its bound of actions, and so has what is sent of it.
ActionsBounded ==
  /\ Len(automation.actions) <= MaxActions /\ Len(cloudAutomation.actions) <= MaxActions
  /\ \A c \in Underway : ocall[c].what \in AutomationOps => Len(ocall[c].body.actions) <= MaxActions

LEMMA SendBounded ==
  ASSUME ObjInv, ActionsBounded, NEW c \in ObjCalls, NEW what, NEW about, NEW arg, NEW body, Send(c, what, about, arg, body),
         Len(automation'.actions) <= MaxActions, what \in AutomationOps => Len(body.actions) <= MaxActions
  PROVE  ActionsBounded'
<1>1. ocall \in [ObjCalls -> ObjCallStates]
  BY DEF ObjInv, ObjTyped
<1>2. /\ ocall'[c].what = what /\ ocall'[c].body = body /\ cloudAutomation' = cloudAutomation
      /\ \A d \in ObjCalls : d # c => ocall'[d] = ocall[d]
  BY <1>1 DEF Send
<1>3. \A d \in Underway' : d \in ObjCalls /\ (d # c => d \in Underway)
  BY <1>2 DEF Underway
<1> QED BY <1>2, <1>3 DEF ActionsBounded

LEMMA UpdateBounded ==
  ASSUME ObjInv, ActionsBounded, NEW c \in ObjCalls, NEW what, NEW fields, NEW a, UpdateAutomation(c, what, fields, a),
         "actions" \in fields => Len(a.actions) <= MaxActions
  PROVE  ActionsBounded'
<1>1. automation' = Merged(fields, a) /\ Send(c, what, {"automation"}, fields, automation')
  BY DEF UpdateAutomation
<1>2. automation'.actions = IF "actions" \in fields THEN a.actions ELSE automation.actions
  BY <1>1 DEF Merged
<1>3. Len(automation'.actions) <= MaxActions
  BY <1>2 DEF ActionsBounded
<1> QED BY <1>1, <1>3, SendBounded

LEMMA StartsBounded ==
  ASSUME ObjInv, ActionsBounded, NEW c \in ObjCalls, ObjStarts(c)
  PROVE  ActionsBounded'
<1>1. automation \in AutomationStates /\ MaxActions \in Nat
  BY ObjAssumption DEF ObjInv, ObjTyped
<1>2. automation.actions \in Seq(Targets)
  BY <1>1 DEF AutomationStates
<1>3. ASSUME NEW what, what \notin AutomationOps, NEW about, NEW arg, GroupSend(c, what, about, arg) PROVE ActionsBounded'
  <2>1. Send(c, what, about, arg, <<>>) /\ automation' = automation
    BY <1>3 DEF GroupSend
  <2>2. Len(automation'.actions) <= MaxActions
    BY <2>1 DEF ActionsBounded
  <2> QED BY <1>3, <2>1, <2>2, SendBounded
<1>4. CASE \/ CreateSubGroup(c) \/ Leave(c) \/ GetGroups(c)
           \/ \E n \in Members : AddNode(c, n) \/ RemoveMemberNode(c, n)
           \/ \E name \in GroupNames : UpdateName(c, name)
  BY <1>3, <1>4 DEF CreateSubGroup, Leave, GetGroups, AddNode, RemoveMemberNode, UpdateName, AutomationOps
<1>5. ASSUME NEW t \in Targets, AddAction(c, t) PROVE ActionsBounded'
  <2> DEFINE longer == Append(automation.actions, t)
  <2>1. Len(longer) <= MaxActions
    BY <1>1, <1>2, <1>5 DEF AddAction
  <2>2. [automation EXCEPT !.actions = longer].actions = longer
    BY <1>1 DEF AutomationStates
  <2>3. UpdateAutomation(c, "addAction", {"actions"}, [automation EXCEPT !.actions = longer])
    BY <1>5 DEF AddAction
  <2> HIDE DEF longer
  <2> QED BY <2>1, <2>2, <2>3, UpdateBounded
<1>6. ASSUME NEW i \in 1..MaxActions, RemoveAction(c, i) PROVE ActionsBounded'
  <2> DEFINE s == automation.actions
             before == SubSeq(s, 1, i - 1)
             after == SubSeq(s, i + 1, Len(s))
             left == before \o after
             n == Len(s)
  <2>1. s \in Seq(Targets) /\ i \in 1..n /\ n \in Nat
    BY <1>2, <1>6 DEF RemoveAction
  <2>2. Len(before) = i - 1 /\ before \in Seq(Targets)
    BY <2>1
  <2>3. Len(after) = n - i /\ after \in Seq(Targets)
    BY <2>1
  <2> HIDE DEF before, after
  <2>4. Len(left) = Len(before) + Len(after)
    BY <2>2, <2>3
  <2>5. n <= MaxActions
    BY DEF ActionsBounded
  <2> HIDE DEF left, n
  <2>6. Len(left) <= MaxActions
    BY <1>1, <2>1, <2>2, <2>3, <2>4, <2>5
  <2>7. [automation EXCEPT !.actions = left].actions = left
    BY <1>1 DEF AutomationStates
  <2>8. UpdateAutomation(c, "removeAction", {"actions"}, [automation EXCEPT !.actions = left])
    BY <1>6 DEF RemoveAction, left, before, after
  <2> QED BY <2>6, <2>7, <2>8, UpdateBounded
<1>7. CASE \/ \E r \in Triggers : AddCondition(c, r) \/ RemoveCondition(c, r)
           \/ \E on \in BOOLEAN : SetStatus(c, on)
  BY <1>7, UpdateBounded DEF AddCondition, RemoveCondition, SetStatus
<1> QED BY <1>4, <1>5, <1>6, <1>7 DEF ObjStarts

LEMMA ObjTypes == ObjSpec => []ObjTypeOK
<1>1. ObjInit => ActionsBounded
  <2> SUFFICES ASSUME ObjInit PROVE ActionsBounded
    OBVIOUS
  <2>1. PICK t \in Targets : cloudAutomation = [actions |-> <<t>>, conditions |-> {}, enabled |-> TRUE]
    BY DEF ObjInit
  <2>2. cloudAutomation.actions = <<t>> /\ automation = cloudAutomation /\ Len(<<t>>) = 1
    BY <2>1 DEF ObjInit
  <2>3. Underway = {}
    BY DEF ObjInit, Underway, NoObjCall
  <2>4. 1 <= MaxActions
    BY ObjAssumption
  <2> QED BY <2>2, <2>3, <2>4 DEF ActionsBounded
<1>2. ObjInv /\ ActionsBounded /\ [ObjNext]_objVars => ActionsBounded'
  <2> SUFFICES ASSUME ObjInv, ActionsBounded, [ObjNext]_objVars PROVE ActionsBounded'
    OBVIOUS
  <2>1. /\ ocall \in [ObjCalls -> ObjCallStates] /\ automation \in AutomationStates
        /\ \A d \in Underway : d \in ObjCalls /\ AboutFits(ocall[d]) /\ ocall[d].what # "none"
    BY DEF ObjInv, ObjTyped, Underway
  <2>2. ASSUME NEW c \in ObjCalls, ObjStarts(c) PROVE ActionsBounded'
    BY <2>2, StartsBounded
  <2>3. ASSUME NEW c \in ObjCalls, Taken(c) PROVE ActionsBounded'
    <3>1. /\ c \in Underway /\ Moves(c) /\ ocall'[c].what = ocall[c].what /\ automation' = automation
          /\ ocall'[c].body = IF ocall[c].what = "getGroups" THEN <<cloudGroup>> ELSE ocall[c].body
          /\ cloudAutomation' = IF ocall[c].what \in AutomationOps THEN ocall[c].body ELSE cloudAutomation
      BY <2>3, TakenIs
    <3>2. ocall[c].what \in AutomationOps => ocall'[c].body = ocall[c].body
      BY <3>1 DEF AutomationOps
    <3>3. \A d \in Underway' : d # c => d \in Underway /\ ocall'[d] = ocall[d]
      BY <3>1, MovesIs DEF Moves
    <3> QED BY <3>1, <3>2, <3>3 DEF ActionsBounded
  <2>4. ASSUME NEW c \in ObjCalls, Fails(c) PROVE ActionsBounded'
    <3>1. \A d \in Underway' : d \in Underway /\ ocall'[d] = ocall[d]
      BY <2>1, <2>4 DEF Fails, Underway, NoObjCall
    <3> QED BY <2>4, <3>1 DEF Fails, ActionsBounded
  <2>5. ASSUME NEW c \in ObjCalls, Answered(c) PROVE ActionsBounded'
    <3>1. \A d \in Underway' : d \in Underway /\ ocall'[d] = ocall[d]
      BY <2>1, <2>5 DEF Answered, Underway, NoObjCall
    <3>2. c \in Underway /\ cloudAutomation' = cloudAutomation
      BY <2>5 DEF Answered, Underway
    <3>3. \/ automation' = automation
          \/ ocall[c].what \in {"addAction", "removeAction"} /\ automation' = [automation EXCEPT !.actions = ocall[c].body.actions]
          \/ ocall[c].what \in {"addCondition", "removeCondition"} /\ automation' = [automation EXCEPT !.conditions = ocall[c].body.conditions]
      BY <2>5 DEF Answered
    <3>4. Len(automation'.actions) <= MaxActions
      <4>1. CASE automation' = automation
        BY <4>1 DEF ActionsBounded
      <4>2. CASE ocall[c].what \in {"addAction", "removeAction"} /\ automation' = [automation EXCEPT !.actions = ocall[c].body.actions]
        <5>1. ocall[c].what \in AutomationOps
          BY <4>2 DEF AutomationOps
        <5>2. automation'.actions = ocall[c].body.actions
          BY <2>1, <4>2 DEF AutomationStates
        <5> QED BY <3>2, <5>1, <5>2 DEF ActionsBounded
      <4>3. CASE automation' = [automation EXCEPT !.conditions = ocall[c].body.conditions]
        <5>1. automation'.actions = automation.actions
          BY <2>1, <4>3 DEF AutomationStates
        <5> QED BY <5>1 DEF ActionsBounded
      <4> QED BY <3>3, <4>1, <4>2, <4>3
    <3> QED BY <3>1, <3>2, <3>4 DEF ActionsBounded
  <2>6. CASE UNCHANGED objVars
    BY <2>6 DEF objVars, ActionsBounded, Underway
  <2> QED BY <2>2, <2>3, <2>4, <2>5, <2>6 DEF ObjNext, ObjProgress
<1>3. ObjInv /\ ActionsBounded => ObjTypeOK
  <2> SUFFICES ASSUME ObjInv, ActionsBounded PROVE ObjTypeOK
    OBVIOUS
  <2>1. ASSUME NEW a \in AutomationStates, Len(a.actions) <= MaxActions PROVE a \in Automation
    <3>1. a.actions \in Seq(Targets) /\ Len(a.actions) \in 0..MaxActions
      BY <2>1, ObjAssumption DEF AutomationStates
    <3>2. a.actions \in [1..Len(a.actions) -> Targets]
      BY <3>1
    <3>3. a.actions \in UNION {[1..n -> Targets] : n \in 0..MaxActions}
      BY <3>1, <3>2
    <3> QED BY <3>3 DEF AutomationStates, Automation
  <2>2. automation \in Automation /\ cloudAutomation \in Automation
    BY <2>1 DEF ObjInv, ObjTyped, ActionsBounded
  <2> QED BY <2>2 DEF ObjInv, ObjTyped, CloudGroups, ObjCallStates, ObjTypeOK
<1> QED BY <1>1, <1>2, <1>3, ObjStart, ObjStep, PTL DEF ObjSpec

-----------------------------------------------------------------------------
(* --- TimeSeries --------------------------------------------------------------------- *)

\* A result the app has: what of it reaches down to is the start, or what is next.
PageStates ==
  [kind : Kinds, param : TsParams, options : TsOptions, data : Seq(Nat), nextKey : Nat, of : Nat, all : Seq(Nat)]

Descends(s) == \A j \in 1..(Len(s) - 1) : s[j + 1] = s[j] - 1

\* Where s ends and the next key begins, for options o of a parameter p.
Reaches(s, key, p, o) ==
  /\ key = NoKey /\ s # <<>> => s[Len(s)] = Start(o)
  /\ key # NoKey => /\ s # <<>> /\ key = s[Len(s)] - 1
                    /\ Start(o) <= key /\ key <= newest /\ DataType(p, o) = "int"

PageSound(g) ==
  /\ g \in PageStates /\ Descends(g.all)
  /\ g.kind # "latest" => Reaches(g.all, g.nextKey, g.param, g.options)
  /\ g.kind = "latest" => g.nextKey = NoKey

TsInv == newest \in Nat /\ pages \in Seq(PageStates) /\ \A i \in DOMAIN pages : PageSound(pages[i])

LEMMA OptionsAre ==
  ASSUME NEW o \in TsOptions
  PROVE  o.pageSize \in {1, 2} /\ o.startTs \in Nat /\ o.startKey \in Nat /\ Start(o) \in Nat \ {0}
<1>2. o.pageSize \in {1, 2} /\ o.startTs \in {0, 1, 2} /\ o.startKey \in {0, 3}
  <2>1. \/ o = Plain \/ o = [Plain EXCEPT !.pageSize = 2] \/ o = [Plain EXCEPT !.startTs = 2, !.startKey = 3]
        \/ o = [Plain EXCEPT !.dataType = "float"] \/ o = [Plain EXCEPT !.key = "key"]
        \/ o = [Plain EXCEPT !.startTs = 0, !.window = ""]
    BY DEF TsOptions
  <2>2. CASE o = Plain
    BY <2>2 DEF Plain, NoKey
  <2>3. CASE o = [Plain EXCEPT !.pageSize = 2]
    BY <2>3 DEF Plain, NoKey
  <2>4. CASE o = [Plain EXCEPT !.startTs = 2, !.startKey = 3]
    BY <2>4 DEF Plain, NoKey
  <2>5. CASE o = [Plain EXCEPT !.dataType = "float"]
    BY <2>5 DEF Plain, NoKey
  <2>6. CASE o = [Plain EXCEPT !.key = "key"]
    BY <2>6 DEF Plain, NoKey
  <2>7. CASE o = [Plain EXCEPT !.startTs = 0, !.window = ""]
    BY <2>7 DEF Plain, NoKey
  <2> QED BY <2>1, <2>2, <2>3, <2>4, <2>5, <2>6, <2>7
<1> QED BY <1>2 DEF Start

\* What the cloud answers: from the key down, to the start or to the next key.
LEMMA CloudPageIs ==
  ASSUME newest \in Nat, NEW p \in TsParams, NEW o \in TsOptions, NEW key \in Nat
  PROVE  LET cloud == CloudPage(p, o, key) IN
           /\ cloud.data \in Seq(Nat) /\ cloud.nextKey \in Nat /\ Descends(cloud.data)
           /\ Reaches(cloud.data, cloud.nextKey, p, o)
           /\ key # NoKey /\ key <= newest /\ Start(o) <= key /\ DataType(p, o) = "int" => cloud.data # <<>> /\ cloud.data[1] = key
<1> DEFINE from == IF key = NoKey \/ key > newest THEN newest ELSE key
           st == Start(o)
           l == IF DataType(p, o) # "int" THEN 0 ELSE IF from >= st THEN from - st + 1 ELSE 0
           all == Within(p, o, key)
           n == IF Len(all) < o.pageSize THEN Len(all) ELSE o.pageSize
           cloud == CloudPage(p, o, key)
<1>1. from \in Nat /\ from <= newest /\ (key # NoKey /\ key <= newest => from = key)
  BY DEF NoKey
<1>2. st \in Nat \ {0} /\ o.pageSize \in {1, 2}
  BY OptionsAre
<1> HIDE DEF from, st
<1>3. l \in Nat /\ (l > 0 => DataType(p, o) = "int" /\ l = from - st + 1 /\ st <= from)
  BY <1>1, <1>2
<1>4. DataType(p, o) = "int" /\ st <= from => l > 0
  BY <1>1, <1>2
<1>5. all \in Seq(Nat) /\ Len(all) = l /\ \A i \in 1..l : all[i] = from + 1 - i
  <2>1. CASE DataType(p, o) # "int"
    <3>1. all = <<>>
      BY <2>1 DEF Within
    <3>2. l = 0
      BY <2>1
    <3> QED BY <3>1, <3>2
  <2>2. CASE DataType(p, o) = "int"
    <3>1. all = [i \in 1..l |-> from + 1 - i]
      BY <2>2 DEF Within, from, st
    <3>2. \A i \in 1..l : from + 1 - i \in Nat
      BY <1>1, <1>2, <1>3
    <3>3. all \in [1..l -> Nat]
      BY <3>1, <3>2
    <3> HIDE DEF l, all
    <3>4. all \in Seq(Nat) /\ Len(all) = l
      BY <1>3, <3>3
    <3> QED BY <3>1, <3>4
  <2> QED BY <2>1, <2>2
<1> HIDE DEF l, all
<1>6. n \in 0..l /\ (l > 0 => n > 0) /\ (l = 0 => n = 0)
  BY <1>2, <1>3, <1>5
<1>7. cloud.data = SubSeq(all, 1, n) /\ cloud.nextKey = IF n < Len(all) THEN all[n + 1] ELSE NoKey
  BY DEF CloudPage, all
<1> HIDE DEF n, cloud
<1>8. cloud.data \in Seq(Nat) /\ Len(cloud.data) = n /\ \A i \in 1..n : cloud.data[i] = all[i]
  BY <1>3, <1>5, <1>6, <1>7
<1>9. \A i \in 1..n : i \in 1..l /\ cloud.data[i] = from + 1 - i
  BY <1>3, <1>5, <1>6, <1>8
<1>10. Descends(cloud.data)
  <2> SUFFICES ASSUME NEW j \in 1..(n - 1) PROVE cloud.data[j + 1] = cloud.data[j] - 1
    BY <1>8 DEF Descends
  <2>1. j \in 1..n /\ j + 1 \in 1..n /\ j \in Nat
    BY <1>3, <1>6
  <2> QED BY <1>1, <1>9, <2>1
<1>11. cloud.data # <<>> <=> l > 0
  BY <1>3, <1>6, <1>8
<1>12. n > 0 => cloud.data[n] = from + 1 - n
  BY <1>3, <1>6, <1>9
<1>13. CASE n < l
  <2>1. n + 1 \in 1..l /\ l > 0 /\ n > 0
    BY <1>3, <1>6, <1>13
  <2>7. all[n + 1] = from + 1 - (n + 1)
    BY <1>5, <2>1
  <2>2. cloud.nextKey = from - n
    <3>1. cloud.nextKey = all[n + 1]
      BY <1>5, <1>7, <1>13
    <3>2. from \in Nat /\ n \in Nat
      BY <1>1, <1>3, <1>6
    <3> QED BY <2>7, <3>1, <3>2
  <2>3. cloud.nextKey \in Nat /\ st <= cloud.nextKey /\ cloud.nextKey # NoKey /\ cloud.nextKey <= newest
    BY <1>1, <1>2, <1>3, <1>6, <1>13, <2>1, <2>2 DEF NoKey
  <2>4. cloud.nextKey = cloud.data[Len(cloud.data)] - 1
    BY <1>1, <1>3, <1>6, <1>8, <1>12, <2>1, <2>2
  <2>5. Reaches(cloud.data, cloud.nextKey, p, o)
    BY <1>3, <1>11, <2>1, <2>3, <2>4 DEF Reaches, st
  <2>6. cloud.data[1] = from
    BY <1>1, <1>3, <1>6, <1>9, <2>1
  <2> QED BY <1>1, <1>8, <1>10, <1>11, <2>1, <2>3, <2>5, <2>6 DEF cloud
<1>14. CASE n = l
  <2>1. cloud.nextKey = NoKey /\ NoKey \in Nat
    BY <1>3, <1>5, <1>7, <1>14 DEF NoKey
  <2>2. cloud.data # <<>> => cloud.data[Len(cloud.data)] = st
    BY <1>1, <1>2, <1>3, <1>8, <1>11, <1>12, <1>14
  <2>3. Reaches(cloud.data, cloud.nextKey, p, o)
    BY <2>1, <2>2 DEF Reaches, st
  <2>4. l > 0 => cloud.data[1] = from
    BY <1>1, <1>3, <1>6, <1>9, <1>14
  <2> QED BY <1>1, <1>4, <1>8, <1>10, <1>11, <2>1, <2>3, <2>4 DEF cloud, st
<1> QED BY <1>3, <1>6, <1>13, <1>14

\* Pages that follow one another.
LEMMA DescentsJoin ==
  ASSUME NEW s \in Seq(Nat), NEW t \in Seq(Nat), Descends(s), Descends(t), s # <<>>, t # <<>>, t[1] = s[Len(s)] - 1
  PROVE  s \o t \in Seq(Nat) /\ Descends(s \o t) /\ s \o t # <<>> /\ (s \o t)[Len(s \o t)] = t[Len(t)]
<1> DEFINE a == Len(s)
           b == Len(t)
           u == s \o t
<1>1. a \in Nat \ {0} /\ b \in Nat \ {0}
  OBVIOUS
<1>2. u \in Seq(Nat) /\ Len(u) = a + b /\ (\A i \in 1..a : u[i] = s[i]) /\ \A i \in 1..b : u[a + i] = t[i]
  OBVIOUS
<1>3. \A j \in 1..(a - 1) : s[j + 1] = s[j] - 1
  BY DEF Descends
<1>4. \A j \in 1..(b - 1) : t[j + 1] = t[j] - 1
  BY DEF Descends
<1>5. t[1] = s[a] - 1
  OBVIOUS
<1> HIDE DEF a, b, u
<1>6. ASSUME NEW j \in 1..(a + b - 1) PROVE u[j + 1] = u[j] - 1
  <2>1. CASE j < a
    <3>1. j \in 1..a /\ j + 1 \in 1..a /\ j \in 1..(a - 1)
      BY <1>1, <2>1
    <3> QED BY <1>2, <1>3, <3>1
  <2>2. CASE j = a
    <3>1. a \in 1..a /\ 1 \in 1..b
      BY <1>1
    <3> QED BY <1>2, <1>5, <2>2, <3>1
  <2>3. CASE j > a
    <3>1. PICK i \in 1..(b - 1) : j = a + i
      <4>1. j - a \in 1..(b - 1) /\ j = a + (j - a)
        BY <1>1, <2>3
      <4> QED BY <4>1
    <3>2. i \in 1..b /\ i + 1 \in 1..b /\ j + 1 = a + (i + 1)
      BY <1>1, <3>1
    <3>3. u[a + (i + 1)] = t[i + 1] /\ u[a + i] = t[i] /\ t[i + 1] = t[i] - 1
      BY <1>2, <1>4, <3>2
    <3> QED BY <3>1, <3>2, <3>3
  <2> QED BY <1>1, <2>1, <2>2, <2>3
<1>7. Descends(u)
  <2>1. \A j \in 1..(Len(u) - 1) : j \in 1..(a + b - 1)
    BY <1>1, <1>2
  <2> QED BY <1>6, <2>1 DEF Descends
<1>8. u # <<>> /\ u[Len(u)] = t[b]
  <2>1. b \in 1..b /\ a + b > 0
    BY <1>1
  <2>2. u[a + b] = t[b]
    BY <1>2, <2>1
  <2> QED BY <1>1, <1>2, <2>1, <2>2
<1> QED BY <1>2, <1>7, <1>8 DEF u, b

LEMMA TsStart == TsInit => TsInv
BY DEF TsInit, TsInv

LEMMA PageSoundStays ==
  ASSUME NEW g, PageSound(g), newest \in Nat, newest' \in Nat, newest <= newest'
  PROVE  PageSound(g)'
<1>1. g.nextKey \in Nat
  BY DEF PageSound, PageStates
<1>2. ASSUME g.kind # "latest" PROVE Reaches(g.all, g.nextKey, g.param, g.options)'
  <2>1. Reaches(g.all, g.nextKey, g.param, g.options)
    BY <1>2 DEF PageSound
  <2>2. Start(g.options) \in Nat
    <3>1. g.options \in TsOptions
      BY DEF PageSound, PageStates
    <3> QED BY <3>1, OptionsAre
  <2> QED BY <1>1, <2>1, <2>2 DEF Reaches
<1> QED BY <1>2 DEF PageSound

LEMMA GotKeeps ==
  ASSUME TsInv, NEW g, PageSound(g), Got(g)
  PROVE  TsInv'
<1>1. pages \in Seq(PageStates) /\ g \in PageStates /\ pages' = Append(pages, g) /\ newest' = newest /\ newest \in Nat
  BY DEF TsInv, PageSound, Got
<1> DEFINE l == Len(pages)
<1>2. /\ l \in Nat /\ pages' \in Seq(PageStates) /\ DOMAIN pages = 1..l /\ DOMAIN pages' = 1..(l + 1)
      /\ pages'[l + 1] = g /\ \A i \in 1..l : pages'[i] = pages[i]
  BY <1>1
<1>3. \A i \in 1..(l + 1) : i \in 1..l \/ i = l + 1
  BY <1>2
<1> HIDE DEF l
<1>4. ASSUME NEW i \in DOMAIN pages' PROVE PageSound(pages'[i])
  <2>1. \A j \in 1..l : PageSound(pages[j])
    BY <1>2 DEF TsInv
  <2> QED BY <1>2, <1>3, <2>1
<1>5. \A x : PageSound(x) => PageSound(x)'
  BY <1>1, PageSoundStays
<1>6. ASSUME NEW i \in DOMAIN pages' PROVE PageSound(pages[i])'
  <2>1. PICK x : x = pages'[i]
    OBVIOUS
  <2>2. PageSound(x)'
    BY <1>4, <1>5, <2>1
  <2>3. pages'[i] = x
    BY <2>1
  <2> QED BY <2>2, <2>3 DEF PageSound, Reaches
<1> QED BY <1>1, <1>2, <1>6 DEF TsInv

LEMMA TsStep == TsInv /\ [TsNext]_tsVars => TsInv'
<1> SUFFICES ASSUME TsInv, [TsNext]_tsVars PROVE TsInv'
  OBVIOUS
<1>1. newest \in Nat /\ \A i \in DOMAIN pages : PageSound(pages[i])
  BY DEF TsInv
<1>2. CASE Reports
  <2>1. newest' = newest + 1 /\ pages' = pages
    BY <1>2 DEF Reports
  <2>2. newest' \in Nat /\ newest <= newest'
    BY <1>1, <2>1
  <2>3. ASSUME NEW i \in DOMAIN pages PROVE PageSound(pages[i])'
    <3>1. PICK x : x = pages[i]
      OBVIOUS
    <3>2. PageSound(x)'
      BY <1>1, <2>2, <3>1, PageSoundStays
    <3>3. pages'[i] = x
      BY <2>1, <3>1
    <3> QED BY <3>2, <3>3 DEF PageSound, Reaches
  <2> QED BY <2>1, <2>2, <2>3 DEF TsInv
<1>3. ASSUME NEW kind \in Kinds, NEW via \in {"node", "param"}, NEW p \in TsParams, NEW o \in TsOptions, Fetch(kind, via, p, o)
      PROVE  TsInv'
  <2>1. CASE kind = "latest"
    <3> DEFINE d == IF newest > 0 /\ DataType(p, o) = "int" THEN <<newest>> ELSE <<>>
    <3>1. LatestPage(p, o) = [kind |-> "latest", param |-> p, options |-> o, data |-> d, nextKey |-> NoKey, of |-> 0, all |-> d]
      BY DEF LatestPage
    <3>2. d \in Seq(Nat) /\ Len(d) <= 1
      BY <1>1
    <3> HIDE DEF d
    <3>3. Descends(d)
      <4>1. \A j \in 1..(Len(d) - 1) : FALSE
        BY <3>2
      <4> QED BY <4>1 DEF Descends
    <3>4. PageSound(LatestPage(p, o))
      BY <2>1, <3>1, <3>2, <3>3 DEF PageSound, PageStates, NoKey
    <3> QED BY <1>3, <2>1, <3>4, GotKeeps DEF Fetch
  <2>2. CASE kind # "latest"
    <3> DEFINE key == StartKey(o, NoKey)
               cloud == CloudPage(p, o, key)
    <3>1. key \in Nat
      BY OptionsAre DEF StartKey
    <3>2. Page(kind, p, o, NoKey, 0) = [kind |-> kind, param |-> p, options |-> o, data |-> cloud.data, nextKey |-> cloud.nextKey,
                                        of |-> 0, all |-> cloud.data]
      BY DEF Page
    <3>3. cloud.data \in Seq(Nat) /\ cloud.nextKey \in Nat /\ Descends(cloud.data) /\ Reaches(cloud.data, cloud.nextKey, p, o)
      BY <1>1, <3>1, CloudPageIs
    <3> HIDE DEF cloud, key
    <3>4. PageSound(Page(kind, p, o, NoKey, 0))
      BY <2>2, <3>2, <3>3 DEF PageSound, PageStates
    <3> QED BY <1>3, <2>2, <3>4, GotKeeps DEF Fetch
  <2> QED BY <2>1, <2>2
<1>4. ASSUME NEW i \in DOMAIN pages, FetchNext(i) PROVE TsInv'
  <2>1. PICK g : g = pages[i]
    OBVIOUS
  <2>2. PageSound(g) /\ g.nextKey # NoKey /\ Got(Page(g.kind, g.param, g.options, g.nextKey, i)) /\ i \in Nat /\ i # 0
    <3>1. i \in Nat /\ i # 0
      BY DEF TsInv
    <3> QED BY <1>1, <1>4, <2>1, <3>1 DEF FetchNext
  <2>3. /\ g.kind \in Kinds /\ g.param \in TsParams /\ g.options \in TsOptions /\ g.nextKey \in Nat /\ g.all \in Seq(Nat)
        /\ Descends(g.all) /\ g.kind # "latest"
    BY <2>2 DEF PageSound, PageStates
  <2>4. /\ g.all # <<>> /\ g.nextKey = g.all[Len(g.all)] - 1 /\ Start(g.options) <= g.nextKey /\ g.nextKey <= newest
        /\ DataType(g.param, g.options) = "int"
    BY <2>2, <2>3 DEF PageSound, Reaches
  <2> DEFINE cloud == CloudPage(g.param, g.options, g.nextKey)
  <2>5. /\ cloud.data \in Seq(Nat) /\ cloud.nextKey \in Nat /\ Descends(cloud.data)
        /\ Reaches(cloud.data, cloud.nextKey, g.param, g.options)
        /\ cloud.data # <<>> /\ cloud.data[1] = g.nextKey
    BY <1>1, <2>2, <2>3, <2>4, CloudPageIs
  <2>6. StartKey(g.options, g.nextKey) = g.nextKey
    BY <2>2 DEF StartKey
  <2>7. Page(g.kind, g.param, g.options, g.nextKey, i)
          = [kind |-> g.kind, param |-> g.param, options |-> g.options, data |-> cloud.data, nextKey |-> cloud.nextKey,
             of |-> i, all |-> g.all \o cloud.data]
    BY <2>1, <2>2, <2>6 DEF Page
  <2> HIDE DEF cloud
  <2> DEFINE all == g.all \o cloud.data
  <2>8. all \in Seq(Nat) /\ Descends(all) /\ all # <<>> /\ all[Len(all)] = cloud.data[Len(cloud.data)]
    BY <2>3, <2>4, <2>5, DescentsJoin
  <2>9. Page(g.kind, g.param, g.options, g.nextKey, i)
          = [kind |-> g.kind, param |-> g.param, options |-> g.options, data |-> cloud.data, nextKey |-> cloud.nextKey, of |-> i, all |-> all]
    BY <2>7
  <2> HIDE DEF all
  <2>10. Reaches(all, cloud.nextKey, g.param, g.options)
    BY <2>5, <2>8 DEF Reaches
  <2>11. PageSound(Page(g.kind, g.param, g.options, g.nextKey, i))
    BY <2>2, <2>3, <2>5, <2>8, <2>9, <2>10 DEF PageSound, PageStates
  <2> QED BY <2>2, <2>11, GotKeeps
<1>5. CASE UNCHANGED tsVars
  BY <1>5 DEF TsInv, tsVars, PageSound, Reaches
<1> QED BY <1>2, <1>3, <1>4, <1>5 DEF TsNext

LEMMA SoundAreWhole == TsInv => PagesAreWhole
<1> SUFFICES ASSUME TsInv, NEW i \in DOMAIN pages
             PROVE  LET all == pages[i].all IN
                      /\ \A j \in 1..(Len(all) - 1) : all[j + 1] = all[j] - 1
                      /\ pages[i].kind # "latest" /\ pages[i].nextKey = NoKey /\ all # <<>> => Last(all) = Start(pages[i].options)
                      /\ pages[i].nextKey # NoKey => all # <<>> /\ pages[i].nextKey = Last(all) - 1
  BY DEF PagesAreWhole
<1>1. PageSound(pages[i])
  BY DEF TsInv
<1> QED BY <1>1 DEF PageSound, Reaches, Descends, Last

\* Whoever follows pages to the end has had every sample since the start once, newest
\* first, however many results the app follows by turns, how often it follows the same
\* page, and what the device reports meanwhile (fetchTSData, fetchNext).
THEOREM PagesStayWhole == TsSpec => []PagesAreWhole
<1> QED BY TsStart, TsStep, SoundAreWhole, PTL DEF TsSpec

\* Samples and results are counted up to their bounds, and a result follows earlier ones.
PagesBounded ==
  /\ newest \in 0..MaxSamples /\ Len(pages) <= MaxPages
  /\ \A i \in DOMAIN pages : pages[i].of < i

LEMMA GotBounded ==
  ASSUME TsInv, PagesBounded, NEW g \in PageStates, g.of <= Len(pages), Got(g)
  PROVE  PagesBounded'
<1>1. pages \in Seq(PageStates) /\ pages' = Append(pages, g) /\ newest' = newest /\ MaxPages \in Nat /\ Len(pages) < MaxPages
  BY TsAssumption DEF TsInv, Got
<1> DEFINE l == Len(pages)
<1>2. /\ l \in Nat /\ Len(pages') = l + 1 /\ DOMAIN pages = 1..l /\ DOMAIN pages' = 1..(l + 1)
      /\ pages'[l + 1] = g /\ \A i \in 1..l : pages'[i] = pages[i]
  BY <1>1
<1>3. \A i \in 1..(l + 1) : i \in 1..l \/ i = l + 1
  BY <1>2
<1>4. g.of \in Nat /\ g.of <= l /\ l < MaxPages
  BY <1>1 DEF PageStates
<1> HIDE DEF l
<1>5. Len(pages') <= MaxPages /\ g.of < l + 1
  BY <1>1, <1>2, <1>4
<1>6. ASSUME NEW i \in DOMAIN pages' PROVE pages'[i].of < i
  <2>1. i \in 1..l \/ i = l + 1
    BY <1>2, <1>3
  <2>2. \A j \in 1..l : pages[j].of < j
    BY <1>2 DEF PagesBounded
  <2>3. CASE i \in 1..l
    BY <1>2, <2>2, <2>3
  <2>4. CASE i = l + 1
    BY <1>2, <1>5, <2>4
  <2> QED BY <2>1, <2>3, <2>4
<1> QED BY <1>1, <1>5, <1>6 DEF PagesBounded

LEMMA TsTypes == TsSpec => []TsTypeOK
<1>1. TsInit => PagesBounded
  BY TsAssumption DEF TsInit, PagesBounded
<1>2. TsInv /\ PagesBounded /\ [TsNext]_tsVars => PagesBounded'
  <2> SUFFICES ASSUME TsInv, PagesBounded, [TsNext]_tsVars PROVE PagesBounded'
    OBVIOUS
  <2>1. MaxSamples \in Nat /\ newest \in Nat /\ pages \in Seq(PageStates) /\ Len(pages) \in Nat
        /\ \A i \in DOMAIN pages : PageSound(pages[i]) /\ pages[i] \in PageStates
    BY TsAssumption DEF TsInv, PageSound
  <2>2. CASE Reports
    BY <2>1, <2>2 DEF Reports, PagesBounded
  <2>3. ASSUME NEW kind \in Kinds, NEW via \in {"node", "param"}, NEW p \in TsParams, NEW o \in TsOptions, Fetch(kind, via, p, o)
        PROVE  PagesBounded'
    <3> DEFINE g == IF kind = "latest" THEN LatestPage(p, o) ELSE Page(kind, p, o, NoKey, 0)
    <3>1. TsInv' /\ Got(g)
      BY <2>3, TsStep DEF TsNext, Fetch
    <3>2. pages' = Append(pages, g) /\ g.of = 0
      BY <3>1 DEF Got, LatestPage, Page
    <3>3. g \in PageStates
      <4> HIDE DEF g
      <4>1. pages'[Len(pages) + 1] = g /\ Len(pages) + 1 \in DOMAIN pages'
        BY <2>1, <3>2
      <4> QED BY <3>1, <4>1 DEF TsInv, PageSound
    <3> HIDE DEF g
    <3> QED BY <2>1, <3>1, <3>2, <3>3, GotBounded
  <2>4. ASSUME NEW i \in DOMAIN pages, FetchNext(i) PROVE PagesBounded'
    <3> DEFINE g == Page(pages[i].kind, pages[i].param, pages[i].options, pages[i].nextKey, i)
    <3>1. TsInv' /\ Got(g)
      BY <2>4, TsStep DEF TsNext, FetchNext
    <3>2. pages' = Append(pages, g) /\ g.of = i /\ i <= Len(pages)
      BY <2>1, <3>1 DEF Got, Page
    <3>3. g \in PageStates
      <4> HIDE DEF g
      <4>1. pages'[Len(pages) + 1] = g /\ Len(pages) + 1 \in DOMAIN pages'
        BY <2>1, <3>2
      <4> QED BY <3>1, <4>1 DEF TsInv, PageSound
    <3> HIDE DEF g
    <3> QED BY <3>1, <3>2, <3>3, GotBounded
  <2>5. CASE UNCHANGED tsVars
    BY <2>5 DEF tsVars, PagesBounded
  <2> QED BY <2>2, <2>3, <2>4, <2>5 DEF TsNext
<1>3. TsInv /\ PagesBounded => TsTypeOK
  <2> SUFFICES ASSUME TsInv, PagesBounded, NEW i \in DOMAIN pages PROVE pages[i].kind \in Kinds /\ pages[i].nextKey <= MaxSamples
    BY DEF PagesBounded, TsTypeOK
  <2>1. PageSound(pages[i]) /\ pages[i] \in PageStates /\ newest <= MaxSamples /\ newest \in Nat /\ MaxSamples \in Nat
    BY TsAssumption DEF TsInv, PageSound, PagesBounded
  <2>2. pages[i].kind \in Kinds /\ pages[i].nextKey \in Nat
    BY <2>1 DEF PageStates
  <2>3. pages[i].nextKey = NoKey \/ pages[i].nextKey <= newest
    BY <2>1 DEF PageSound, Reaches
  <2> QED BY <2>1, <2>2, <2>3 DEF NoKey
<1> QED BY <1>1, <1>2, <1>3, TsStart, TsStep, PTL DEF TsSpec

-----------------------------------------------------------------------------
(* --- All of them together (CloudParts) ------------------------------------------------ *)

\* Following one part and letting the others rest, the system is a behaviour of every
\* part's own specification, so what holds of one by itself holds here.
LEMMA PartsAreSeparate ==
  PartsSpec => ListSpec /\ ObjSpec /\ ViewSpec /\ WriteSpec /\ ManagerSpec /\ EventSpec /\ SdkSpec /\ TsSpec
<1>1. PartsInit => ListInit /\ ObjInit /\ ViewInit /\ WriteInit /\ ManagerInit /\ EventInit /\ SdkInit /\ TsInit
  BY DEF PartsInit
<1> USE DEF partsVars, ListsRest, ObjectsRest, NodeRests, ChannelsRest, EventsRest, SdkRests, SeriesRest
<1>2. [PartsNext]_partsVars => [ListNext]_listVars
  BY DEF PartsNext, listVars
<1>3. [PartsNext]_partsVars => [ObjNext]_objVars
  BY DEF PartsNext, objVars
<1>4. [PartsNext]_partsVars => [ViewNext]_viewVars
  BY DEF PartsNext, viewVars
<1>5. [PartsNext]_partsVars => [WriteNext]_writeVars
  BY DEF PartsNext, writeVars
<1>6. [PartsNext]_partsVars => [ManagerNext]_managerVars
  BY DEF PartsNext, managerVars
<1>7. [PartsNext]_partsVars => [EventNext]_eventVars
  BY DEF PartsNext, eventVars
<1>8. [PartsNext]_partsVars => [SdkNext]_sdkVars
  BY DEF PartsNext, sdkVars
<1>9. [PartsNext]_partsVars => [TsNext]_tsVars
  BY DEF PartsNext, tsVars
<1> QED
  BY <1>1, <1>2, <1>3, <1>4, <1>5, <1>6, <1>7, <1>8, <1>9, PTL
  DEF PartsSpec, ListSpec, ObjSpec, ViewSpec, WriteSpec, ManagerSpec, EventSpec, SdkSpec, TsSpec

\* Every part keeps its variables in their types and its counters in their bounds: an
\* automation has no more actions than it may, an order no channel twice, a write is
\* of no session to come, and a result follows one that came before it.
THEOREM CloudTypes == PartsSpec => []CloudTypeOK
<1>1. ListTypeOK /\ ObjTypeOK /\ ViewTypeOK /\ WriteTypeOK /\ ManagerTypeOK /\ EventTypeOK /\ SdkTypeOK /\ TsTypeOK => CloudTypeOK
  BY DEF CloudTypeOK
<1> QED
  BY <1>1, PartsAreSeparate, ListTypes, ObjTypes, ViewTypes, WriteTypes, ManagerTypes, EventTypes, SdkTypes, TsTypes, PTL

\* The promises of the single parts, kept by the system of them all.
THEOREM PartsKeepTheirPromises ==
  PartsSpec =>
    /\ [](ObjectsMirrorCloud /\ NodeMirrorsStore /\ WritesGoWhereAsked /\ SubscriptionsAreKept /\ EventsLeaveNothing)
    /\ [](SdkIsWhole /\ ConnectedIsSignedIn /\ PagesAreWhole)
    /\ ListsAreKept
<1> QED
  BY PartsAreSeparate, ObjectsMirror, ViewIsKept, WritesAreTrue, SubscriptionsStayKept, EventsTidy, SdkIsAlwaysWhole,
     ConnectedStaysSignedIn, PagesStayWhole, ListsStayKept, PTL

(* --- Values of any content: SignedRequests, AccountCalls, NodeValues ----------------- *)

LEMMA SameHmac ==
  ASSUME NEW k, NEW x, NEW l, NEW y
  PROVE  Hmac(k, x) = Hmac(l, y) <=> k = l /\ x = y
  BY DEF Hmac

LEMMA SameHash ==
  ASSUME NEW x, NEW y
  PROVE  Sha256(x) = Sha256(y) <=> x = y
  BY DEF Sha256

\* A request is accepted exactly when it was signed with the account's secret and came
\* as it was written, up to the order and the spelling of its query, with the headers it
\* was signed with, the time among them.
THEOREM OnlyWhatWasSigned ==
  ASSUME NEW creds, NEW time, NEW region, NEW method, NEW host, NEW path, NEW query, NEW body, NEW extra,
         NEW secret, NEW came,
         came.authorization = SignedRequest(creds, time, region, method, host, path, query, body, extra).authorization
  PROVE  ServiceAccepts(came, secret) <=>
           /\ secret = creds.secretKey
           /\ came.method = method /\ came.path = Pathname(path) /\ came.body = body
           /\ CanonicalQuery(came.query) = CanonicalQuery(query)
           /\ came.headers["x-amz-date"] = time
           /\ \A name \in Own \cup DOMAIN extra :
                came.headers[name] = RequestHeaders(creds, time, host, extra)[name]
<1> DEFINE headers == RequestHeaders(creds, time, host, extra)
           names == SignedHeaders(headers)
           scope == Scope(DateStamp(time), region, "execute-api")
           a == came.authorization
           sent == Pathname(path)
           qw == CanonicalQuery(query)
           qc == CanonicalQuery(came.query)
           hw == CanonicalHeaders(headers, names)
           hc == CanonicalHeaders(came.headers, names)
           written == <<method, sent, qw, hw, names, Sha256(body)>>
           arrived == <<came.method, came.path, qc, hc, names, Sha256(came.body)>>
           key == Hmac(Hmac(Hmac(Hmac("AWS4", creds.secretKey), DateStamp(time)), region), "execute-api")
           their == Hmac(Hmac(Hmac(Hmac("AWS4", secret), DateStamp(time)), region), "execute-api")
<1>1. a = [credential |-> creds.accessKey, scope |-> scope, signed |-> names,
           signature |-> Hmac(key, <<"AWS4-HMAC-SHA256", time, scope, Sha256(written)>>)]
  BY DEF SignedRequest, AuthHeader, AuthorizationHeader, CalculateSignature, StringToSign, CanonicalRequest
<1>2. scope = <<DateStamp(time), region, "execute-api", "aws4_request">>
  BY DEF Scope
<1>3. ServiceAccepts(came, secret) <=>
        /\ DateStamp(time) = came.headers["x-amz-date"][1]
        /\ Hmac(key, <<"AWS4-HMAC-SHA256", time, scope, Sha256(written)>>)
             = Hmac(their, <<"AWS4-HMAC-SHA256", came.headers["x-amz-date"], scope, Sha256(arrived)>>)
  <2>1. a.scope = scope /\ a.signed = names
        /\ a.signature = Hmac(key, <<"AWS4-HMAC-SHA256", time, scope, Sha256(written)>>)
    <3> HIDE DEF scope, names, headers, written, key, a
    <3> QED BY <1>1
  <2>2. scope[1] = DateStamp(time) /\ scope[2] = region /\ scope[3] = "execute-api"
    BY <1>2
  <2> HIDE DEF scope, names, headers, written, key, qc
  <2> QED BY <2>1, <2>2 DEF ServiceAccepts, qc
<1>4. key = their <=> creds.secretKey = secret
  BY SameHmac
<1>5. hw = hc <=> \A name \in Own \cup DOMAIN extra : came.headers[name] = headers[name]
  <2>1. names = Own \cup DOMAIN extra
    BY DEF SignedHeaders, RequestHeaders
  <2>2. hw = [name \in names |-> headers[name]] /\ hc = [name \in names |-> came.headers[name]]
    BY DEF CanonicalHeaders
  <2> HIDE DEF headers, names, hw, hc
  <2>3. hw = hc => \A name \in names : hw[name] = hc[name]
    BY Zenon
  <2>4. \A name \in names : hw[name] = headers[name] /\ hc[name] = came.headers[name]
    BY <2>2
  <2>5. (\A name \in names : headers[name] = came.headers[name]) => hw = hc
    BY <2>2
  <2> QED BY <2>1, <2>3, <2>4, <2>5
<1>6. written = arrived <=>
        /\ method = came.method /\ sent = came.path /\ qw = qc /\ hw = hc /\ Sha256(body) = Sha256(came.body)
  <2> HIDE DEF names, headers, sent, qw, qc, hw, hc
  <2> QED OBVIOUS
<1>7. ASSUME NEW x, NEW y, NEW t
      PROVE  Hmac(key, <<"AWS4-HMAC-SHA256", time, scope, Sha256(x)>>)
               = Hmac(their, <<"AWS4-HMAC-SHA256", t, scope, Sha256(y)>>) <=> key = their /\ time = t /\ x = y
  <2> HIDE DEF key, their, scope
  <2>1. <<"AWS4-HMAC-SHA256", time, scope, Sha256(x)>> = <<"AWS4-HMAC-SHA256", t, scope, Sha256(y)>>
          <=> time = t /\ Sha256(x) = Sha256(y)
    OBVIOUS
  <2> QED BY <2>1, SameHash, SameHmac
<1>8. came.headers["x-amz-date"] = time => DateStamp(time) = came.headers["x-amz-date"][1]
  BY DEF DateStamp
<1>9. ServiceAccepts(came, secret) <=>
        /\ creds.secretKey = secret /\ time = came.headers["x-amz-date"]
        /\ method = came.method /\ sent = came.path /\ qw = qc /\ hw = hc /\ body = came.body
  <2> HIDE DEF headers, names, scope, sent, qw, qc, hw, hc, written, arrived, key, their
  <2> QED BY <1>3, <1>4, <1>6, <1>7, <1>8, SameHash
<1>10. (hw = hc) <=> \A name \in Own \cup DOMAIN extra : came.headers[name] = RequestHeaders(creds, time, host, extra)[name]
  <2> HIDE DEF hw, hc
  <2> QED BY <1>5
<1> HIDE DEF names, hw, hc
<1> QED BY <1>9, <1>10

\* Values of any content, of the form the samples have.
AnyCreds == [about : {"creds"}, accessKey : STRING, secretKey : STRING \ {""}, sessionToken : STRING,
             expiration : Nat \cup {NoNumber}, age : Nat]
AnyAnswer == [about : {"answer"}, status : {0} \cup 200..599, text : STRING, message : STRING, error : STRING]
AnyAccount ==
  [about : {"account"}, username : STRING \ {""}, email : STRING, phone : STRING, token : STRING,
   tokens : SUBSET {"access", "id", "refresh"},
   response : [status : {0} \cup 200..599, text : STRING, message : STRING, error : STRING]]
AnyParam == [id : STRING \ {""}, type : STRING, data_type : STRING, dataType : STRING, ui_type : STRING, uiType : STRING]
AnyConfig == [about : {"config"}, first : AnyParam, second : AnyParam, primary : STRING]
AnyReport == [is : {TRUE}, params : {<<>>} \cup {<<names>> : names \in SUBSET STRING}, online : {"", "true", "false"}, ncfg : STRING]
AnyUpdate == [about : {"update"}, topic : ShadowSuffixes, reports : AnyReport, connected : BOOLEAN]

\* Expiry by the number the cloud gives, -1 for none.
LEMMA ExpiryOf ==
  ASSUME NEW e, e \in Nat \/ e = NoNumber, NEW now \in Nat
  PROVE  LET until == IF e > 0 THEN e ELSE 1000 + 3600
             expiration == IF e \in {NoNumber, 0} THEN 1000 + 3600 ELSE e
         IN AreCredentialsExpired(expiration, now) <=> until - now <= CredsBuffer
<1> DEFINE until == IF e > 0 THEN e ELSE 1000 + 3600
           expiration == IF e \in {NoNumber, 0} THEN 1000 + 3600 ELSE e
<1>1. expiration = until /\ until \in Nat
  <2>1. CASE e = NoNumber
    BY <2>1 DEF NoNumber
  <2>2. CASE e \in Nat
    BY <2>2 DEF NoNumber
  <2> QED BY <2>1, <2>2
<1>2. ASSUME NEW u \in Nat PROVE AreCredentialsExpired(u, now) <=> u - now <= CredsBuffer
  BY <1>2 DEF AreCredentialsExpired, NoNumber, NaN, CredsBuffer
<1> HIDE DEF until, expiration
<1>3. AreCredentialsExpired(expiration, now) <=> until - now <= CredsBuffer
  BY <1>1, <1>2
<1> QED BY <1>3 DEF until, expiration

LEMMA CredentialsAlwaysLast == \A s \in AnyCreds : CredentialsLast(s)
<1> SUFFICES ASSUME NEW s \in AnyCreds PROVE CredentialsLast(s)
  OBVIOUS
<1> DEFINE creds == ExtractTemporaryCredentials(s, 1000)
           until == IF s.expiration > 0 THEN s.expiration ELSE 1000 + 3600
           expiration == IF s.expiration \in {NoNumber, 0} THEN 1000 + 3600 ELSE s.expiration
           complete == s.accessKey # "" /\ s.sessionToken # ""
<1>1. s.age \in Nat /\ (s.expiration \in Nat \/ s.expiration = NoNumber) /\ s.secretKey # ""
  BY DEF AnyCreds
<1> DEFINE now == 1000 + s.age
<1>3. now \in Nat
  <2>1. s.age \in Nat
    BY <1>1
  <2>2. \A a \in Nat : 1000 + a \in Nat
    OBVIOUS
  <2> QED BY <2>1, <2>2
<1>4. AreCredentialsExpired(expiration, now) <=> until - now <= CredsBuffer
  <2>1. s.expiration \in Nat \/ s.expiration = NoNumber
    BY <1>1
  <2> HIDE DEF now
  <2> QED BY <2>1, <1>3, ExpiryOf
<1>7. AreCredentialsExpired(NaN, 1000) /\ AreCredentialsExpired(NoNumber, 1000)
  BY DEF AreCredentialsExpired
<1>8. (creds.ok <=> complete) /\ (creds.ok => creds.expiration = expiration)
  <2>1. complete => creds = [ok |-> TRUE, expiration |-> expiration]
    BY <1>1 DEF ExtractTemporaryCredentials
  <2>2. ~complete => creds.ok = FALSE
    BY DEF ExtractTemporaryCredentials
  <2>4. \A e : [ok |-> TRUE, expiration |-> e].ok = TRUE /\ [ok |-> TRUE, expiration |-> e].expiration = e
    OBVIOUS
  <2>3. complete => creds.ok = TRUE /\ creds.expiration = expiration
    <3> HIDE DEF expiration, creds
    <3> QED BY <2>1, <2>4, Zenon
  <2> HIDE DEF creds, expiration, complete
  <2> QED BY <2>2, <2>3
<1>9. CredentialsLast(s) <=>
        /\ creds.ok <=> complete
        /\ creds.ok => (AreCredentialsExpired(creds.expiration, 1000 + s.age) <=> until - (1000 + s.age) <= CredsBuffer)
        /\ AreCredentialsExpired(NaN, 1000) /\ AreCredentialsExpired(NoNumber, 1000)
  BY Zenon DEF CredentialsLast
<1> HIDE DEF creds, until, expiration, complete
<1> QED BY <1>4, <1>7, <1>8, <1>9

LEMMA AnswersAlwaysAgree == \A s \in AnyAnswer : AnswersAgree(s)
<1> SUFFICES ASSUME NEW s \in AnyAnswer, s.status # 0 PROVE AnswersAgree(s)
  BY DEF AnswersAgree
<1> DEFINE user == UserApiOutcome(s)
           other == SignedOutcome(s)
           creds == CredentialsOutcome(s)
           why == CredentialsErrorMessage(Said(s), s.text)
           first == First(First(Said(s).message, Said(s).error), "HTTP error")
<1>1. s.status \in 200..599
  BY DEF AnyAnswer
<1>2. first # "" /\ why # ""
  BY DEF First, CredentialsErrorMessage
<1>3. /\ user.ok = other.ok /\ user.status = other.status
      /\ user.ok <=> s.status < 300 /\ Readable(s.text)
      /\ ~user.ok /\ Readable(s.text) => user.status = s.status
      /\ ~user.ok => user.message # ""
  <2> HIDE DEF first
  <2>1. CASE ~Readable(s.text)
    BY <1>1, <2>1 DEF UserApiOutcome, SignedOutcome, ParseJsonResponse
  <2>2. CASE Readable(s.text) /\ s.status < 300
    <3>1. user = [ok |-> TRUE, status |-> s.status, message |-> ""]
      BY <1>1, <2>2 DEF UserApiOutcome, ParseJsonResponse
    <3>2. other.ok = TRUE /\ other.status = s.status
      BY <1>1, <2>2 DEF SignedOutcome
    <3>3. user.ok = TRUE /\ user.status = s.status
      <4> HIDE DEF user
      <4> QED BY <3>1
    <3> HIDE DEF user, other
    <3> QED BY <2>2, <3>2, <3>3
  <2>3. CASE Readable(s.text) /\ ~(s.status < 300)
    <3>1. user = [ok |-> FALSE, status |-> s.status, message |-> first]
      BY <1>1, <2>3 DEF UserApiOutcome, ParseJsonResponse, first
    <3>2. other.ok = FALSE /\ other.status = s.status
      BY <1>1, <2>3 DEF SignedOutcome
    <3>3. user.ok = FALSE /\ user.status = s.status /\ user.message = first
      <4> HIDE DEF user
      <4> QED BY <3>1
    <3> HIDE DEF user, other
    <3> QED BY <1>2, <2>3, <3>2, <3>3
  <2> QED BY <2>1, <2>2, <2>3
<1>4. s.status = 401 /\ (IF s.text = "json" THEN s.message = "expired" ELSE s.text = "expired") => why = "expired"
  <2>1. "expired" # "" /\ "expired" # " " /\ "json" # "expired"
    OBVIOUS
  <2>2. CASE s.text = "json" /\ s.message = "expired"
    BY <2>1, <2>2 DEF CredentialsErrorMessage, Said, First, Trimmed
  <2>3. CASE s.text = "expired"
    BY <2>1, <2>3 DEF CredentialsErrorMessage, Said, First, Trimmed
  <2> QED BY <2>2, <2>3
<1>5. /\ creds.status = s.status /\ (~creds.ok => creds.message # "")
      /\ creds.refresh => s.status = 401
      /\ s.status = 401 /\ why = "expired" => creds.refresh
  <2> HIDE DEF why
  <2>1. CASE s.status < 300
    <3>1. s.status \in 1..299 /\ s.status # 401
      BY <1>1, <2>1
    <3>2. creds = [ok |-> TRUE, status |-> s.status, message |-> "", refresh |-> FALSE]
      BY <3>1 DEF CredentialsOutcome
    <3>3. creds.ok = TRUE /\ creds.status = s.status /\ creds.refresh = FALSE
      <4> HIDE DEF creds
      <4> QED BY <3>2
    <3> HIDE DEF creds
    <3> QED BY <3>1, <3>3
  <2>2. CASE ~(s.status < 300)
    <3>1. ~(s.status \in 1..299) /\ s.status # 0
      BY <1>1, <2>2
    <3>2. creds = [ok |-> FALSE, status |-> s.status, message |-> why, refresh |-> IsExpiredTokenAuthError(s.status, why)]
      BY <3>1 DEF CredentialsOutcome, why
    <3>3. creds.status = s.status /\ creds.message = why /\ creds.refresh = (s.status = 401 /\ why = "expired")
      <4> HIDE DEF creds
      <4> QED BY <3>2 DEF IsExpiredTokenAuthError
    <3> HIDE DEF creds
    <3> QED BY <1>2, <3>3
  <2> QED BY <2>1, <2>2
<1> HIDE DEF user, other, creds, why
<1> QED BY <1>3, <1>4, <1>5 DEF AnswersAgree, user, other, creds

LEMMA AccountsAreAlwaysServed == \A s \in AnyAccount : AccountIsServed(s)
<1> SUFFICES ASSUME NEW s \in AnyAccount PROVE AccountIsServed(s)
  OBVIOUS
<1> DEFINE out == UserApiOutcome(s.response)
           signup == SignupRequest(s.username, [email |-> s.email, phone |-> s.phone])
           verify == VerifyRequest(s.username)
           answers == {SendSignUpCode(s.response), ConfirmSignUp(s.response), ForgotPassword(s.response), SetNewPassword(s.response)}
           sessions == {Login(s.tokens, s.response), GetRefreshedTokens(s.tokens, s.response)}
<1>0. s.username # "" /\ s.tokens \in SUBSET {"access", "id", "refresh"} /\ s.response.status \in {0} \cup 200..599
  BY DEF AnyAccount
<1>1. out.ok \in BOOLEAN /\ (~out.ok => out.message # "")
  <2>1. First(First(Said(s.response).message, Said(s.response).error), "HTTP error") # ""
    BY DEF First
  <2> QED BY <1>0, <2>1 DEF UserApiOutcome, ParseJsonResponse
<1>2. /\ (IF IsPhoneUsername(s.username) THEN s.phone ELSE s.email) \in {"", s.username} =>
           (verify.email # "" => signup.email = verify.email) /\ (verify.phone # "" => signup.phone = verify.phone)
      /\ signup.email # "" \/ signup.phone # ""
  <2>1. signup.email = First(s.email, verify.email) /\ signup.phone = First(s.phone, verify.phone)
    BY DEF SignupRequest, VerifyRequest
  <2>2. CASE IsPhoneUsername(s.username)
    <3>1. verify.email = "" /\ verify.phone = s.username
      BY <2>2 DEF VerifyRequest, SignupIdentity
    <3> HIDE DEF signup, verify
    <3> QED BY <1>0, <2>1, <2>2, <3>1 DEF First
  <2>3. CASE ~IsPhoneUsername(s.username)
    <3>1. verify.email = s.username /\ verify.phone = ""
      BY <2>3 DEF VerifyRequest, SignupIdentity
    <3> HIDE DEF signup, verify
    <3> QED BY <1>0, <2>1, <2>3, <3>1 DEF First
  <2> QED BY <2>2, <2>3
<1>3. ASSUME NEW code, code # "", NEW message
      PROVE  (Posted(code, s.response, message).ok <=> out.ok)
             /\ (~Posted(code, s.response, message).ok => Posted(code, s.response, message).code # "" /\ Posted(code, s.response, message).message # "")
  <2> HIDE DEF out
  <2>1. Posted(code, s.response, message) = IF out.ok THEN Answer(message) ELSE AuthError(code, out.message)
    BY DEF Posted, Wrapped, out
  <2>2. CASE out.ok
    <3>0. Posted(code, s.response, message) = Answer(message)
      BY <2>1, <2>2
    <3>4. Answer(message).ok = TRUE
      BY DEF Answer
    <3>1. Posted(code, s.response, message).ok = TRUE
      BY <3>0, <3>4, Zenon
    <3> QED BY <2>2, <3>1
  <2>3. CASE ~out.ok
    <3>0. Posted(code, s.response, message) = AuthError(code, out.message)
      BY <2>1, <2>3
    <3>1. Posted(code, s.response, message).ok = FALSE /\ Posted(code, s.response, message).code = code
          /\ Posted(code, s.response, message).message = out.message
      BY <3>0 DEF AuthError
    <3> QED BY <1>1, <1>3, <2>3, <3>1
  <2> QED BY <2>2, <2>3
<1>4. \A a \in answers : (a.ok <=> out.ok) /\ (~a.ok => a.code # "" /\ a.message # "")
  <2> HIDE DEF out
  <2>1. ASSUME NEW a \in answers
        PROVE  \E code, message : code # "" /\ a = Posted(code, s.response, message)
    BY <2>1 DEF SendSignUpCode, ConfirmSignUp, ForgotPassword, SetNewPassword
  <2> QED BY <1>3, <2>1
<1>5. ChangePassword(s.token, s.response).ok <=> out.ok /\ s.token # ""
  <2> HIDE DEF out
  <2>1. CASE s.token = ""
    BY <2>1 DEF ChangePassword, AuthError
  <2>2. CASE s.token # ""
    BY <1>3, <2>2 DEF ChangePassword
  <2> QED BY <2>1, <2>2
<1>6. \A session \in sessions :
        (session.error = "" <=> session.tokens = {"access", "id", "refresh"}) /\ (session.error = "" => out.ok /\ {"access", "id"} \subseteq s.tokens)
  <2> HIDE DEF out
  <2>0. {} # {"access", "id", "refresh"}
    OBVIOUS
  <2>1. Login(s.tokens, s.response) =
          IF ~out.ok THEN [tokens |-> {}, error |-> "LOGIN_FAILED"]
          ELSE IF ~{"access", "id", "refresh"} \subseteq s.tokens THEN [tokens |-> {}, error |-> "LOGIN_FAILED_MISSING_TOKENS"]
          ELSE [tokens |-> {"access", "id", "refresh"}, error |-> ""]
    BY <1>1 DEF Login, out
  <2>2. GetRefreshedTokens(s.tokens, s.response) =
          IF ~out.ok THEN [tokens |-> {}, error |-> out.message]
          ELSE IF ~{"access", "id"} \subseteq s.tokens THEN [tokens |-> {}, error |-> "TOKEN_REFRESH_FAILED_MISSING_TOKENS"]
          ELSE [tokens |-> {"access", "id", "refresh"}, error |-> ""]
    BY <1>1 DEF GetRefreshedTokens, out
  <2> DEFINE Good(session) ==
        (session.error = "" <=> session.tokens = {"access", "id", "refresh"}) /\ (session.error = "" => out.ok /\ {"access", "id"} \subseteq s.tokens)
  <2>3. Good(Login(s.tokens, s.response))
    <3> DEFINE session == Login(s.tokens, s.response)
    <3>1. \/ out.ok /\ {"access", "id"} \subseteq s.tokens
             /\ session.error = "" /\ session.tokens = {"access", "id", "refresh"}
          \/ session.error # "" /\ session.tokens = {}
      <4> DEFINE all == [tokens |-> {"access", "id", "refresh"}, error |-> ""]
      <4>1. all.error = "" /\ all.tokens = {"access", "id", "refresh"}
        OBVIOUS
      <4>2. \A why : [tokens |-> {}, error |-> why].error = why /\ [tokens |-> {}, error |-> why].tokens = {}
        OBVIOUS
      <4>3. "LOGIN_FAILED" # "" /\ "LOGIN_FAILED_MISSING_TOKENS" # "" /\ "TOKEN_REFRESH_FAILED_MISSING_TOKENS" # ""
        OBVIOUS
      <4>4. \/ \E why : why # "" /\ session = [tokens |-> {}, error |-> why]
            \/ session = all /\ out.ok /\ {"access", "id"} \subseteq s.tokens
        BY <1>1, <2>1, <4>3
      <4> HIDE DEF all, session
      <4> QED BY <4>1, <4>2, <4>4
    <3> HIDE DEF session
    <3>2. Good(session)
      BY <2>0, <3>1
    <3> QED BY <3>2 DEF session
  <2>4. Good(GetRefreshedTokens(s.tokens, s.response))
    <3> DEFINE session == GetRefreshedTokens(s.tokens, s.response)
    <3>1. \/ out.ok /\ {"access", "id"} \subseteq s.tokens
             /\ session.error = "" /\ session.tokens = {"access", "id", "refresh"}
          \/ session.error # "" /\ session.tokens = {}
      <4> DEFINE all == [tokens |-> {"access", "id", "refresh"}, error |-> ""]
      <4>1. all.error = "" /\ all.tokens = {"access", "id", "refresh"}
        OBVIOUS
      <4>2. \A why : [tokens |-> {}, error |-> why].error = why /\ [tokens |-> {}, error |-> why].tokens = {}
        OBVIOUS
      <4>3. "LOGIN_FAILED" # "" /\ "LOGIN_FAILED_MISSING_TOKENS" # "" /\ "TOKEN_REFRESH_FAILED_MISSING_TOKENS" # ""
        OBVIOUS
      <4>4. \/ \E why : why # "" /\ session = [tokens |-> {}, error |-> why]
            \/ session = all /\ out.ok /\ {"access", "id"} \subseteq s.tokens
        BY <1>1, <2>2, <4>3
      <4> HIDE DEF all, session
      <4> QED BY <4>1, <4>2, <4>4
    <3> HIDE DEF session
    <3>2. Good(session)
      BY <2>0, <3>1
    <3> QED BY <3>2 DEF session
  <2> QED BY <2>3, <2>4
<1> HIDE DEF signup, verify, answers, sessions, out
<1> QED BY <1>2, <1>4, <1>5, <1>6 DEF AccountIsServed, signup, verify, answers, sessions, out

LEMMA ConfigsAreAlwaysKept == \A s \in AnyConfig : ConfigIsKept(s)
<1> SUFFICES ASSUME NEW s \in AnyConfig PROVE ConfigIsKept(s)
  OBVIOUS
<1>1. s.first \in AnyParam /\ s.second \in AnyParam
  BY DEF AnyConfig
<1>2. ASSUME NEW p \in AnyParam
      PROVE  /\ TransformParam(Cached(TransformParam(p))) = TransformParam(p)
             /\ TransformServiceParam(Cached(TransformParam(p))) = TransformServiceParam(p)
  <2>1. p.id # ""
    BY DEF AnyParam
  <2> QED BY <2>1 DEF TransformParam, TransformServiceParam, Cached, Or
<1> DEFINE params == <<s.first, s.second>>
           wire == [id |-> "a", type |-> "", primary |-> s.primary, params |-> params]
           named == {i \in DOMAIN wire.params : wire.params[i].id = wire.primary /\ \A j \in 1..(i - 1) : wire.params[j].id # wire.primary}
           d == TransformDevice(wire)
<1>3. DOMAIN params = 1..2 /\ params[1] = s.first /\ params[2] = s.second /\ params # <<>>
  OBVIOUS
<1>11. wire.params = params /\ wire.primary = s.primary
  OBVIOUS
<1>4. d.primary = PrimaryParam(wire)
  BY DEF TransformDevice
<1>12. /\ wire.primary # "" /\ named = {} => PrimaryParam(wire) = 0
       /\ wire.primary # "" /\ named # {} => PrimaryParam(wire) \in named
       /\ wire.primary = "" /\ wire.params # <<>> => PrimaryParam(wire) = 1
  <2> HIDE DEF wire
  <2>1. CASE wire.primary # "" /\ named = {}
    BY <2>1 DEF PrimaryParam
  <2>2. CASE wire.primary # "" /\ named # {}
    <3>1. PrimaryParam(wire) = CHOOSE i \in named : TRUE
      BY <2>2, Zenon DEF PrimaryParam
    <3> HIDE DEF named
    <3> QED BY <2>2, <3>1
  <2>3. CASE wire.primary = "" /\ wire.params # <<>>
    BY <2>3 DEF PrimaryParam
  <2> QED BY <2>1, <2>2, <2>3
<1>5. d.params[1].id = s.first.id /\ d.params[2].id = s.second.id
  <2>1. d.params = [i \in 1..2 |-> TransformParam(params[i])]
    BY <1>3 DEF TransformDevice
  <2> HIDE DEF d, params
  <2>2. d.params[1] = TransformParam(s.first) /\ d.params[2] = TransformParam(s.second)
    BY <1>3, <2>1
  <2> QED BY <2>2 DEF TransformParam
<1>6. named = {} <=> s.primary \notin {s.first.id, s.second.id}
  <2>1. 1 \in 1..2 /\ 2 \in 1..2 /\ (\A i \in 1..2 : i = 1 \/ i = 2) /\ 1..(1 - 1) = {} /\ 1..(2 - 1) = {1}
    OBVIOUS
  <2>2. wire.params = params /\ wire.primary = s.primary
    OBVIOUS
  <2> HIDE DEF params, wire
  <2> QED BY <1>3, <2>1, <2>2
<1>7. \A i \in named : i \in 1..2 /\ i # 0 /\ params[i].id = s.primary
  <2>2. wire.params = params /\ wire.primary = s.primary
    OBVIOUS
  <2> HIDE DEF params, wire
  <2> QED BY <1>3, <2>2
<1>8. /\ s.primary # "" /\ named = {} => d.primary = 0
      /\ s.primary # "" /\ named # {} => d.primary \in named
      /\ s.primary = "" => d.primary = 1
  <2> HIDE DEF d, named, params, wire
  <2> QED BY <1>3, <1>4, <1>11, <1>12, Zenon
<1>9. d.primary = 0 <=> s.primary # "" /\ s.primary \notin {s.first.id, s.second.id}
  <2> HIDE DEF d, named, params
  <2>1. 1 # 0
    OBVIOUS
  <2> QED BY <1>6, <1>7, <1>8, <2>1, Zenon
<1>10. d.primary # 0 /\ s.primary # "" => d.params[d.primary].id = s.primary
  <2> HIDE DEF d, named, params
  <2>1. \A i \in 1..2 : d.params[i].id = params[i].id
    BY <1>3, <1>5
  <2> QED BY <1>7, <1>8, <2>1, Zenon
<1> HIDE DEF d, named
<1> QED BY <1>1, <1>2, <1>9, <1>10 DEF ConfigIsKept, d

LEMMA UpdatesAreAlwaysWhole == \A s \in AnyUpdate : UpdateIsWhole(s)
<1> SUFFICES ASSUME NEW s \in AnyUpdate PROVE UpdateIsWhole(s)
  OBVIOUS
<1>1. LiveMessage(s.topic, Message(s.topic, s.reports)) = s.reports
  BY DEF LiveMessage, Message
<1>2. NodeUpdate("n", s.reports).shadow = s.reports /\ NodeUpdate("n", s.reports).payload = ReportedParams(s.reports)
  BY DEF NodeUpdate
<1>3. TakenOf(NodeUpdate("n", s.reports), s.connected).params = Extract(s.reports).params
      /\ TakenOf(NodeUpdate("n", s.reports), s.connected).connected
           = IF s.reports.online = "" THEN s.connected ELSE Extract(s.reports).isConnected
  BY <1>2 DEF TakenOf
<1> QED BY <1>1, <1>2, <1>3 DEF UpdateIsWhole, ReportedParams, Extract

\* However an object is updated, it shows what one shows that is made of the merged
\* parameters, from any values it had before.
LEMMA UpdatesMerge ==
  ASSUME NEW values, NEW earlier, NEW later
  PROVE  ApplyMap(ApplyMap(values, earlier), later) = ApplyMap(values, MergeMaps(earlier, later))
<1> DEFINE merged == MergeMaps(earlier, later)
           Shows(vs, map, i) == IF Entity[i].name \in DOMAIN map /\ Meant(Entity[i].name) = i
                                THEN ApplyValuesToParams(vs[i], map[Entity[i].name]) ELSE vs[i]
<1>1. ASSUME NEW vs, NEW map PROVE ApplyMap(vs, map) = [i \in DOMAIN Entity |-> Shows(vs, map, i)]
  BY DEF ApplyMap
<1>2. DOMAIN merged = DOMAIN earlier \cup DOMAIN later
      /\ \A name \in DOMAIN merged :
           /\ name \notin DOMAIN earlier => merged[name] = later[name]
           /\ name \notin DOMAIN later => merged[name] = earlier[name]
           /\ name \in DOMAIN earlier \cap DOMAIN later =>
                merged[name] = [id \in DOMAIN earlier[name] \cup DOMAIN later[name] |->
                                  IF id \in DOMAIN later[name] THEN later[name][id] ELSE earlier[name][id]]
  BY DEF MergeMaps
<1> HIDE DEF merged
<1> DEFINE Both(e, l) == [id \in DOMAIN e \cup DOMAIN l |-> IF id \in DOMAIN l THEN l[id] ELSE e[id]]
<1>3. \A f, e, l : ApplyValuesToParams(ApplyValuesToParams(f, e), l) = ApplyValuesToParams(f, Both(e, l))
  BY DEF ApplyValuesToParams
<1>4. ASSUME NEW i \in DOMAIN Entity PROVE Shows(ApplyMap(values, earlier), later, i) = Shows(values, merged, i)
  <2>1. ApplyMap(values, earlier)[i] = Shows(values, earlier, i)
    BY <1>1
  <2> DEFINE name == Entity[i].name
             m == Meant(Entity[i].name) = i
  <2>2. Shows(values, earlier, i) = IF name \in DOMAIN earlier /\ m THEN ApplyValuesToParams(values[i], earlier[name]) ELSE values[i]
    OBVIOUS
  <2>3. Shows(values, merged, i) = IF name \in DOMAIN merged /\ m THEN ApplyValuesToParams(values[i], merged[name]) ELSE values[i]
    OBVIOUS
  <2>4. Shows(ApplyMap(values, earlier), later, i)
          = IF name \in DOMAIN later /\ m THEN ApplyValuesToParams(Shows(values, earlier, i), later[name]) ELSE Shows(values, earlier, i)
    BY <2>1
  <2> HIDE DEF name, m, Shows
  <2>5. CASE name \notin DOMAIN earlier
    <3>1. name \in DOMAIN merged <=> name \in DOMAIN later
      BY <1>2, <2>5
    <3>2. name \in DOMAIN later => merged[name] = later[name]
      BY <1>2, <2>5
    <3> QED BY <2>2, <2>3, <2>4, <2>5, <3>1, <3>2
  <2>6. CASE name \in DOMAIN earlier /\ name \notin DOMAIN later
    <3>1. name \in DOMAIN merged /\ merged[name] = earlier[name]
      BY <1>2, <2>6
    <3> QED BY <2>2, <2>3, <2>4, <2>6, <3>1
  <2>7. CASE name \in DOMAIN earlier /\ name \in DOMAIN later
    <3>1. name \in DOMAIN merged /\ merged[name] = [id \in DOMAIN earlier[name] \cup DOMAIN later[name] |->
                                  IF id \in DOMAIN later[name] THEN later[name][id] ELSE earlier[name][id]]
      BY <1>2, <2>7
    <3>2. ApplyValuesToParams(ApplyValuesToParams(values[i], earlier[name]), later[name]) = ApplyValuesToParams(values[i], merged[name])
      <4>1. merged[name] = Both(earlier[name], later[name])
        BY <3>1
      <4> HIDE DEF Both
      <4> QED BY <1>3, <4>1
    <3> QED BY <2>2, <2>3, <2>4, <2>7, <3>1, <3>2
  <2> QED BY <2>5, <2>6, <2>7
<1> HIDE DEF Shows
<1> QED BY <1>1, <1>4 DEF merged

\* What the cloud, an account's calls, a configuration and an update say is taken as it
\* was meant, for values of any content and not only the samples of the runs.
THEOREM ValuesAreAlwaysMeant ==
  /\ \A s \in AnyCreds : CredentialsLast(s)
  /\ \A s \in AnyAnswer : AnswersAgree(s)
  /\ \A s \in AnyAccount : AccountIsServed(s)
  /\ \A s \in AnyConfig : ConfigIsKept(s)
  /\ \A s \in AnyUpdate : UpdateIsWhole(s)
BY CredentialsAlwaysLast, AnswersAlwaysAgree, AccountsAreAlwaysServed, ConfigsAreAlwaysKept, UpdatesAreAlwaysWhole

\* Parameters of a node, whatever they were and whatever they become: updates one by one
\* show what their merged cache shows, and a value set comes back where it was set alone.
THEOREM ParamsAreAlwaysKept ==
  ASSUME NEW V, NEW values \in [DOMAIN Entity -> [Ids -> V]]
  PROVE  /\ \A earlier, later :
              ApplyMap(ApplyMap(values, earlier), later) = ApplyMap(values, MergeMaps(earlier, later))
         /\ \A v : \A i \in DOMAIN Entity, id \in Ids :
              Meant(Entity[i].name) = i =>
                ApplyMap(values, SetValue(i, id, v)) = [values EXCEPT ![i] = [values[i] EXCEPT ![id] = v]]
<1>1. ASSUME NEW earlier, NEW later
      PROVE  ApplyMap(ApplyMap(values, earlier), later) = ApplyMap(values, MergeMaps(earlier, later))
  BY UpdatesMerge
<1>2. ASSUME NEW v, NEW i \in DOMAIN Entity, NEW id \in Ids, Meant(Entity[i].name) = i
      PROVE  ApplyMap(values, SetValue(i, id, v)) = [values EXCEPT ![i] = [values[i] EXCEPT ![id] = v]]
  <2> DEFINE map == SetValue(i, id, v)
  <2>1. DOMAIN map = {Entity[i].name} /\ DOMAIN map[Entity[i].name] = {id} /\ map[Entity[i].name][id] = v
    BY DEF SetValue
  <2> HIDE DEF map
  <2>2. ApplyValuesToParams(values[i], map[Entity[i].name]) = [values[i] EXCEPT ![id] = v]
    BY <2>1 DEF ApplyValuesToParams
  <2>3. \A j \in DOMAIN Entity : Entity[j].name \in DOMAIN map /\ Meant(Entity[j].name) = j => j = i
    BY <1>2, <2>1
  <2>4. ApplyMap(values, map) = [j \in DOMAIN Entity |-> IF j = i THEN [values[i] EXCEPT ![id] = v] ELSE values[j]]
    BY <1>2, <2>1, <2>2, <2>3 DEF ApplyMap
  <2> QED BY <2>4 DEF map
<1> QED BY <1>1, <1>2

===============================================================================
