------------------------------- MODULE NodeLists -------------------------------
(* A node's schedules and its triggers. The cloud keeps each as one list that is  *)
(* only ever replaced whole: creating, updating or removing an item is a GET of   *)
(* the list and a PUT of the changed list (ESPRMNeoNode.createSchedule,           *)
(* removeSchedule, ESPRMNeoSchedule.update and the same of triggers).             *)
(*                                                                                *)
(* One node and one of its lists. An item is its id and two fields that are       *)
(* updated apart; objects are the ESPRMNeoSchedule and ESPRMNeoTrigger instances  *)
(* the app holds. The order of items is left out.                                 *)
EXTENDS Naturals

CONSTANTS
  ItemIds,    \* ids of items
  Holders,    \* the app's objects
  MaxLists,   \* bound: calls made, numbered as they start
  NoItem      \* not in the list; not an object

VARIABLES
  list,    \* the cloud's list: id to item
  object,  \* the app's objects: [id, item], or NoItem
  lcall,   \* the calls
  met      \* two calls have been under way together (history)

listVars == <<list, object, lcall, met>>

Item == [enabled : BOOLEAN, body : BOOLEAN]
Lists == [ItemIds -> Item \cup {NoItem}]
Empty == [i \in ItemIds |-> NoItem]

ListCalls == 1..MaxLists
NoCall == [op |-> "none", step |-> "idle", id |-> NoItem, item |-> NoItem, fields |-> {}, holder |-> NoItem, put |-> Empty]

\* What an update may carry; lists an app may replace the whole with.
Updates == {u \in [fields : {{"enabled"}, {"body"}, {"enabled", "body"}}, item : Item] :
              \A f \in {"enabled", "body"} \ u.fields : ~u.item[f]}
Replacements == {put \in Lists : \E i \in ItemIds : \A j \in ItemIds \ {i} : put[j] = NoItem}

ListInit ==
  /\ list = Empty /\ object = [h \in Holders |-> NoItem] /\ met = FALSE
  /\ lcall = [c \in ListCalls |-> NoCall]

InFlight == {"reading", "writing"}
ListOver == {"done", "failed"}

\* The constructors keep the item's fields; scheduleToItem and triggerToItem give
\* them back.
NewObject(id, item) == [id |-> id, item |-> item]
ToItem(obj) == obj.item

\* The spread of the updates in Schedule.update, mergeTriggerItem in Trigger.update.
MergeItem(base, fields, item) ==
  [enabled |-> IF "enabled" \in fields THEN item.enabled ELSE base.enabled,
   body |-> IF "body" \in fields THEN item.body ELSE base.body]

\* The commit to the instance after the PUT; applyTriggerUpdates.
ApplyUpdates(obj, fields, item) == [obj EXCEPT !.item = MergeItem(obj.item, fields, item)]

(* --- Calls ---------------------------------------------------------------------- *)

StartCall(c, record) ==
  /\ lcall[c].step = "idle" /\ \A d \in 1..(c - 1) : lcall[d].step # "idle"
  /\ lcall' = [lcall EXCEPT ![c] = record]
  /\ met' = (met \/ \E d \in ListCalls : lcall[d].step \in InFlight)
  /\ UNCHANGED <<list, object>>

\* A call that is over keeps nothing but how it ended.
ListEnds(how) == [NoCall EXCEPT !.step = how]

\* createSchedule and createTrigger of one item: checked, then read.
Create(c, id, item, holder) ==
  StartCall(c, [NoCall EXCEPT !.op = "create", !.step = "reading", !.id = id, !.item = item, !.holder = holder])

\* The same of an array: written at once.
Replace(c, put) ==
  StartCall(c, [NoCall EXCEPT !.op = "replace", !.step = "writing", !.put = put])

\* removeAllSchedules and removeAllTriggers.
RemoveAll(c) ==
  StartCall(c, [NoCall EXCEPT !.op = "removeAll", !.step = "writing", !.put = Empty])

\* getSchedules and getTriggers, an item of the answer kept as an object.
Get(c, id, holder) ==
  StartCall(c, [NoCall EXCEPT !.op = "get", !.step = "reading", !.id = id, !.holder = holder])

\* removeSchedule and removeTrigger, by themselves or by delete of an object.
RemoveOne(c, id) ==
  StartCall(c, [NoCall EXCEPT !.op = "remove", !.step = "reading", !.id = id])

DeleteObject(c, h) == object[h] # NoItem /\ RemoveOne(c, object[h].id)

\* update, and enable, which is an update of that field.
Update(c, h, u) ==
  /\ object[h] # NoItem
  /\ StartCall(c, [NoCall EXCEPT !.op = "update", !.step = "reading", !.id = object[h].id,
                                   !.holder = h, !.fields = u.fields, !.item = u.item])

Enable(c, h, on) ==
  \E item \in Item : item.enabled = on /\ ~item.body /\ Update(c, h, [fields |-> {"enabled"}, item |-> item])

\* Mutation: that the answer has no such item is not noticed.
FoundAlways(id) == TRUE

Found(id) == list[id] # NoItem

\* The GET's answer: whether the id is there decides, and the list to PUT is made
\* from it and, for an update, from the object as it is now.
ReadList(c) ==
  /\ lcall[c].step = "reading"
  /\ LET k == lcall[c]
         there == Found(k.id)
         puts(item) == [k EXCEPT !.step = "writing", !.put = [list EXCEPT ![k.id] = item]]
     IN /\ lcall' = [lcall EXCEPT ![c] =
             CASE k.op = "get" -> ListEnds("done")
               [] k.op = "create" /\ ~there -> puts(k.item)
               [] k.op = "remove" /\ there -> puts(NoItem)
               [] k.op = "update" /\ there -> puts(MergeItem(ToItem(object[k.holder]), k.fields, k.item))
               [] OTHER -> ListEnds("failed")]
        /\ object' = IF k.op = "get" /\ there THEN [object EXCEPT ![k.holder] = NewObject(k.id, list[k.id])] ELSE object
  /\ UNCHANGED <<list, met>>

\* Mutation: the object is changed whatever becomes of the PUT.
CommittedAlways(k, answered) == object[k.holder] # NoItem

\* Only an answered PUT changes the app's objects.
Committed(k, answered) == answered

\* The PUT (or DELETE) is refused, is applied, or is applied and the answer lost.
WriteList(c, applied, answered) ==
  /\ lcall[c].step = "writing" /\ (answered => applied)
  /\ LET k == lcall[c] IN
       /\ list' = IF applied THEN k.put ELSE list
       /\ lcall' = [lcall EXCEPT ![c] = ListEnds(IF answered THEN "done" ELSE "failed")]
       /\ object' = CASE k.op = "create" /\ answered -> [object EXCEPT ![k.holder] = NewObject(k.id, k.item)]
                      [] k.op = "update" /\ Committed(k, answered) ->
                           [object EXCEPT ![k.holder] = ApplyUpdates(@, k.fields, k.item)]
                      [] OTHER -> object
  /\ UNCHANGED met

ReadFails(c) ==
  /\ lcall[c].step = "reading"
  /\ lcall' = [lcall EXCEPT ![c] = ListEnds("failed")]
  /\ UNCHANGED <<list, object, met>>

ListProgress(c) == ReadList(c) \/ ReadFails(c) \/ \E applied, answered \in BOOLEAN : WriteList(c, applied, answered)

ListStarts(c) ==
  \/ RemoveAll(c) \/ \E put \in Replacements : Replace(c, put)
  \/ \E id \in ItemIds : RemoveOne(c, id) \/ \E h \in Holders : Get(c, id, h) \/ \E item \in Item : Create(c, id, item, h)
  \/ \E h \in Holders : DeleteObject(c, h) \/ (\E u \in Updates : Update(c, h, u)) \/ \E on \in BOOLEAN : Enable(c, h, on)

ListNext == \E c \in ListCalls : ListStarts(c) \/ ListProgress(c)

ListSpec == ListInit /\ [][ListNext]_listVars

(* --- Properties -------------------------------------------------------------------- *)

ListTypeOK ==
  /\ list \in Lists /\ met \in BOOLEAN
  /\ object \in [Holders -> [id : ItemIds, item : Item] \cup {NoItem}]
  /\ \A c \in ListCalls :
       /\ lcall[c].step \in InFlight \cup ListOver \cup {"idle"} /\ lcall[c].id \in ItemIds \cup {NoItem}
       /\ lcall[c].put \in Lists

\* While calls follow one another, an item is touched by nobody but a call for it,
\* a call that fails has changed nothing it did not ask for, and an update leaves
\* object and cloud agreeing: the object never shows what the cloud did not take
\* ("The instance is mutated only after the API call succeeds"). Calls that meet
\* lose each other's changes ("not safe under concurrent calls").
ListsAreKept ==
  [][~met' =>
       /\ \A c \in ListCalls : lcall[c].step \in InFlight /\ list' # list =>
            \A i \in ItemIds : list'[i] # list[i] => lcall[c].op \in {"replace", "removeAll"} \/ lcall[c].id = i
       /\ \A h \in Holders : object'[h] # object[h] => object'[h].item = list'[object'[h].id]]_listVars
=============================================================================
