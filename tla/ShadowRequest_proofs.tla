------------------------- MODULE ShadowRequest_proofs -------------------------
(***************************************************************************)
(* Proofs about the requests.  Waiting is the invariant they rest on: it   *)
(* ties what a request has on the wire to how far it has come.             *)
(***************************************************************************)
EXTENDS ShadowRequest, TLAPS

BeforeSend == {"idle", "checking", "connecting"}

\* The request-by-request part: its handler is active exactly where its
\* subscribes have been answered, it publishes only when both have, and what
\* it has not sent it cannot be answered.
RequestInv(r) ==
  /\ \/ phase[r] \in {"connecting", "waiting"}
     \/ unanswered[r] # {}
     \/ answer[r] # "none"
     => topic[r] # NoTopic
  /\ phase[r] = "waiting" => active[r] = Verdict \ unanswered[r]
  /\ phase[r] # "waiting" => active[r] = {}
  /\ phase[r] \in BeforeSend => unanswered[r] = {} /\ answer[r] = "none"
  /\ answer[r] # "none" => unanswered[r] = {}
  /\ answer[r] = "delivered" => phase[r] \in Settled

Waiting == \A r \in Requests : RequestInv(r)

IInv == TypeOK /\ PendingIsWaiting /\ Waiting

-----------------------------------------------------------------------------
(* Typing *)

LEMMA TypesStart ==
  ASSUME RequestAssumption, Init
  PROVE  TypeOK
<1> USE DEF RequestAssumption, Init
<1>1. session \in 0..MaxSession /\ born \in 0..session
  OBVIOUS
<1>2. initialized \in BOOLEAN
  BY Zenon
<1>3. /\ nodeMap \in [Nodes -> Shadows \cup {NoShadow}]
      /\ pending \in [Topics -> Requests \cup {NoRequest}]
      /\ phase \in [Requests -> Phase]
  BY DEF Phase
<1>4. topic \in [Requests -> Topics \cup {NoTopic}] /\ mark \in [Requests -> 0..session]
  OBVIOUS
<1>5. /\ unanswered \in [Requests -> SUBSET Verdict]
      /\ active \in [Requests -> SUBSET Verdict]
      /\ answer \in [Requests -> {"none", "coming", "delivered", "lost"}]
  OBVIOUS
<1> QED
  BY <1>1, <1>2, <1>3, <1>4, <1>5 DEF TypeOK

\* Cleaning up keeps the two maps in their ranges.
LEMMA CleanUpType ==
  ASSUME TypeOK, NEW R \in SUBSET Requests, CleanUp(R)
  PROVE  /\ pending' \in [Topics -> Requests \cup {NoRequest}]
         /\ active' \in [Requests -> SUBSET Verdict]
BY DEF CleanUp, TypeOK

LEMMA DeliverType ==
  ASSUME TypeOK, NEW t \in Topics, NEW v \in Verdict, NEW outcome \in Settled,
         Deliver(t, v, outcome)
  PROVE  /\ pending' \in [Topics -> Requests \cup {NoRequest}]
         /\ active' \in [Requests -> SUBSET Verdict]
         /\ phase' \in [Requests -> Phase]
<1> DEFINE heard == {r \in Requests : topic[r] = t /\ v \in active[r]}
<1>1. heard \in SUBSET Requests /\ CleanUp(heard)
  BY DEF Deliver
<1>2. phase' \in [Requests -> Phase]
  BY DEF Deliver, TypeOK, Phase, Settled
<1> QED
  BY <1>1, <1>2, CleanUpType

LEMMA TypesStep ==
  ASSUME RequestAssumption, TypeOK, Waiting, [Next]_vars
  PROVE  TypeOK'
<1> USE DEF lifeVars
<1>1. ASSUME NEW r \in Requests, NEW n \in Nodes, Fetch(r, n)
      PROVE  TypeOK'
  BY <1>1 DEF Fetch, TypeOK, Phase, Topics
<1>2. ASSUME NEW r \in Requests, NotConnected(r) \/ CannotExecute(r)
      PROVE  TypeOK'
  BY <1>2 DEF NotConnected, CannotExecute, Reject, TypeOK, Phase, Settled
<1>3. ASSUME NEW r \in Requests, Execute(r)
      PROVE  TypeOK'
  BY <1>3, RequestAssumption DEF RequestAssumption, Execute, TypeOK, Phase
<1>4. ASSUME NEW r \in Requests, Send(r)
      PROVE  TypeOK'
  <2>1. topic[r] \in Topics
    BY <1>4 DEF Send, Waiting, RequestInv, TypeOK
  <2> QED
    BY <1>4, <2>1, RequestAssumption DEF RequestAssumption, Send, TypeOK, Phase
<1>5. ASSUME NEW r \in Requests, Timeout(r)
      PROVE  TypeOK'
  BY <1>5, CleanUpType, {r} \in SUBSET Requests DEF Timeout, Reject, TypeOK, Phase, Settled
<1>6. ASSUME NEW r \in Requests, NEW v \in Verdict, Subscribed(r, v)
      PROVE  TypeOK'
  BY <1>6 DEF Subscribed, PublishWhenSubscribed, TypeOK
<1>7. ASSUME NEW r \in Requests, NEW v \in Verdict, SubscribeFailed(r, v)
      PROVE  TypeOK'
  BY <1>7, CleanUpType, {r} \in SUBSET Requests DEF SubscribeFailed, TypeOK, Phase, Settled
<1>8. ASSUME NEW r \in Requests, Answered(r)
      PROVE  TypeOK'
  <2>1. PICK v \in Verdict, outcome \in Settled : Deliver(topic[r], v, outcome)
    BY <1>8 DEF Answered
  <2>2. topic[r] \in Topics
    BY <1>8 DEF Answered, Waiting, RequestInv, TypeOK
  <2> QED
    BY <1>8, <2>1, <2>2, DeliverType DEF Answered, TypeOK
<1>9. ASSUME NEW t \in Topics, AnsweredToOthers(t)
      PROVE  TypeOK'
  <2>1. PICK v \in Verdict, outcome \in Settled : Deliver(t, v, outcome)
    BY <1>9 DEF AnsweredToOthers
  <2> QED
    BY <1>9, <2>1, DeliverType DEF AnsweredToOthers, TypeOK
<1>10. ASSUME NEW r \in Requests, AnswerLost(r)
       PROVE  TypeOK'
  BY <1>10 DEF AnswerLost, TypeOK
<1>11. CASE Initialize
  BY <1>11, RequestAssumption DEF RequestAssumption, Initialize, TypeOK
<1>12. CASE EndSession
  BY <1>12, RequestAssumption
     DEF RequestAssumption, EndSession, RejectPending, TypeOK, Phase, Settled
<1>13. ASSUME NEW n \in Nodes, NEW s \in Shadows \cup {NoShadow}, Rebind(n, s)
       PROVE  TypeOK'
  BY <1>13 DEF Rebind, TypeOK
<1>14. CASE UNCHANGED vars
  BY <1>14 DEF vars, TypeOK
<1> QED
  BY <1>1, <1>2, <1>3, <1>4, <1>5, <1>6, <1>7, <1>8, <1>9, <1>10, <1>11, <1>12,
     <1>13, <1>14 DEF Next, Run

-----------------------------------------------------------------------------
(* The requests one by one *)

LEMMA WaitingStart ==
  ASSUME Init
  PROVE  Waiting
BY DEF Init, Waiting, RequestInv, Settled, BeforeSend

\* A step that leaves a request's own state alone keeps its part.
LEMMA Untouched ==
  ASSUME NEW r \in Requests, RequestInv(r),
         phase'[r] = phase[r], topic'[r] = topic[r], active'[r] = active[r],
         unanswered'[r] = unanswered[r], answer'[r] = answer[r]
  PROVE  RequestInv(r)'
BY DEF RequestInv

\* A delivered message settles whom it reaches and leaves the rest.
LEMMA DeliverInv ==
  ASSUME TypeOK, Waiting, NEW t \in Topics, NEW v \in Verdict, NEW outcome \in Settled,
         Deliver(t, v, outcome), UNCHANGED <<topic, unanswered, answer>>
  PROVE  Waiting'
<1> SUFFICES ASSUME NEW q \in Requests
             PROVE  RequestInv(q)'
  BY DEF Waiting
<1>1. RequestInv(q)
  BY DEF Waiting
<1>2. CASE topic[q] = t /\ v \in active[q]
  <2>1. phase'[q] = outcome /\ active'[q] = {}
    BY <1>2 DEF Deliver, CleanUp, TypeOK
  <2>2. unanswered[q] = unanswered'[q] /\ answer[q] = answer'[q] /\ topic[q] = topic'[q]
    OBVIOUS
  <2>3. phase[q] = "waiting" /\ topic[q] # NoTopic
    BY <1>1, <1>2 DEF RequestInv
  <2> QED
    BY <1>1, <2>1, <2>2, <2>3 DEF RequestInv, Settled, BeforeSend
<1>3. CASE ~(topic[q] = t /\ v \in active[q])
  BY <1>1, <1>3, Untouched DEF Deliver, CleanUp, TypeOK
<1> QED
  BY <1>2, <1>3

LEMMA WaitingStep ==
  ASSUME RequestAssumption, IInv, [Next]_vars
  PROVE  Waiting'
<1> USE DEF IInv, lifeVars
<1>1. ASSUME NEW r \in Requests, NEW n \in Nodes, Fetch(r, n)
      PROVE  Waiting'
  BY <1>1 DEF Fetch, TypeOK, Waiting, RequestInv, BeforeSend, Settled
<1>2. ASSUME NEW r \in Requests, NotConnected(r) \/ CannotExecute(r)
      PROVE  Waiting'
  BY <1>2 DEF NotConnected, CannotExecute, Reject, TypeOK, Waiting, RequestInv, BeforeSend, Settled
<1>3. ASSUME NEW r \in Requests, Execute(r)
      PROVE  Waiting'
  BY <1>3 DEF Execute, TypeOK, Waiting, RequestInv, BeforeSend, Settled
<1>4. ASSUME NEW r \in Requests, Send(r)
      PROVE  Waiting'
  BY <1>4 DEF Send, TypeOK, Waiting, RequestInv, BeforeSend, Settled
<1>5. ASSUME NEW r \in Requests, Timeout(r)
      PROVE  Waiting'
  BY <1>5 DEF Timeout, CleanUp, Reject, TypeOK, Waiting, RequestInv, BeforeSend, Settled
<1>6. ASSUME NEW r \in Requests, NEW v \in Verdict, Subscribed(r, v)
      PROVE  Waiting'
  BY <1>6 DEF Subscribed, PublishWhenSubscribed, TypeOK, Waiting, RequestInv, BeforeSend, Settled
<1>7. ASSUME NEW r \in Requests, NEW v \in Verdict, SubscribeFailed(r, v)
      PROVE  Waiting'
  BY <1>7 DEF SubscribeFailed, CleanUp, TypeOK, Waiting, RequestInv, BeforeSend, Settled
<1>8. ASSUME NEW r \in Requests, Answered(r)
      PROVE  Waiting'
  <2>1. PICK v \in Verdict, outcome \in Settled : Deliver(topic[r], v, outcome)
    BY <1>8 DEF Answered
  <2>2. /\ topic[r] \in Topics /\ topic[r] # NoTopic
        /\ phase[r] \notin BeforeSend
        /\ unanswered[r] = {}
        /\ phase[r] = "waiting" => active[r] = Verdict
    BY <1>8 DEF Answered, Waiting, RequestInv, TypeOK
  <2>3. phase'[r] \in Settled
    <3>1. CASE phase[r] = "waiting"
      BY <2>1, <2>2, <3>1 DEF Deliver
    <3>2. CASE phase[r] # "waiting"
      BY <2>1, <2>2, <3>2 DEF Deliver, TypeOK, Phase, BeforeSend
    <3> QED
      BY <3>1, <3>2
  <2>4. \A q \in Requests :
          /\ phase'[q] # phase[q] => phase'[q] \in Settled /\ phase[q] = "waiting" /\ active'[q] = {}
          /\ phase'[q] = phase[q] => active'[q] = active[q]
    BY <2>1 DEF Deliver, CleanUp, TypeOK, Waiting, RequestInv, Settled
  <2>5. ASSUME NEW q \in Requests
        PROVE  RequestInv(q)'
    <3>1. RequestInv(q)
      BY DEF Waiting
    <3>2. /\ topic'[q] = topic[q] /\ unanswered'[q] = unanswered[q]
          /\ q # r => answer'[q] = answer[q]
      BY <1>8 DEF Answered, TypeOK
    <3>3. CASE phase'[q] = phase[q] /\ active'[q] = active[q]
      <4>1. CASE q = r
        BY <2>2, <2>3, <3>1, <3>2, <3>3, <4>1 DEF RequestInv, Settled, BeforeSend
      <4>2. CASE q # r
        BY <3>1, <3>2, <3>3, <4>2, Untouched
      <4> QED
        BY <4>1, <4>2
    <3>4. CASE ~(phase'[q] = phase[q] /\ active'[q] = active[q])
      <4>1. phase'[q] \in Settled /\ phase[q] \notin BeforeSend /\ active'[q] = {}
        BY <2>4, <3>1, <3>4 DEF RequestInv, Settled, BeforeSend
      <4>2. topic'[q] # NoTopic /\ answer'[q] # "none" => unanswered'[q] = {}
        BY <2>2, <3>1, <3>2 DEF RequestInv
      <4> QED
        BY <2>2, <3>1, <3>2, <4>1, <4>2 DEF RequestInv, Settled, BeforeSend
    <3> QED
      BY <3>3, <3>4
  <2> QED
    BY <2>5 DEF Waiting
<1>9. ASSUME NEW t \in Topics, AnsweredToOthers(t)
      PROVE  Waiting'
  BY <1>9, DeliverInv DEF AnsweredToOthers
<1>10. ASSUME NEW r \in Requests, AnswerLost(r)
       PROVE  Waiting'
  BY <1>10 DEF AnswerLost, TypeOK, Waiting, RequestInv, BeforeSend, Settled
<1>11. CASE Initialize
  BY <1>11, Untouched DEF Initialize, Waiting
<1>12. CASE EndSession
  <2> DEFINE filed == {pending[t] : t \in Topics} \ {NoRequest}
  <2>1. \A q \in filed : q \in Requests /\ phase[q] = "waiting"
    BY DEF PendingIsWaiting, TypeOK
  <2>2. \A q \in Requests :
          /\ q \in filed => phase'[q] = "rejected" /\ active'[q] = {}
          /\ q \notin filed => phase'[q] = phase[q] /\ active'[q] = active[q]
    BY <1>12 DEF EndSession, RejectPending
  <2>3. UNCHANGED <<topic, unanswered, answer>>
    BY <1>12 DEF EndSession
  <2> HIDE DEF filed
  <2> QED
    BY <2>1, <2>2, <2>3 DEF Waiting, RequestInv, BeforeSend, Settled
<1>13. ASSUME NEW n \in Nodes, NEW s \in Shadows \cup {NoShadow}, Rebind(n, s)
       PROVE  Waiting'
  BY <1>13, Untouched DEF Rebind, Waiting
<1>14. CASE UNCHANGED vars
  BY <1>14, Untouched DEF vars, Waiting
<1> QED
  BY <1>1, <1>2, <1>3, <1>4, <1>5, <1>6, <1>7, <1>8, <1>9, <1>10, <1>11, <1>12,
     <1>13, <1>14 DEF Next, Run

-----------------------------------------------------------------------------
(* pendingRequests *)

LEMMA PendingStart ==
  ASSUME Init
  PROVE  PendingIsWaiting
BY DEF Init, PendingIsWaiting

\* When the requests R settle by cleanup and nothing else about the entries
\* changes, what is left in the map still waits.
LEMMA CleanUpPending ==
  ASSUME TypeOK, PendingIsWaiting, NEW R \in SUBSET Requests, CleanUp(R),
         UNCHANGED <<initialized, born, topic, mark>>,
         \A r \in Requests \ R : phase'[r] = phase[r]
  PROVE  PendingIsWaiting'
<1> SUFFICES ASSUME NEW t \in Topics, NEW p, p = pending'[t], p # NoRequest
             PROVE  phase'[p] = "waiting" /\ topic'[p] = t /\ InstanceLive(p)'
  BY DEF PendingIsWaiting, InstanceLive
<1>1. /\ p = pending[t]
      /\ \A r \in R : ~(InstanceLive(r) /\ topic[r] = t)
  BY DEF CleanUp
<1>2. phase[p] = "waiting" /\ topic[p] = t /\ InstanceLive(p) /\ p \in Requests
  BY <1>1 DEF PendingIsWaiting, TypeOK
<1>3. p \notin R
  BY <1>1, <1>2
<1> QED
  BY <1>1, <1>2, <1>3 DEF InstanceLive

\* A request that is not waiting is not in the map: it may do as it likes.
LEMMA OthersPending ==
  ASSUME TypeOK, PendingIsWaiting, NEW r \in Requests, phase[r] # "waiting",
         UNCHANGED <<initialized, born, pending>>,
         \A q \in Requests \ {r} :
           phase'[q] = phase[q] /\ topic'[q] = topic[q] /\ mark'[q] = mark[q]
  PROVE  PendingIsWaiting'
<1> SUFFICES ASSUME NEW t \in Topics, NEW p, p = pending[t], p # NoRequest
             PROVE  phase'[p] = "waiting" /\ topic'[p] = t /\ InstanceLive(p)'
  BY DEF PendingIsWaiting, InstanceLive
<1>1. phase[p] = "waiting" /\ topic[p] = t /\ InstanceLive(p) /\ p \in Requests \ {r}
  BY DEF PendingIsWaiting, TypeOK
<1> QED
  BY <1>1 DEF InstanceLive

LEMMA PendingStep ==
  ASSUME RequestAssumption, IInv, [Next]_vars
  PROVE  PendingIsWaiting'
<1> USE DEF IInv, lifeVars
<1>1. ASSUME NEW r \in Requests, NEW n \in Nodes, Fetch(r, n)
      PROVE  PendingIsWaiting'
  <2>1. phase[r] # "waiting" /\ UNCHANGED <<initialized, born, pending>>
    BY <1>1 DEF Fetch
  <2>2. \A q \in Requests \ {r} :
          phase'[q] = phase[q] /\ topic'[q] = topic[q] /\ mark'[q] = mark[q]
    BY <1>1 DEF Fetch, TypeOK
  <2> QED
    BY <2>1, <2>2, OthersPending
<1>2. ASSUME NEW r \in Requests, NotConnected(r) \/ CannotExecute(r) \/ Execute(r)
      PROVE  PendingIsWaiting'
  <2>1. phase[r] # "waiting" /\ UNCHANGED <<initialized, born, pending>>
    BY <1>2 DEF NotConnected, CannotExecute, Execute
  <2>2. \A q \in Requests \ {r} :
          phase'[q] = phase[q] /\ topic'[q] = topic[q] /\ mark'[q] = mark[q]
    BY <1>2 DEF NotConnected, CannotExecute, Execute, Reject, TypeOK
  <2> QED
    BY <2>1, <2>2, OthersPending
<1>3. ASSUME NEW r \in Requests, Send(r)
      PROVE  PendingIsWaiting'
  <2>1. CASE ~InstanceLive(r)
    <3>1. phase[r] # "waiting" /\ UNCHANGED <<initialized, born, pending>>
      BY <1>3, <2>1 DEF Send
    <3>2. \A q \in Requests \ {r} :
            phase'[q] = phase[q] /\ topic'[q] = topic[q] /\ mark'[q] = mark[q]
      BY <1>3, <2>1 DEF Send, TypeOK
    <3> QED
      BY <3>1, <3>2, OthersPending
  <2>2. CASE InstanceLive(r)
    <3> SUFFICES ASSUME NEW t \in Topics, NEW p, p = pending'[t], p # NoRequest
                 PROVE  phase'[p] = "waiting" /\ topic'[p] = t /\ InstanceLive(p)'
      BY DEF PendingIsWaiting, InstanceLive
    <3>1. CASE t = topic[r]
      <4>1. p = r /\ phase'[r] = "waiting" /\ topic'[r] = t
        BY <1>3, <2>2, <3>1 DEF Send, TypeOK
      <4>2. mark'[r] = session /\ UNCHANGED <<initialized, born>>
        BY <1>3, <2>2 DEF Send, TypeOK
      <4>3. born <= session
        BY RequestAssumption DEF TypeOK, RequestAssumption
      <4> QED
        BY <2>2, <4>1, <4>2, <4>3 DEF InstanceLive
    <3>2. CASE t # topic[r]
      <4>1. p = pending[t]
        BY <1>3, <2>2, <3>2 DEF Send, TypeOK
      <4>2. phase[p] = "waiting" /\ topic[p] = t /\ InstanceLive(p) /\ p \in Requests \ {r}
        BY <1>3, <4>1 DEF Send, PendingIsWaiting, TypeOK
      <4>3. /\ phase'[p] = "waiting" /\ topic' = topic
            /\ mark'[p] = mark[p] /\ UNCHANGED <<initialized, born>>
        BY <1>3, <2>2, <4>2 DEF Send, TypeOK
      <4> QED
        BY <4>1, <4>2, <4>3 DEF InstanceLive
    <3> QED
      BY <3>1, <3>2
  <2> QED
    BY <2>1, <2>2
<1>4. ASSUME NEW r \in Requests, Timeout(r)
      PROVE  PendingIsWaiting'
  <2>1. CleanUp({r}) /\ UNCHANGED <<initialized, born, topic, mark>>
    BY <1>4 DEF Timeout
  <2>2. \A q \in Requests \ {r} : phase'[q] = phase[q]
    BY <1>4 DEF Timeout, Reject, TypeOK
  <2> QED
    BY <2>1, <2>2, CleanUpPending, {r} \in SUBSET Requests
<1>5. ASSUME NEW r \in Requests, NEW v \in Verdict, SubscribeFailed(r, v)
      PROVE  PendingIsWaiting'
  <2>1. CleanUp({r}) /\ UNCHANGED <<initialized, born, topic, mark>>
    BY <1>5 DEF SubscribeFailed
  <2>2. \A q \in Requests \ {r} : phase'[q] = phase[q]
    BY <1>5 DEF SubscribeFailed, TypeOK
  <2> QED
    BY <2>1, <2>2, CleanUpPending, {r} \in SUBSET Requests
<1>6. ASSUME NEW t \in Topics \cup {NoTopic}, NEW v \in Verdict, NEW outcome \in Settled,
             Deliver(t, v, outcome), UNCHANGED <<initialized, born, topic, mark>>
      PROVE  PendingIsWaiting'
  <2> DEFINE heard == {r \in Requests : topic[r] = t /\ v \in active[r]}
  <2>1. heard \in SUBSET Requests /\ CleanUp(heard)
    BY <1>6 DEF Deliver
  <2>2. \A q \in Requests \ heard : phase'[q] = phase[q]
    BY <1>6 DEF Deliver
  <2> HIDE DEF heard
  <2> QED
    BY <1>6, <2>1, <2>2, CleanUpPending
<1>7. ASSUME NEW r \in Requests, Answered(r)
      PROVE  PendingIsWaiting'
  <2>1. PICK v \in Verdict, outcome \in Settled : Deliver(topic[r], v, outcome)
    BY <1>7 DEF Answered
  <2>2. topic[r] \in Topics \cup {NoTopic}
    BY DEF TypeOK
  <2> QED
    BY <1>6, <1>7, <2>1, <2>2 DEF Answered
<1>8. ASSUME NEW t \in Topics, AnsweredToOthers(t)
      PROVE  PendingIsWaiting'
  BY <1>6, <1>8 DEF AnsweredToOthers
<1>9. ASSUME NEW r \in Requests, NEW v \in Verdict, Subscribed(r, v)
      PROVE  PendingIsWaiting'
  BY <1>9 DEF Subscribed, PendingIsWaiting, InstanceLive
<1>10. ASSUME NEW r \in Requests, AnswerLost(r)
       PROVE  PendingIsWaiting'
  BY <1>10 DEF AnswerLost, PendingIsWaiting, InstanceLive
<1>11. CASE Initialize
  BY <1>11 DEF Initialize, PendingIsWaiting, InstanceLive
<1>12. CASE EndSession
  BY <1>12 DEF EndSession, RejectPending, PendingIsWaiting
<1>13. ASSUME NEW n \in Nodes, NEW s \in Shadows \cup {NoShadow}, Rebind(n, s)
       PROVE  PendingIsWaiting'
  BY <1>13 DEF Rebind, PendingIsWaiting, InstanceLive
<1>14. CASE UNCHANGED vars
  BY <1>14 DEF vars, PendingIsWaiting, InstanceLive
<1> QED
  BY <1>1, <1>2, <1>3, <1>4, <1>5, <1>7, <1>8, <1>9, <1>10, <1>11, <1>12, <1>13,
     <1>14 DEF Next, Run

-----------------------------------------------------------------------------
(* The theorems *)

LEMMA Inductive == RequestAssumption => (Spec => []IInv)
<1> SUFFICES ASSUME RequestAssumption
             PROVE  Spec => []IInv
  OBVIOUS
<1>1. Init => IInv
  BY TypesStart, WaitingStart, PendingStart DEF IInv
<1>2. IInv /\ [Next]_vars => IInv'
  BY TypesStep, WaitingStep, PendingStep DEF IInv
<1> QED
  BY <1>1, <1>2, PTL DEF Spec

\* The state of the requests stays in its ranges.
THEOREM TypeCorrect == Spec => []TypeOK
<1>1. IInv => TypeOK
  BY DEF IInv
<1> QED
  BY <1>1, Inductive, RequestAssumption, PTL

\* An entry of pendingRequests is a waiting request's.
THEOREM EntriesWait == Spec => []PendingIsWaiting
<1>1. IInv => PendingIsWaiting
  BY DEF IInv
<1> QED
  BY <1>1, Inductive, RequestAssumption, PTL

\* A request that is over has no handler on the wire.
THEOREM Silence == Spec => []SettledIsSilent
<1>1. IInv => SettledIsSilent
  BY DEF IInv, Waiting, RequestInv, SettledIsSilent
<1> QED
  BY <1>1, Inductive, RequestAssumption, PTL

\* The reply to a request's get never passes it by.
THEOREM Answers == Spec => []AnswerIsHeard
<1>1. IInv => AnswerIsHeard
  BY DEF IInv, Waiting, RequestInv, AnswerIsHeard
<1> QED
  BY <1>1, Inductive, RequestAssumption, PTL

-----------------------------------------------------------------------------
(* A request is a one-shot call (OneShot).                                 *)

StateOf(p) == IF p \in Settled \cup {"idle"} THEN p ELSE "underway"

\* Requests that are not over settle together, and lose their handlers.
LEMMA SettlesTogether ==
  ASSUME TypeOK, TypeOK', NEW over \in SUBSET Requests,
         \A r \in over : phase[r] \notin Settled /\ phase'[r] \in Settled,
         \A r \in Requests \ over : StateOf(phase'[r]) = StateOf(phase[r]),
         active' = [r \in Requests |-> IF r \in over THEN {} ELSE active[r]]
  PROVE  Settling!Settle(over)
<1>1. \A r \in over : StateOf(phase[r]) \in {"idle", "underway"}
  BY DEF StateOf
<1>2. [r \in over |-> phase'[r]] \in [over -> Settled]
  OBVIOUS
<1>3. \A r \in over : StateOf(phase'[r]) = phase'[r]
  BY DEF StateOf
<1>4. [r \in Requests |-> StateOf(phase'[r])]
        = [c \in Requests |-> IF c \in over THEN [r \in over |-> phase'[r]][c]
                              ELSE [r \in Requests |-> StateOf(phase[r])][c]]
  BY <1>3
<1> QED BY <1>1, <1>2, <1>4 DEF Settling!Settle, StateOf

\* A request passes on without settling, and keeps what it has.
LEMMA PassesOn ==
  ASSUME \A r \in Requests : StateOf(phase'[r]) = StateOf(phase[r]), active' = active
  PROVE  UNCHANGED Settling!vars
BY DEF Settling!vars, StateOf

LEMMA DeliverSettles ==
  ASSUME IInv, TypeOK', NEW t, NEW v \in Verdict, NEW outcome \in Settled, Deliver(t, v, outcome)
  PROVE  \E over \in SUBSET Requests : Settling!Settle(over)
<1> DEFINE heard == {r \in Requests : topic[r] = t /\ v \in active[r]}
<1>1. \A r \in heard : phase[r] = "waiting"
  BY DEF IInv, Waiting, RequestInv
<1>2. phase' = [r \in Requests |-> IF r \in heard THEN outcome ELSE phase[r]]
  BY DEF Deliver
<1>3. active' = [r \in Requests |-> IF r \in heard THEN {} ELSE active[r]]
  BY DEF Deliver, CleanUp
<1>4. heard \in SUBSET Requests
  OBVIOUS
<1> HIDE DEF heard
<1>5. /\ \A r \in heard : phase[r] \notin Settled /\ phase'[r] \in Settled
      /\ \A r \in Requests \ heard : StateOf(phase'[r]) = StateOf(phase[r])
  BY <1>1, <1>2, <1>4 DEF Settled
<1> QED BY <1>3, <1>4, <1>5, SettlesTogether DEF IInv

LEMMA EndSettles ==
  ASSUME RequestAssumption, IInv, TypeOK', EndSession
  PROVE  \E over \in SUBSET Requests : Settling!Settle(over)
<1> DEFINE filed == {pending[t] : t \in Topics} \ {NoRequest}
<1>1. \A r \in filed : r \in Requests /\ phase[r] = "waiting"
  BY DEF IInv, TypeOK, PendingIsWaiting
<1>2. phase' = [r \in Requests |-> IF r \in filed THEN "rejected" ELSE phase[r]]
  BY DEF EndSession, RejectPending
<1>3. active' = [r \in Requests |-> IF r \in filed THEN {} ELSE active[r]]
  BY DEF EndSession, RejectPending
<1> HIDE DEF filed
<1>4. filed \in SUBSET Requests
  BY <1>1
<1>5. /\ \A r \in filed : phase[r] \notin Settled /\ phase'[r] \in Settled
      /\ \A r \in Requests \ filed : StateOf(phase'[r]) = StateOf(phase[r])
  BY <1>1, <1>2, <1>4 DEF Settled
<1> QED BY <1>3, <1>4, <1>5, SettlesTogether DEF IInv

LEMMA StepSettling ==
  ASSUME RequestAssumption, IInv, IInv', [Next]_vars
  PROVE  [Settling!Next]_(Settling!vars)
<1>1. TypeOK /\ TypeOK' /\ \A r \in Requests : phase[r] # "waiting" => active[r] = {}
  BY DEF IInv, Waiting, RequestInv
<1>2. ASSUME NEW r \in Requests, NEW n \in Nodes, Fetch(r, n) PROVE Settling!Begin(r)
  <2>1. phase[r] = "idle" /\ phase' = [phase EXCEPT ![r] = "checking"] /\ active' = active /\ active[r] = {}
    BY <1>1, <1>2 DEF Fetch
  <2>2. [q \in Requests |-> StateOf(phase'[q])]
          = [[q \in Requests |-> StateOf(phase[q])] EXCEPT ![r] = "underway"]
    BY <1>1, <2>1 DEF TypeOK, StateOf, Settled
  <2>3. active' = [active EXCEPT ![r] = {}] /\ {} \in SUBSET Verdict
    BY <1>1, <2>1 DEF TypeOK
  <2> QED BY <2>1, <2>2, <2>3 DEF Settling!Begin, StateOf
<1>3. ASSUME NEW r \in Requests, active' = [q \in Requests |-> IF q \in {r} THEN {} ELSE active[q]],
             phase[r] \notin Settled, Reject(r)
      PROVE  Settling!Settle({r})
  <2>1. phase' = [phase EXCEPT ![r] = "rejected"]
    BY <1>3 DEF Reject
  <2>2. /\ \A q \in {r} : phase[q] \notin Settled /\ phase'[q] \in Settled
        /\ \A q \in Requests \ {r} : StateOf(phase'[q]) = StateOf(phase[q])
    BY <1>1, <1>3, <2>1 DEF TypeOK, Settled
  <2> QED BY <1>1, <1>3, <2>2, SettlesTogether
<1>4. ASSUME NEW r \in Requests, NotConnected(r) \/ CannotExecute(r) PROVE Settling!Settle({r})
  <2>1. phase[r] \in {"checking", "connecting"} /\ Reject(r) /\ active' = active
    BY <1>4 DEF NotConnected, CannotExecute
  <2>2. active' = [q \in Requests |-> IF q \in {r} THEN {} ELSE active[q]]
    BY <1>1, <2>1 DEF TypeOK
  <2> QED BY <1>3, <2>1, <2>2 DEF Settled
<1>5. ASSUME NEW r \in Requests, Timeout(r) PROVE Settling!Settle({r})
  BY <1>3, <1>5 DEF Timeout, CleanUp, Settled
<1>6. ASSUME NEW r \in Requests, Execute(r) \/ Send(r) PROVE UNCHANGED Settling!vars
  <2>1. \A q \in Requests : StateOf(phase'[q]) = StateOf(phase[q])
    BY <1>1, <1>6 DEF Execute, Send, StateOf, TypeOK, Settled
  <2> QED BY <1>6, <2>1, PassesOn DEF Execute, Send
<1>7. ASSUME NEW r \in Requests, NEW v \in Verdict, Subscribed(r, v) PROVE [Settling!Hold(r)]_(Settling!vars)
  <2>1. phase' = phase
    BY <1>7 DEF Subscribed
  <2>2. CASE phase[r] = "waiting"
    <3>1. active' = [active EXCEPT ![r] = active[r] \cup {v}] /\ active[r] \cup {v} \in SUBSET Verdict
      BY <1>1, <1>7, <2>2 DEF Subscribed, TypeOK
    <3>2. StateOf(phase[r]) = "underway"
      BY <2>2 DEF StateOf, Settled
    <3> QED BY <2>1, <3>1, <3>2 DEF Settling!Hold, StateOf
  <2>3. CASE phase[r] # "waiting"
    <3>1. active' = active
      BY <1>1, <1>7, <2>3 DEF Subscribed, TypeOK
    <3> QED BY <2>1, <3>1, PassesOn
  <2> QED BY <2>2, <2>3
<1>8. ASSUME NEW r \in Requests, NEW v \in Verdict, SubscribeFailed(r, v)
      PROVE  Settling!Settle({r}) \/ UNCHANGED Settling!vars
  <2>1. active' = [q \in Requests |-> IF q \in {r} THEN {} ELSE active[q]]
    BY <1>8 DEF SubscribeFailed, CleanUp
  <2>2. CASE phase[r] = "waiting"
    BY <1>3, <1>8, <2>1, <2>2 DEF SubscribeFailed, Reject, Settled
  <2>3. CASE phase[r] # "waiting"
    <3>1. active' = active
      BY <1>1, <2>1, <2>3 DEF TypeOK
    <3>2. phase' = phase
      BY <1>1, <1>8, <2>3 DEF SubscribeFailed, TypeOK
    <3> QED BY <3>1, <3>2, PassesOn
  <2> QED BY <2>2, <2>3
<1>9. ASSUME NEW r \in Requests, Answered(r) PROVE \E over \in SUBSET Requests : Settling!Settle(over)
  BY <1>1, <1>9, DeliverSettles DEF Answered
<1>10. ASSUME NEW t \in Topics, AnsweredToOthers(t) PROVE \E over \in SUBSET Requests : Settling!Settle(over)
  BY <1>1, <1>10, DeliverSettles DEF AnsweredToOthers
<1>11. CASE EndSession
  BY <1>11, EndSettles DEF IInv, Settling!Next
<1>12. CASE UNCHANGED <<phase, active>>
  BY <1>12, PassesOn
<1>13. ASSUME NEW r \in Requests, AnswerLost(r) PROVE UNCHANGED <<phase, active>>
  BY <1>13 DEF AnswerLost
<1>14. ASSUME Initialize \/ (\E n \in Nodes, s \in Shadows \cup {NoShadow} : Rebind(n, s)) \/ UNCHANGED vars
       PROVE  UNCHANGED <<phase, active>>
  BY <1>14 DEF Initialize, Rebind, vars
<1>15. \A r \in Requests : {r} \in SUBSET Requests
  OBVIOUS
<1> QED
  BY <1>2, <1>4, <1>5, <1>6, <1>7, <1>8, <1>9, <1>10, <1>11, <1>12, <1>13, <1>14, <1>15
  DEF Next, Run, Settling!Next

\* A request settles once and leaves nothing behind, for any number of requests, nodes,
\* shadows and sessions, in whatever order its subscribes, its answer and other clients',
\* its timeout and the end of the session come (cleanup, clearAllPendingRequests).
THEOREM RequestsSettleOnce == Spec => SettlesOnce
<1>1. Init => Settling!Init
  BY DEF Init, Settling!Init, StateOf
<1>2. IInv /\ IInv' /\ [Next]_vars => [Settling!Next]_(Settling!vars)
  BY StepSettling, RequestAssumption
<1> QED BY <1>1, <1>2, Inductive, RequestAssumption, PTL DEF Spec, SettlesOnce, Settling!Spec
=============================================================================
