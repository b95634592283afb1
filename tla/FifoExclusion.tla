--------------------------- MODULE FifoExclusion ---------------------------
(***************************************************************************)
(* What a per-key operation queue promises its callers: the operations     *)
(* called for one key run one at a time, in the order of the calls, and    *)
(* the outcome of one is of no consequence to the next.  The promise is    *)
(* made per session; emptying the queue's map starts a new session.        *)
(*                                                                         *)
(* `runSerial' of NodeMQTTOrchestrator and MQTTSubscriptionChannel and     *)
(* `enqueueNodeRead' of ESPLocalControlTransport make this promise;        *)
(* SerialQueue describes how they keep it.                                 *)
(***************************************************************************)
EXTENDS Naturals

CONSTANTS Keys,        \* shadow names, or node ids
          Ops,         \* the calls; each is made at most once
          NoKey,       \* the key of an operation that has not been called
          MaxSession   \* bound on how often the map is emptied

VARIABLES phase,       \* where each operation is in its life
          keyOf,       \* the key each operation was called for
          sessionOf,   \* the session each operation was called in
          ahead,       \* the unsettled operations each operation waits for
          session      \* the current session

vars == <<phase, keyOf, sessionOf, ahead, session>>

Outcome == {"resolved", "rejected"}
Phase == {"idle", "queued", "running"} \cup Outcome

Unsettled(o) == phase[o] \in {"queued", "running"}

\* The operations of one key and one session still to finish.
Pending(k, g) == {o \in Ops : Unsettled(o) /\ keyOf[o] = k /\ sessionOf[o] = g}

Init ==
  /\ phase = [o \in Ops |-> "idle"]
  /\ keyOf = [o \in Ops |-> NoKey]
  /\ sessionOf = [o \in Ops |-> 0]
  /\ ahead = [o \in Ops |-> {}]
  /\ session = 0

\* A new call waits for every operation of its key and session.
Enqueue(o, k) ==
  /\ phase[o] = "idle"
  /\ phase' = [phase EXCEPT ![o] = "queued"]
  /\ keyOf' = [keyOf EXCEPT ![o] = k]
  /\ sessionOf' = [sessionOf EXCEPT ![o] = session]
  /\ ahead' = [ahead EXCEPT ![o] = Pending(k, session)]
  /\ UNCHANGED session

Start(o) ==
  /\ phase[o] = "queued"
  /\ ahead[o] = {}
  /\ phase' = [phase EXCEPT ![o] = "running"]
  /\ UNCHANGED <<keyOf, sessionOf, ahead, session>>

\* Whatever its outcome, a settled operation no longer holds anyone back.
Finish(o, outcome) ==
  /\ phase' = [phase EXCEPT ![o] = outcome]
  /\ ahead' = [p \in Ops |-> ahead[p] \ {o}]
  /\ UNCHANGED <<keyOf, sessionOf, session>>

Settle(o, outcome) == phase[o] = "running" /\ Finish(o, outcome)

\* An operation that never awaits starts and settles in one step.
RunAtOnce(o, outcome) ==
  /\ phase[o] = "queued"
  /\ ahead[o] = {}
  /\ Finish(o, outcome)

Forget ==
  /\ session < MaxSession
  /\ session' = session + 1
  /\ UNCHANGED <<phase, keyOf, sessionOf, ahead>>

Next ==
  \/ \E o \in Ops :
       \/ \E k \in Keys : Enqueue(o, k)
       \/ Start(o)
       \/ \E outcome \in Outcome : Settle(o, outcome) \/ RunAtOnce(o, outcome)
  \/ Forget

Spec == Init /\ [][Next]_vars
=============================================================================
