---------------------------- MODULE SerialQueue ----------------------------
(***************************************************************************)
(* The promise-chain queue the SDK uses wherever operations of one key     *)
(* must not interleave across an await:                                    *)
(*   NodeMQTTOrchestrator.runSerial      key = shadow name                 *)
(*   MQTTSubscriptionChannel.runSerial   key = node id                     *)
(*   ESPLocalControlTransport.enqueueNodeRead   key = node id              *)
(* The map keeps only the tail of each chain.  A call chains its operation *)
(* behind the tail it finds, whatever the tail's outcome will be, becomes  *)
(* the tail, and removes itself from the map once settled unless a later   *)
(* call has replaced it.                                                   *)
(*                                                                         *)
(* The orchestrator also empties the whole map (Forget) when a session     *)
(* ends, with chains possibly still running.                               *)
(***************************************************************************)
EXTENDS Naturals

CONSTANTS Keys,        \* shadow names, or node ids
          Ops,         \* the calls; each is made at most once
          NoKey,       \* the key of an operation that has not been called
          NoOp,        \* "no entry in the map"
          MaxSession   \* bound on how often the map is emptied

ASSUME QueueAssumption ==
  /\ NoOp \notin Ops
  /\ NoKey \notin Keys
  /\ MaxSession \in Nat

VARIABLES phase,       \* where each operation is in its life
          keyOf,       \* the key each operation was called for
          sessionOf,   \* the session each operation was called in
          prev,        \* the operation whose promise it is chained to
          ahead,       \* the unsettled part of the chain it waits on
          tail,        \* the map: key -> last operation of its chain
          session      \* how often the map has been emptied

vars == <<phase, keyOf, sessionOf, prev, ahead, tail, session>>

Outcome == {"resolved", "rejected"}
Phase == {"idle", "queued", "running"} \cup Outcome

Init ==
  /\ phase = [o \in Ops |-> "idle"]
  /\ keyOf = [o \in Ops |-> NoKey]
  /\ sessionOf = [o \in Ops |-> 0]
  /\ prev = [o \in Ops |-> NoOp]
  /\ ahead = [o \in Ops |-> {}]
  /\ tail = [k \in Keys |-> NoOp]
  /\ session = 0

\* Everything an operation chained to t has to wait for.
ChainUpTo(t) == IF t = NoOp THEN {} ELSE {t} \cup ahead[t]

Enqueue(o, k) ==
  /\ phase[o] = "idle"
  /\ phase' = [phase EXCEPT ![o] = "queued"]
  /\ keyOf' = [keyOf EXCEPT ![o] = k]
  /\ sessionOf' = [sessionOf EXCEPT ![o] = session]
  /\ prev' = [prev EXCEPT ![o] = tail[k]]
  /\ ahead' = [ahead EXCEPT ![o] = ChainUpTo(tail[k])]
  /\ tail' = [tail EXCEPT ![k] = o]
  /\ UNCHANGED session

\* Mutation: nobody waits.
ReleasedAtOnce(o) == phase[o] = "queued"

\* Mutation: prev.then(op), so an op behind a rejected one never runs.
ReleasedOnSuccessOnly(o) ==
  /\ phase[o] = "queued"
  /\ prev[o] # NoOp => phase[prev[o]] = "resolved"

\* prev.then(op, op): the op runs when prev has settled, either way.
Released(o) ==
  /\ phase[o] = "queued"
  /\ prev[o] # NoOp => phase[prev[o]] \in Outcome

Start(o) ==
  /\ Released(o)
  /\ phase' = [phase EXCEPT ![o] = "running"]
  /\ UNCHANGED <<keyOf, sessionOf, prev, ahead, tail, session>>

\* Mutation: the entry is deleted without asking whose it is.
FinishDroppingTail(o, outcome) ==
  /\ phase' = [phase EXCEPT ![o] = outcome]
  /\ tail' = [k \in Keys |-> IF k = keyOf[o] THEN NoOp ELSE tail[k]]
  /\ ahead' = [p \in Ops |-> ahead[p] \ {o}]
  /\ UNCHANGED <<keyOf, sessionOf, prev, session>>

\* The op settles and, if it is still the tail of its key, leaves the map.
Finish(o, outcome) ==
  /\ phase' = [phase EXCEPT ![o] = outcome]
  /\ tail' = [k \in Keys |-> IF tail[k] = o THEN NoOp ELSE tail[k]]
  /\ ahead' = [p \in Ops |-> ahead[p] \ {o}]
  /\ UNCHANGED <<keyOf, sessionOf, prev, session>>

Settle(o, outcome) == phase[o] = "running" /\ Finish(o, outcome)

\* An op whose body never awaits runs through in one step.
RunAtOnce(o, outcome) == Released(o) /\ Finish(o, outcome)

\* shadowOps.clear(): the chains go on, but new calls no longer see them.
Forget ==
  /\ session < MaxSession
  /\ session' = session + 1
  /\ tail' = [k \in Keys |-> NoOp]
  /\ UNCHANGED <<phase, keyOf, sessionOf, prev, ahead>>

Next ==
  \/ \E o \in Ops :
       \/ \E k \in Keys : Enqueue(o, k)
       \/ Start(o)
       \/ \E outcome \in Outcome : Settle(o, outcome) \/ RunAtOnce(o, outcome)
  \/ Forget

Spec == Init /\ [][Next]_vars

(***************************************************************************)
(* A promise whose predecessor has settled is always run by the event      *)
(* loop, and every operation's own promise is assumed to settle (the       *)
(* adapters it awaits answer or fail).                                     *)
(***************************************************************************)
Progress(o) ==
  \/ Start(o)
  \/ \E outcome \in Outcome : Settle(o, outcome) \/ RunAtOnce(o, outcome)

FairSpec == Spec /\ \A o \in Ops : WF_vars(Progress(o))

-----------------------------------------------------------------------------

\* Type correctness.
TypeOK ==
  /\ phase \in [Ops -> Phase]
  /\ keyOf \in [Ops -> Keys \cup {NoKey}]
  /\ sessionOf \in [Ops -> Nat]
  /\ prev \in [Ops -> Ops \cup {NoOp}]
  /\ ahead \in [Ops -> SUBSET Ops]
  /\ tail \in [Keys -> Ops \cup {NoOp}]
  /\ session \in Nat

Unsettled(o) == phase[o] \in {"queued", "running"}
SameQueue(o, p) == keyOf[o] = keyOf[p] /\ sessionOf[o] = sessionOf[p]

\* Two operations called for one key in one session never run at the same
\* time: neither `await' in one can let the other in.
ExclusivePerSession ==
  \A o, p \in Ops :
    phase[o] = "running" /\ phase[p] = "running" /\ SameQueue(o, p) => o = p

(***************************************************************************)
(* The strengthening that makes exclusion inductive: a chain orders the    *)
(* unsettled operations of a queue totally, `prev' is the last one before, *)
(* and the map's entry is the last of all.                                 *)
(***************************************************************************)
ChainIsTotal ==
  \A o, p \in Ops :
    Unsettled(o) /\ Unsettled(p) /\ SameQueue(o, p) /\ o # p
      => o \in ahead[p] \/ p \in ahead[o]

AheadIsUnsettled ==
  \A o \in Ops : \A p \in ahead[o] :
    Unsettled(o) /\ Unsettled(p) /\ SameQueue(o, p)

PrevIsLastAhead ==
  \A o \in Ops :
    phase[o] = "queued" =>
      ahead[o] = IF prev[o] # NoOp /\ Unsettled(prev[o])
                   THEN ChainUpTo(prev[o]) ELSE {}

PrevWasCalled == \A o \in Ops : prev[o] # NoOp => phase[prev[o]] # "idle"

RunningHasNoneAhead == \A o \in Ops : phase[o] = "running" => ahead[o] = {}

TailIsLast ==
  \A k \in Keys :
    /\ tail[k] # NoOp => /\ Unsettled(tail[k])
                         /\ keyOf[tail[k]] = k
                         /\ sessionOf[tail[k]] = session
    /\ \A o \in Ops :
         Unsettled(o) /\ keyOf[o] = k /\ sessionOf[o] = session
           => o \in ChainUpTo(tail[k])

SessionsAreOver == \A o \in Ops : sessionOf[o] <= session

NobodyAheadOfSelf == \A o \in Ops : o \notin ahead[o]

ChainInv ==
  /\ ChainIsTotal
  /\ AheadIsUnsettled
  /\ PrevIsLastAhead
  /\ PrevWasCalled
  /\ RunningHasNoneAhead
  /\ TailIsLast
  /\ SessionsAreOver

\* The tail pointers are enough: the queue implements first-come-first-served
\* exclusion, call for call.
Abstract == INSTANCE FifoExclusion
RefinesFifo == Abstract!Spec

\* Whoever waits has somebody in its queue who runs or may run: no chain stands still.
SomebodyGoesOn ==
  \A o \in Ops :
    phase[o] = "queued" => \E p \in Ops : SameQueue(o, p) /\ (phase[p] = "running" \/ Released(p))

\* Nobody who comes later gets ahead of who waits.
NobodyOvertakes == [][\A o \in Ops : phase[o] = "queued" => ahead'[o] \subseteq ahead[o]]_vars

\* A rejected operation, or an emptied map, never leaves a later caller
\* waiting forever.
EveryCallSettles == \A o \in Ops : phase[o] = "queued" ~> phase[o] \in Outcome
=============================================================================
