------------------------- MODULE SerialQueue_proofs -------------------------
(***************************************************************************)
(* For any set of keys, any number of calls and any number of sessions:    *)
(* the promise chain is typed, keeps its inductive invariant, excludes,    *)
(* implements FifoExclusion, and never stands still while somebody waits.  *)
(***************************************************************************)
EXTENDS SerialQueue, FiniteSetTheorems, WellFoundedInduction, NaturalsInduction, TLAPS

USE DEF Outcome, Phase

LEMMA InitType == Init => TypeOK
BY QueueAssumption DEF Init, TypeOK

LEMMA StepType == TypeOK /\ [Next]_vars => TypeOK'
<1> SUFFICES ASSUME TypeOK, [Next]_vars PROVE TypeOK'
  OBVIOUS
<1>1. ASSUME NEW o \in Ops, NEW k \in Keys, Enqueue(o, k) PROVE TypeOK'
  BY <1>1, QueueAssumption DEF TypeOK, Enqueue, ChainUpTo
<1>2. ASSUME NEW o \in Ops, Start(o) PROVE TypeOK'
  BY <1>2 DEF TypeOK, Start, Released
<1>3. ASSUME NEW o \in Ops, NEW outcome \in Outcome, Finish(o, outcome) PROVE TypeOK'
  BY <1>3 DEF TypeOK, Finish
<1>4. CASE Forget
  BY <1>4 DEF TypeOK, Forget
<1>5. CASE UNCHANGED vars
  BY <1>5 DEF TypeOK, vars
<1>6. QED
  BY <1>1, <1>2, <1>3, <1>4, <1>5 DEF Next, Settle, RunAtOnce

\* Every step keeps the variables of the queue in their ranges (the maps and
\* flags behind runSerial).
THEOREM TypeCorrect == Spec => []TypeOK
BY InitType, StepType, PTL DEF Spec

-----------------------------------------------------------------------------
(***************************************************************************)
(* The chain invariant.  Each action is one lemma; only the last one is    *)
(* temporal.                                                               *)
(***************************************************************************)

USE DEF ChainInv, ChainIsTotal, AheadIsUnsettled, PrevIsLastAhead, PrevWasCalled,
        RunningHasNoneAhead, TailIsLast, SessionsAreOver,
        Unsettled, SameQueue, ChainUpTo

LEMMA InitChain == Init => ChainInv
BY QueueAssumption DEF Init

\* A released operation has nothing ahead of it: its predecessor stood for
\* the whole chain.
LEMMA ReleasedHasNoneAhead ==
  ASSUME TypeOK, ChainInv, NEW o \in Ops, Released(o)
  PROVE  ahead[o] = {} /\ phase[o] = "queued"
BY DEF TypeOK, Released

LEMMA EnqueueChain ==
  ASSUME TypeOK, ChainInv, NEW o \in Ops, NEW k \in Keys, Enqueue(o, k)
  PROVE  ChainInv'
<1> USE QueueAssumption DEF TypeOK, Enqueue
<1>1. ~Unsettled(o) /\ Unsettled(o)' /\ tail[k] # o
  OBVIOUS
<1>2. \A p \in Ops : p # o => /\ ahead'[p] = ahead[p]
                              /\ phase'[p] = phase[p]
                              /\ keyOf'[p] = keyOf[p]
                              /\ sessionOf'[p] = sessionOf[p]
                              /\ prev'[p] = prev[p]
  OBVIOUS
<1>3. \A p \in Ops : o \notin ahead[p]
  BY <1>1
<1>4. ahead'[o] = ChainUpTo(tail[k]) /\ o \notin ahead'[o]
  BY <1>1, <1>3
<1>5. \A p \in ahead'[o] : Unsettled(p) /\ keyOf[p] = k /\ sessionOf[p] = session
  BY <1>4
<1>6. AheadIsUnsettled'
  BY <1>1, <1>2, <1>3, <1>4, <1>5
<1>7. ChainIsTotal'
  BY <1>1, <1>2, <1>4
<1>8. PrevIsLastAhead'
  <2> SUFFICES ASSUME NEW p \in Ops, phase'[p] = "queued"
               PROVE  ahead'[p] = IF prev'[p] # NoOp /\ Unsettled(prev[p])'
                                    THEN ChainUpTo(prev[p])' ELSE {}
    OBVIOUS
  <2>1. CASE p = o
    BY <2>1, <1>1, <1>2, <1>4
  <2>2. CASE p # o
    <3>1. phase[p] = "queued" /\ prev[p] # o
      BY <2>2, <1>1, <1>2
    <3> QED BY <3>1, <2>2, <1>2
  <2> QED BY <2>1, <2>2
<1>9. RunningHasNoneAhead' /\ PrevWasCalled'
  BY <1>1, <1>2
<1>10. TailIsLast'
  BY <1>1, <1>2, <1>4
<1>11. SessionsAreOver'
  BY <1>1, <1>2
<1> QED BY <1>6, <1>7, <1>8, <1>9, <1>10, <1>11

LEMMA StartChain ==
  ASSUME TypeOK, ChainInv, NEW o \in Ops, Start(o)
  PROVE  ChainInv'
<1>1. ahead[o] = {} /\ phase[o] = "queued"
  BY ReleasedHasNoneAhead DEF Start
<1>2. \A p \in Ops : Unsettled(p)' <=> Unsettled(p)
  BY <1>1 DEF TypeOK, Start
<1> QED BY <1>1, <1>2, QueueAssumption DEF TypeOK, Start

LEMMA FinishChain ==
  ASSUME TypeOK, ChainInv, NEW o \in Ops, NEW outcome \in Outcome,
         Unsettled(o), ahead[o] = {}, Finish(o, outcome)
  PROVE  ChainInv'
<1> USE QueueAssumption DEF TypeOK, Finish
<1>1. ~Unsettled(o)' /\ ahead'[o] = {}
  OBVIOUS
<1>2. \A p \in Ops : p # o => phase'[p] = phase[p] /\ ahead'[p] = ahead[p] \ {o}
  OBVIOUS
<1>3. ChainIsTotal' /\ PrevWasCalled' /\ RunningHasNoneAhead' /\ SessionsAreOver'
  BY <1>1, <1>2
<1>4. AheadIsUnsettled'
  BY <1>1, <1>2
<1>5. PrevIsLastAhead'
  BY <1>1, <1>2
<1>6. TailIsLast'
  <2> SUFFICES ASSUME NEW k \in Keys
               PROVE  /\ tail'[k] # NoOp => /\ Unsettled(tail[k])'
                                            /\ keyOf'[tail'[k]] = k
                                            /\ sessionOf'[tail'[k]] = session'
                      /\ \A p \in Ops : Unsettled(p)' /\ keyOf'[p] = k /\ sessionOf'[p] = session'
                           => p \in ChainUpTo(tail[k])'
    OBVIOUS
  <2>1. CASE tail[k] = o
    BY <2>1, <1>1, <1>2
  <2>2. CASE tail[k] # o
    BY <2>2, <1>1, <1>2
  <2> QED BY <2>1, <2>2
<1> QED BY <1>3, <1>4, <1>5, <1>6

LEMMA ForgetChain == TypeOK /\ ChainInv /\ Forget => ChainInv'
BY DEF TypeOK, Forget

\* A step of an operation that settles finds nothing ahead of it.
LEMMA SettlingHasNoneAhead ==
  ASSUME TypeOK, ChainInv, NEW o \in Ops, NEW outcome \in Outcome,
         Settle(o, outcome) \/ RunAtOnce(o, outcome)
  PROVE  Unsettled(o) /\ ahead[o] = {} /\ Finish(o, outcome)
BY ReleasedHasNoneAhead DEF Settle, RunAtOnce

HIDE DEF ChainInv, ChainIsTotal, AheadIsUnsettled, PrevIsLastAhead, PrevWasCalled,
         RunningHasNoneAhead, TailIsLast, SessionsAreOver,
         Unsettled, SameQueue, ChainUpTo

LEMMA StepChain == TypeOK /\ ChainInv /\ [Next]_vars => ChainInv'
<1> SUFFICES ASSUME TypeOK, ChainInv, [Next]_vars PROVE ChainInv'
  OBVIOUS
<1>1. ASSUME NEW o \in Ops, NEW outcome \in Outcome,
           Settle(o, outcome) \/ RunAtOnce(o, outcome)
    PROVE  ChainInv'
  BY <1>1, SettlingHasNoneAhead, FinishChain
<1>2. CASE UNCHANGED vars
  BY <1>2 DEF vars, ChainInv, ChainIsTotal, AheadIsUnsettled, PrevIsLastAhead, PrevWasCalled,
             RunningHasNoneAhead, TailIsLast, SessionsAreOver,
             Unsettled, SameQueue, ChainUpTo
<1> QED
  BY <1>1, <1>2, EnqueueChain, StartChain, ForgetChain DEF Next

\* The chain of a key stays a total order whose last element the map holds,
\* through failures and map clears (the invariant behind runSerial).
THEOREM ChainCorrect == Spec => []ChainInv
BY StepChain, InitChain, TypeCorrect, PTL DEF Spec

\* Operations of one key called in one session never run together (what
\* runSerial's comment promises, as long as the map is not emptied).
THEOREM Exclusion == Spec => []ExclusivePerSession
<1>1. ChainInv => ExclusivePerSession
  BY DEF ExclusivePerSession, ChainInv, ChainIsTotal, RunningHasNoneAhead,
         Unsettled, SameQueue
<1> QED BY <1>1, ChainCorrect, PTL

-----------------------------------------------------------------------------
(***************************************************************************)
(* The refinement: `ahead', computed along the chain, is exactly what      *)
(* FifoExclusion asks an operation to wait for.                            *)
(***************************************************************************)

LEMMA ChainIsPending ==
  ASSUME TypeOK, ChainInv, NEW k \in Keys
  PROVE  ChainUpTo(tail[k]) = Abstract!Pending(k, session)
BY QueueAssumption
DEF TypeOK, ChainInv, AheadIsUnsettled, TailIsLast, ChainUpTo, Unsettled,
    SameQueue, Abstract!Pending, Abstract!Unsettled

LEMMA StepRefines ==
  TypeOK /\ ChainInv /\ [Next]_vars => [Abstract!Next]_(Abstract!vars)
<1> USE DEF Abstract!Outcome
<1> SUFFICES ASSUME TypeOK, ChainInv, [Next]_vars
             PROVE  [Abstract!Next]_(Abstract!vars)
  OBVIOUS
<1>1. ASSUME NEW o \in Ops, NEW k \in Keys, Enqueue(o, k) PROVE Abstract!Next
  <2>1. Abstract!Enqueue(o, k)
    BY <1>1, ChainIsPending DEF Enqueue, Abstract!Enqueue
  <2> QED BY <2>1 DEF Abstract!Next
<1>2. ASSUME NEW o \in Ops, Start(o) PROVE Abstract!Next
  <2>1. Abstract!Start(o)
    BY <1>2, ReleasedHasNoneAhead DEF Start, Abstract!Start
  <2> QED BY <2>1 DEF Abstract!Next
<1>3. ASSUME NEW o \in Ops, NEW outcome \in Outcome,
             Settle(o, outcome) \/ RunAtOnce(o, outcome)
      PROVE  Abstract!Next
  <2>1. Abstract!Finish(o, outcome) /\ ahead[o] = {}
    BY <1>3, SettlingHasNoneAhead DEF Finish, Abstract!Finish
  <2>2. Abstract!Settle(o, outcome) \/ Abstract!RunAtOnce(o, outcome)
    BY <1>3, <2>1 DEF Settle, RunAtOnce, Released, Abstract!Settle, Abstract!RunAtOnce
  <2> QED BY <2>2 DEF Abstract!Next
<1>4. CASE Forget
  BY <1>4 DEF Forget, Abstract!Forget, Abstract!Next
<1>5. CASE UNCHANGED vars
  BY <1>5 DEF vars, Abstract!vars
<1> QED BY <1>1, <1>2, <1>3, <1>4, <1>5 DEF Next

\* The promise chain implements first-come-first-served exclusion (runSerial
\* and enqueueNodeRead keep the promise their comments make).
THEOREM Refinement == Spec => RefinesFifo
<1>1. Init => Abstract!Init
  BY DEF Init, Abstract!Init
<1> QED
  BY <1>1, StepRefines, TypeCorrect, ChainCorrect, PTL
  DEF Spec, RefinesFifo, Abstract!Spec

-----------------------------------------------------------------------------
(***************************************************************************)
(* Nobody waits on a chain that has stopped.  What can be proved of it     *)
(* without fairness: whoever waits has, in the same queue, somebody who    *)
(* runs or may run (the one with the fewest ahead), and what is ahead of   *)
(* an operation only shrinks.                                              *)
(***************************************************************************)

USE DEF ChainInv, ChainIsTotal, AheadIsUnsettled, PrevIsLastAhead, PrevWasCalled,
        RunningHasNoneAhead, TailIsLast, SessionsAreOver, Unsettled, SameQueue, ChainUpTo

LEMMA StepSelf ==
  ASSUME TypeOK, ChainInv, NobodyAheadOfSelf, [Next]_vars
  PROVE  NobodyAheadOfSelf'
<1>1. ASSUME NEW o \in Ops, NEW k \in Keys, Enqueue(o, k) PROVE NobodyAheadOfSelf'
  <2>1. o \notin ahead'[o]
    BY <1>1 DEF TypeOK, Enqueue
  <2> QED BY <1>1, <2>1 DEF TypeOK, Enqueue, NobodyAheadOfSelf
<1>2. ASSUME NEW o \in Ops, Start(o) PROVE NobodyAheadOfSelf'
  BY <1>2 DEF Start, NobodyAheadOfSelf
<1>3. ASSUME NEW o \in Ops, NEW outcome \in Outcome, Finish(o, outcome) PROVE NobodyAheadOfSelf'
  BY <1>3 DEF Finish, NobodyAheadOfSelf
<1>4. CASE Forget \/ UNCHANGED vars
  BY <1>4 DEF Forget, vars, NobodyAheadOfSelf
<1> QED BY <1>1, <1>2, <1>3, <1>4 DEF Next, Settle, RunAtOnce

LEMMA OneMore ==
  ASSUME NEW S, NEW x, IsFiniteSet(S), x \notin S
  PROVE  Cardinality(S \cup {x}) = Cardinality(S) + 1
BY FS_AddElement

\* The last before an operation has less ahead of it than the operation.
LEMMA PrevHasLessAhead ==
  ASSUME TypeOK, ChainInv, NobodyAheadOfSelf, IsFiniteSet(Ops),
         NEW o \in Ops, phase[o] = "queued", ~Released(o)
  PROVE  /\ prev[o] \in Ops /\ SameQueue(o, prev[o]) /\ phase[prev[o]] \in {"queued", "running"}
         /\ Cardinality(ahead[prev[o]]) < Cardinality(ahead[o])
<1>1. prev[o] \in Ops /\ prev[o] # NoOp /\ Unsettled(prev[o])
  BY DEF Released, TypeOK
<1>2. ahead[o] = {prev[o]} \cup ahead[prev[o]] /\ prev[o] \notin ahead[prev[o]]
  BY <1>1 DEF NobodyAheadOfSelf
<1>3. SameQueue(o, prev[o])
  BY <1>1, <1>2
<1>4. IsFiniteSet(ahead[prev[o]])
  BY <1>1, FS_Subset DEF TypeOK
<1>5. Cardinality(ahead[o]) = Cardinality(ahead[prev[o]]) + 1
  <2>1. ahead[o] = ahead[prev[o]] \cup {prev[o]}
    BY <1>2
  <2>2. Cardinality(ahead[prev[o]] \cup {prev[o]}) = Cardinality(ahead[prev[o]]) + 1
    BY <1>2, <1>4, OneMore
  <2> QED BY <2>1, <2>2
<1>6. Cardinality(ahead[prev[o]]) \in Nat
  BY <1>4, FS_CardinalityType
<1> QED BY <1>1, <1>3, <1>5, <1>6

LEMMA GoesOn ==
  ASSUME TypeOK, ChainInv, NobodyAheadOfSelf, IsFiniteSet(Ops)
  PROVE  SomebodyGoesOn
<1> SUFFICES ASSUME NEW o \in Ops, phase[o] = "queued"
             PROVE  \E p \in Ops : SameQueue(o, p) /\ (phase[p] = "running" \/ Released(p))
  BY DEF SomebodyGoesOn
<1> DEFINE Waiting == {q \in Ops : phase[q] = "queued" /\ SameQueue(o, q)}
           Lengths == {Cardinality(ahead[p]) : p \in Waiting}
<1>1. Lengths \subseteq Nat
  BY FS_Subset, FS_CardinalityType DEF TypeOK
<1>2. Lengths # {}
  BY DEF TypeOK
<1> HIDE DEF Lengths
<1>3. PICK least \in Lengths : \A m \in Lengths : <<m, least>> \notin OpToRel(<, Nat)
  BY <1>1, <1>2, WFMin, NatLessThanWellFounded
<1>4. PICK p \in Waiting : Cardinality(ahead[p]) = least
  <2>1. \A m \in Lengths : \E p \in Waiting : Cardinality(ahead[p]) = m
    <3> HIDE DEF Waiting
    <3> QED BY DEF Lengths
  <2> QED BY <1>3, <2>1
<1>5. CASE Released(p)
  BY <1>4, <1>5
<1>6. CASE ~Released(p)
  <2> DEFINE before == prev[p]
  <2>1. /\ before \in Ops /\ SameQueue(p, before) /\ phase[before] \in {"queued", "running"}
        /\ Cardinality(ahead[before]) < least
    BY <1>4, <1>6, PrevHasLessAhead
  <2> HIDE DEF before
  <2>2. SameQueue(o, before)
    BY <1>4, <2>1
  <2>3. phase[before] # "queued"
    <3> SUFFICES ASSUME phase[before] = "queued" PROVE FALSE
      OBVIOUS
    <3>1. Cardinality(ahead[before]) \in Lengths
      BY <2>1, <2>2 DEF Lengths
    <3> QED BY <1>1, <1>3, <2>1, <3>1 DEF OpToRel
  <2> QED BY <2>1, <2>2, <2>3
<1> QED BY <1>5, <1>6

\* A queue with somebody in it never stands still: one of its operations runs or may
\* run, for any finite number of calls and whatever settled, failed or was forgotten
\* before (prev.then(op, op), the delete in the finally, shadowOps.clear()).
THEOREM QueueGoesOn == IsFiniteSet(Ops) => (Spec => []SomebodyGoesOn)
<1> SUFFICES ASSUME IsFiniteSet(Ops) PROVE Spec => []SomebodyGoesOn
  OBVIOUS
<1>1. Init => NobodyAheadOfSelf
  BY DEF Init, NobodyAheadOfSelf
<1>2. TypeOK /\ ChainInv /\ NobodyAheadOfSelf /\ [Next]_vars => NobodyAheadOfSelf'
  BY StepSelf
<1>3. Spec => [](TypeOK /\ ChainInv /\ NobodyAheadOfSelf)
  BY <1>1, <1>2, TypeCorrect, ChainCorrect, PTL DEF Spec
<1>4. TypeOK /\ ChainInv /\ NobodyAheadOfSelf => SomebodyGoesOn
  BY GoesOn
<1> QED BY <1>3, <1>4, PTL

\* Who comes later never gets ahead of who waits: what an operation has to wait for only
\* shrinks (a call chains itself behind the tail).
THEOREM NoOvertaking == Spec => NobodyOvertakes
<1> DEFINE Shrinks == \A o \in Ops : phase[o] = "queued" => ahead'[o] \subseteq ahead[o]
<1>1. TypeOK /\ [Next]_vars => [Shrinks]_vars
  <2> SUFFICES ASSUME TypeOK, Next PROVE Shrinks
    OBVIOUS
  <2>1. ASSUME NEW o \in Ops, NEW k \in Keys, Enqueue(o, k) PROVE Shrinks
    BY <2>1 DEF Enqueue, TypeOK
  <2>2. ASSUME NEW o \in Ops, NEW outcome \in Outcome, Finish(o, outcome) PROVE Shrinks
    BY <2>2 DEF Finish
  <2>3. CASE UNCHANGED ahead
    BY <2>3
  <2> QED BY <2>1, <2>2, <2>3 DEF Next, Start, Settle, RunAtOnce, Forget
<1> QED BY <1>1, TypeCorrect, PTL DEF Spec, NobodyOvertakes
=============================================================================
