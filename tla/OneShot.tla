------------------------------- MODULE OneShot -------------------------------
(* A call settles once, whoever comes first to settle it, and from then on      *)
(* neither changes its mind nor has anything left in the world: no handler, no   *)
(* timer, no place in a queue. What settles one call may settle others with it.   *)
(* The requests of ShadowRequest, the wait of NodeOnlineWait and the operations    *)
(* of LocalControl make this promise.                                               *)

CONSTANTS Calls, Outcomes, Things   \* what a call may hold while it is under way

VARIABLES state,  \* "idle", "underway", or the outcome
          held    \* what the call has in the world

vars == <<state, held>>

Init == state = [c \in Calls |-> "idle"] /\ held = [c \in Calls |-> {}]

Begin(c) ==
  /\ state[c] = "idle"
  /\ state' = [state EXCEPT ![c] = "underway"]
  /\ \E some \in SUBSET Things : held' = [held EXCEPT ![c] = some]

\* A call under way takes something, or lets go of something.
Hold(c) ==
  /\ state[c] = "underway"
  /\ \E some \in SUBSET Things : held' = [held EXCEPT ![c] = some]
  /\ UNCHANGED state

\* Calls that are not over settle, each its own way; one may be refused at once.
Settle(over) ==
  /\ \A c \in over : state[c] \in {"idle", "underway"}
  /\ \E outcome \in [over -> Outcomes] :
       state' = [c \in Calls |-> IF c \in over THEN outcome[c] ELSE state[c]]
  /\ held' = [c \in Calls |-> IF c \in over THEN {} ELSE held[c]]

Next ==
  \/ \E c \in Calls : Begin(c) \/ Hold(c)
  \/ \E over \in SUBSET Calls : Settle(over)

Spec == Init /\ [][Next]_vars
=============================================================================
