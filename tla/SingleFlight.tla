----------------------------- MODULE SingleFlight -----------------------------
(* Callers who need the same thing share the flight that fetches it: who comes  *)
(* while one is in the air boards it, and only who finds none starts another.    *)
(* When a flight lands, well or not, everybody on it gets off, and the next who   *)
(* comes starts anew. `refreshTemporaryCredentialsOnce' makes this promise to     *)
(* signed requests; SessionCredentials describes how it is kept.                   *)

CONSTANTS Callers, Flights, NoFlight

VARIABLES airborne,  \* the flights in the air
          aboard     \* the flight each caller is on

vars == <<airborne, aboard>>

Init == airborne = {} /\ aboard = [c \in Callers |-> NoFlight]

\* A caller on board stays there: nobody boards twice.
Board(c, f) ==
  /\ aboard[c] = NoFlight
  /\ airborne' = {f} /\ airborne \subseteq {f}
  /\ aboard' = [aboard EXCEPT ![c] = f]

Land == airborne # {} /\ airborne' = {} /\ aboard' = [c \in Callers |-> NoFlight]

Next == Land \/ \E c \in Callers, f \in Flights : Board(c, f)

Spec == Init /\ [][Next]_vars
===============================================================================
