---------------------------- MODULE NodeOnlineWait ----------------------------
(* utils/waitForNodeOnline.ts: after provisioning, one wait for a node to report *)
(* itself online. It borrows the node's registration with the orchestrator,     *)
(* listens to the shadow, polls it, and gives up on a timer; whoever comes      *)
(* first settles the wait, and the clean-up hands the registration back.        *)
(*                                                                              *)
(* The orchestrator is what the wait uses of it (NodeMQTTOrchestrator has the   *)
(* whole): one binding per node, listeners per shadow; a binding that is        *)
(* replaced or dropped takes the node's listeners on its shadow along. The app  *)
(* attaches and detaches its own listener (ESPRMNeoNode) at any moment.         *)
EXTENDS Naturals

CONSTANTS
  Shadows,      \* shadow names the node may be bound to
  NoShadow,     \* not bound
  MaxPolls,     \* bound: getShadow polls the interval has under way at once
  MaxAppMoves   \* bound: times the app attaches or detaches

ASSUME WaitAssumption == NoShadow \notin Shadows /\ {MaxPolls, MaxAppMoves} \subseteq Nat

VARIABLES
  wait,      \* the call of waitForNodeOnline: where it is and its local variables
  bound,     \* the orchestrator's nodeMap entry of the node
  attached,  \* the orchestrator's listeners of the node: <<whose, shadow>>
  reported,  \* the device has reported online
  app        \* the app's moves so far, and whether one fell into the wait (history)

waitVars == <<wait, bound, attached, reported, app>>

Running == {"connecting", "subscribing", "polling", "waiting", "cleaning"}
Over == {"resolved", "rejected"}

WaitInit ==
  /\ wait \in [step : {"idle"}, shadow : Shadows, alreadyBound : {FALSE}, verdict : {"none"},
               timer : {"off"}, ticking : {FALSE}, polls : {0}, cleanAt : {NoShadow}]
  /\ bound = NoShadow /\ attached = {}
  /\ reported \in BOOLEAN
  /\ app = [moves |-> 0, disturbed |-> FALSE]

\* registerNode and unregisterNode: what becomes of the listeners when the
\* binding turns to s (or to none).
Rebind(s) ==
  /\ bound' = s
  /\ attached' = IF s = bound THEN attached ELSE {l \in attached : l[2] # bound}

(* --- The app and the device -------------------------------------------------- *)

AppActs ==
  /\ app.moves < MaxAppMoves
  /\ app' = [moves |-> app.moves + 1, disturbed |-> app.disturbed \/ wait.step \in Running]
  /\ UNCHANGED <<wait, reported>>

AppAttaches(s) ==
  /\ AppActs
  /\ bound' = s
  /\ attached' = {l \in attached : s = bound \/ l[2] # bound} \cup {<<"app", s>>}

AppDetaches == bound # NoShadow /\ AppActs /\ Rebind(NoShadow)

DeviceReports == ~reported /\ reported' = TRUE /\ UNCHANGED <<wait, bound, attached, app>>

(* --- The wait ----------------------------------------------------------------- *)

settled == wait.verdict # "none"   \* isSettled

\* settleOnline, the timeout's markSettled and the catch: the first to come decides.
Settled(w, what) == IF settled THEN w ELSE [w EXCEPT !.verdict = what]

\* Mutation: the timer is left running.
CleaningTimed(w) == [w EXCEPT !.step = "cleaning", !.ticking = FALSE, !.cleanAt = bound]

\* cleanup, up to its await: timers stopped, the binding to leave looked up.
Cleaning(w) == [w EXCEPT !.step = "cleaning", !.timer = "off", !.ticking = FALSE, !.cleanAt = bound]

\* Mutation: the registration is not looked up.
BeginUnaware ==
  /\ wait.step = "idle"
  /\ wait' = [wait EXCEPT !.step = "connecting"]
  /\ UNCHANGED <<bound, attached, reported, app>>

Begin ==
  /\ wait.step = "idle"
  /\ wait' = [wait EXCEPT !.step = "connecting", !.alreadyBound = bound # NoShadow]
  /\ UNCHANGED <<bound, attached, reported, app>>

\* Connected, by itself or by connectMQTT: bind, and start to subscribe.
Connected ==
  /\ wait.step = "connecting"
  /\ wait' = [wait EXCEPT !.step = "subscribing"]
  /\ Rebind(wait.shadow)
  /\ UNCHANGED <<reported, app>>

\* Listening: the timer runs from here, and the first poll starts.
Subscribed ==
  /\ wait.step = "subscribing"
  /\ wait' = [wait EXCEPT !.step = "polling", !.timer = "armed"]
  /\ attached' = attached \cup {<<"wait", wait.shadow>>}
  /\ UNCHANGED <<bound, reported, app>>

\* connectMQTT or the subscribe rejects.
Fail ==
  /\ wait.step \in {"connecting", "subscribing"}
  /\ wait' = Settled(Cleaning(wait), "error")
  /\ UNCHANGED <<bound, attached, reported, app>>

\* A getShadow answers: an error (no shadow yet, not bound any more), or the
\* document, online or not yet.
AnswerMayBe(online) == online => reported /\ bound # NoShadow
Heard(w, online) == IF online THEN Settled(w, "online") ELSE w

FirstPollAnswers(online) ==
  /\ wait.step = "polling" /\ AnswerMayBe(online)
  /\ wait' = [Heard(wait, online) EXCEPT !.step = "waiting", !.ticking = ~settled /\ ~online]
  /\ UNCHANGED <<bound, attached, reported, app>>

PollTicks ==
  /\ wait.ticking /\ ~settled /\ wait.polls < MaxPolls
  /\ wait' = [wait EXCEPT !.polls = @ + 1]
  /\ UNCHANGED <<bound, attached, reported, app>>

PollAnswers(online) ==
  /\ wait.polls > 0 /\ AnswerMayBe(online)
  /\ wait' = [Heard(wait, online) EXCEPT !.polls = @ - 1]
  /\ UNCHANGED <<bound, attached, reported, app>>

\* onUpdate: a live shadow message says online.
Pushed ==
  /\ reported /\ ~settled /\ \E s \in Shadows : <<"wait", s>> \in attached
  /\ wait' = Heard(wait, TRUE)
  /\ UNCHANGED <<bound, attached, reported, app>>

TimerFires ==
  /\ wait.timer = "armed"
  /\ wait' = [Settled(wait, "timeout") EXCEPT !.timer = "fired"]
  /\ UNCHANGED <<bound, attached, reported, app>>

\* await online.promise returns or throws: on to the clean-up.
WaitOver ==
  /\ wait.step = "waiting" /\ settled
  /\ wait' = Cleaning(wait)
  /\ UNCHANGED <<bound, attached, reported, app>>

\* The listener is off; the binding is dropped unless it was there before.
CleanedUp ==
  /\ wait.step = "cleaning"
  /\ wait' = [wait EXCEPT !.step = IF wait.verdict = "online" THEN "resolved" ELSE "rejected"]
  /\ LET left == attached \ {<<"wait", wait.cleanAt>>} IN
       IF wait.alreadyBound THEN attached' = left /\ UNCHANGED bound
       ELSE bound' = NoShadow /\ attached' = {l \in left : l[2] # bound}
  /\ UNCHANGED <<reported, app>>

WaitNext ==
  \/ Begin \/ Connected \/ Subscribed \/ Fail \/ PollTicks \/ Pushed \/ TimerFires
  \/ WaitOver \/ CleanedUp \/ DeviceReports \/ AppDetaches
  \/ \E online \in BOOLEAN : FirstPollAnswers(online) \/ PollAnswers(online)
  \/ \E s \in Shadows : AppAttaches(s)

WaitSpec == WaitInit /\ [][WaitNext]_waitVars

(* --- Properties ---------------------------------------------------------------- *)

WaitTypeOK ==
  /\ wait \in [step : Running \cup Over \cup {"idle"}, shadow : Shadows, alreadyBound : BOOLEAN,
               verdict : {"none", "online", "timeout", "error"}, timer : {"off", "armed", "fired"},
               ticking : BOOLEAN, polls : 0..MaxPolls, cleanAt : Shadows \cup {NoShadow}]
  /\ bound \in Shadows \cup {NoShadow}
  /\ attached \subseteq {"wait", "app"} \X Shadows
  /\ app \in [moves : 0..MaxAppMoves, disturbed : BOOLEAN]

\* A wait that is over has left nothing behind: no timer, no interval, and, unless
\* the app bound or unbound the node meanwhile, no listener and no binding of its
\* own; and it resolved only for a device that was online (cleanup, settleOnline).
WaitLeavesNothing ==
  wait.step \in Over =>
    /\ wait.timer # "armed" /\ ~wait.ticking
    /\ wait.step = "resolved" => reported
    /\ ~app.disturbed => \A s \in Shadows : <<"wait", s>> \notin attached
    /\ app.moves = 0 => bound = NoShadow

\* The wait never takes a listener of the app off the shadow it waits for, when the
\* app attached it before ("so a later ESPRMNeoNode attach does not lose
\* listeners"; the alreadyRegistered check and the rebinding to the same shadow).
AppKeepsItsListener ==
  [][app' = app /\ ~app.disturbed /\ <<"app", wait.shadow>> \in attached
       => <<"app", wait.shadow>> \in attached']_waitVars

\* The wait settles once, and then its timer and its interval are gone for good, however
\* late a poll, a push or the timeout comes (isSettled, markSettled, cleanup).
WaitSettling == INSTANCE OneShot WITH
  Calls <- {"wait"}, Outcomes <- Over, Things <- {"timer", "interval"},
  state <- [c \in {"wait"} |-> IF wait.step \in Running THEN "underway" ELSE wait.step],
  held <- [c \in {"wait"} |-> {t \in {"timer", "interval"} :
             IF t = "timer" THEN wait.timer = "armed" ELSE wait.ticking}]
WaitSettlesOnce == WaitSettling!Spec

\* Under way; that it ends whatever the network does the timer sees to
\* (EveryFlowEnds of MCDevice).
Waiting == wait.step \notin {"idle"} \cup Over
=============================================================================
