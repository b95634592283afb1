--------------------------- MODULE DeviceFlows_proofs ---------------------------
(* What the SDK does with devices, proved for every value of the constants:         *)
(* waiting for a node, provisioning it, claiming it, reading and writing it over its *)
(* local link, and what a group does for its nodes. Each flow has state of its own,   *)
(* an inductive invariant and one step per action. The flows share nothing but the     *)
(* facts about documents that travel in fragments.                                      *)
EXTENDS MCDevice, SerialQueue_proofs, SequenceTheorems, FiniteSetTheorems, WellFoundedInduction,
        NaturalsInduction, TLAPS

-----------------------------------------------------------------------------
(* The wait for a node (NodeOnlineWait) *)

WaitRecords ==
  [step : Running \cup Over \cup {"idle"}, shadow : Shadows, alreadyBound : BOOLEAN,
   verdict : {"none", "online", "timeout", "error"}, timer : {"off", "armed", "fired"},
   ticking : BOOLEAN, polls : Nat, cleanAt : Shadows \cup {NoShadow}]

WaitTyped ==
  /\ wait \in WaitRecords /\ bound \in Shadows \cup {NoShadow}
  /\ attached \subseteq {"wait", "app"} \X Shadows
  /\ reported \in BOOLEAN /\ app \in [moves : Nat, disturbed : BOOLEAN]

\* Timers and the verdict, by the step the wait is in.
StepsAgree ==
  /\ wait.step \in {"idle", "connecting", "subscribing"} =>
       wait.timer = "off" /\ wait.verdict = "none" /\ wait.polls = 0 /\ ~wait.ticking
  /\ wait.timer = "armed" => wait.step \in {"polling", "waiting"}
  /\ wait.ticking => wait.step = "waiting"
  /\ wait.step \in {"cleaning"} \cup Over => wait.verdict # "none"
  /\ wait.verdict = "online" => reported
  /\ wait.step = "resolved" => wait.verdict = "online"

\* Listeners of the app are where the node is bound. The wait's is, as long as the app
\* leaves the wait alone, on its own shadow, where the node then is bound.
ListenersAgree ==
  /\ \A s \in Shadows : <<"app", s>> \in attached => bound = s
  /\ wait.step \in {"idle", "connecting", "subscribing"} => \A s \in Shadows : <<"wait", s>> \notin attached
  /\ ~app.disturbed =>
       /\ wait.step \in {"subscribing", "polling", "waiting", "cleaning"} => bound = wait.shadow \/ wait.verdict = "error"
       /\ \A s \in Shadows : <<"wait", s>> \in attached =>
            wait.step \in {"polling", "waiting", "cleaning"} /\ s = wait.shadow /\ bound = s
       /\ wait.step = "cleaning" => wait.cleanAt = bound
       /\ wait.step \in Running /\ (\E s \in Shadows : <<"app", s>> \in attached) => wait.alreadyBound
  /\ app.moves = 0 =>
       /\ ~app.disturbed /\ ~wait.alreadyBound
       /\ wait.step \in {"idle", "connecting"} \cup Over => bound = NoShadow

WaitInv == WaitTyped /\ StepsAgree /\ ListenersAgree

LEMMA WaitStarts == WaitInit => WaitInv
<1> SUFFICES ASSUME WaitInit PROVE WaitInv
  OBVIOUS
<1>1. wait \in WaitRecords /\ wait.step = "idle" /\ wait.timer = "off" /\ wait.verdict = "none" /\ ~wait.ticking /\ ~wait.alreadyBound /\ wait.polls = 0
  <2>1. {"idle"} \subseteq Running \cup Over \cup {"idle"} /\ {NoShadow} \subseteq Shadows \cup {NoShadow} /\ {0} \subseteq Nat
    OBVIOUS
  <2>2. wait \in WaitRecords
    BY <2>1 DEF WaitInit, WaitRecords
  <2> QED
    BY <2>2 DEF WaitInit
<1> QED
  BY <1>1, WaitAssumption DEF WaitInit, WaitInv, WaitTyped, StepsAgree, ListenersAgree, Running, Over

\* What the app and the device do.
LEMMA AppInWait ==
  ASSUME WaitInv, \/ \E s \in Shadows : AppAttaches(s)
                  \/ AppDetaches \/ DeviceReports
  PROVE  WaitInv'
<1> USE WaitAssumption DEF WaitInv, WaitTyped, WaitRecords, StepsAgree, ListenersAgree, Running, Over
<1>1. ASSUME NEW s \in Shadows, AppAttaches(s) PROVE WaitInv'
  <2>1. WaitTyped'
    BY <1>1 DEF AppAttaches, AppActs
  <2>2. StepsAgree'
    BY <1>1 DEF AppAttaches, AppActs
  <2>3. \A t \in Shadows : <<"app", t>> \in attached' => t = s
    BY <1>1 DEF AppAttaches
  <2>4. \A t \in Shadows : <<"wait", t>> \in attached' => <<"wait", t>> \in attached /\ (s = bound \/ t # bound)
    BY <1>1 DEF AppAttaches
  <2>5. app'.moves # 0 /\ bound' = s /\ wait' = wait /\ app'.disturbed = (app.disturbed \/ wait.step \in Running)
    BY <1>1 DEF AppAttaches, AppActs
  <2>6. ListenersAgree'
    BY <2>3, <2>4, <2>5 DEF AppActs
  <2> QED
    BY <2>1, <2>2, <2>6
<1>2. ASSUME AppDetaches PROVE WaitInv'
  <2>1. WaitTyped'
    BY <1>2 DEF AppDetaches, AppActs, Rebind
  <2>2. StepsAgree'
    BY <1>2 DEF AppDetaches, AppActs, Rebind
  <2>3. \A t \in Shadows : <<"app", t>> \notin attached'
    BY <1>2 DEF AppDetaches, Rebind
  <2>4. attached' \subseteq attached
    BY <1>2 DEF AppDetaches, Rebind
  <2>5. app'.moves # 0 /\ bound' = NoShadow /\ wait' = wait /\ app'.disturbed = (app.disturbed \/ wait.step \in Running)
    BY <1>2 DEF AppDetaches, AppActs, Rebind
  <2>6. ListenersAgree'
    BY <2>3, <2>4, <2>5
  <2> QED
    BY <2>1, <2>2, <2>6
<1>3. ASSUME DeviceReports PROVE WaitInv'
  BY <1>3 DEF DeviceReports
<1> QED
  BY <1>1, <1>2, <1>3

\* The wait itself, from its start to its clean-up.
LEMMA WaitGoesOn ==
  ASSUME WaitInv, \/ Begin \/ Connected \/ Subscribed \/ Fail \/ PollTicks \/ Pushed \/ TimerFires
                  \/ WaitOver \/ CleanedUp
                  \/ \E online \in BOOLEAN : FirstPollAnswers(online) \/ PollAnswers(online)
  PROVE  WaitInv'
<1> USE WaitAssumption DEF WaitInv, WaitTyped, WaitRecords, StepsAgree, ListenersAgree, Running, Over
<1>1. ASSUME Begin PROVE WaitInv'
  BY <1>1 DEF Begin
<1>2. ASSUME Connected PROVE WaitInv'
  BY <1>2 DEF Connected, Rebind
<1>3. ASSUME Subscribed PROVE WaitInv'
  <2>1. WaitTyped'
    <3>1. <<"wait", wait.shadow>> \in {"wait", "app"} \X Shadows
      OBVIOUS
    <3>2. wait' \in WaitRecords
      BY <1>3 DEF Subscribed
    <3> QED
      BY <1>3, <3>1, <3>2 DEF Subscribed
  <2>2. StepsAgree'
    BY <1>3 DEF Subscribed
  <2>3. ListenersAgree'
    BY <1>3 DEF Subscribed
  <2> QED
    BY <2>1, <2>2, <2>3
<1>4. ASSUME Fail PROVE WaitInv'
  BY <1>4 DEF Fail, Settled, settled, Cleaning
<1>5. ASSUME PollTicks PROVE WaitInv'
  <2>1. WaitTyped'
    BY <1>5 DEF PollTicks
  <2>2. StepsAgree'
    BY <1>5 DEF PollTicks
  <2>3. ListenersAgree'
    BY <1>5 DEF PollTicks
  <2> QED
    BY <2>1, <2>2, <2>3
<1>6. ASSUME Pushed PROVE WaitInv'
  <2>1. WaitTyped'
    BY <1>6 DEF Pushed, Heard, Settled, settled
  <2>2. StepsAgree'
    <3>1. wait' = [wait EXCEPT !.verdict = "online"] /\ reported /\ UNCHANGED reported /\ wait.verdict = "none"
      BY <1>6 DEF Pushed, Heard, Settled, settled
    <3>2. wait' \in WaitRecords /\ wait'.verdict = "online" /\ wait'.step = wait.step
          /\ wait'.timer = wait.timer /\ wait'.ticking = wait.ticking /\ wait'.polls = wait.polls
      BY <3>1
    <3>3. StepsAgree /\ wait.step \notin {"idle", "connecting", "subscribing"}
      BY <1>6 DEF Pushed
    <3> HIDE DEF WaitInv, WaitTyped, WaitRecords, ListenersAgree
    <3> QED
      BY <3>1, <3>2, <3>3
  <2>3. ListenersAgree'
    BY <1>6 DEF Pushed, Heard, Settled, settled
  <2> QED
    BY <2>1, <2>2, <2>3
<1>7. ASSUME TimerFires PROVE WaitInv'
  BY <1>7 DEF TimerFires, Settled, settled
<1>8. ASSUME WaitOver PROVE WaitInv'
  BY <1>8 DEF WaitOver, Cleaning, settled
<1>9. ASSUME CleanedUp PROVE WaitInv'
  BY <1>9 DEF CleanedUp
<1>10. ASSUME NEW online \in BOOLEAN, FirstPollAnswers(online) PROVE WaitInv'
  BY <1>10 DEF FirstPollAnswers, AnswerMayBe, Heard, Settled, settled
<1>11. ASSUME NEW online \in BOOLEAN, PollAnswers(online) PROVE WaitInv'
  <2>1. WaitTyped'
    BY <1>11 DEF PollAnswers, AnswerMayBe, Heard, Settled, settled
  <2>2. StepsAgree'
    <3>1. /\ wait'.step = wait.step /\ wait'.timer = wait.timer /\ wait'.ticking = wait.ticking
          /\ wait'.verdict = wait.verdict \/ (wait.verdict = "none" /\ wait'.verdict = "online" /\ reported)
      BY <1>11 DEF PollAnswers, AnswerMayBe, Heard, Settled, settled
    <3>2. UNCHANGED reported
      BY <1>11 DEF PollAnswers
    <3>3. StepsAgree /\ wait.step \notin {"idle", "connecting", "subscribing"}
      BY <1>11 DEF PollAnswers
    <3> HIDE DEF WaitInv, WaitTyped, WaitRecords, ListenersAgree
    <3> QED
      BY <3>1, <3>2, <3>3
  <2>3. ListenersAgree'
    BY <1>11 DEF PollAnswers, AnswerMayBe, Heard, Settled, settled
  <2> QED
    BY <2>1, <2>2, <2>3
<1> QED
  BY <1>1, <1>2, <1>3, <1>4, <1>5, <1>6, <1>7, <1>8, <1>9, <1>10, <1>11

LEMMA WaitStep == WaitInv /\ [WaitNext]_waitVars => WaitInv'
<1>1. WaitInv /\ UNCHANGED waitVars => WaitInv'
  BY DEF waitVars, WaitInv, WaitTyped, WaitRecords, StepsAgree, ListenersAgree
<1> QED
  BY <1>1, AppInWait, WaitGoesOn DEF WaitNext

LEMMA WaitInvariant == WaitSpec => []WaitInv
  BY WaitStarts, WaitStep, PTL DEF WaitSpec

\* A wait that is over leaves no timer, listener or binding of its own behind, for any
\* shadows and however often the app attaches and detaches (waitForNodeOnline's cleanup).
THEOREM WaitIsTidy == WaitSpec => []WaitLeavesNothing
<1>1. WaitInv => WaitLeavesNothing
  BY DEF WaitInv, StepsAgree, ListenersAgree, WaitLeavesNothing, Over
<1> QED
  BY <1>1, WaitInvariant, PTL

\* The wait takes no listener of the app off that was there before it.
THEOREM AppIsLeftAlone == WaitSpec => AppKeepsItsListener
<1> DEFINE Keeps == app' = app /\ ~app.disturbed /\ <<"app", wait.shadow>> \in attached
                      => <<"app", wait.shadow>> \in attached'
<1>1. WaitInv /\ [WaitNext]_waitVars => [Keeps]_waitVars
  <2> SUFFICES ASSUME WaitInv, [WaitNext]_waitVars, app' = app, ~app.disturbed,
                      <<"app", wait.shadow>> \in attached
               PROVE  <<"app", wait.shadow>> \in attached'
    OBVIOUS
  <2>1. app.moves \in Nat /\ wait.shadow \in Shadows
    BY DEF WaitInv, WaitTyped, WaitRecords
  <2>2. CASE Connected
    BY <2>2 DEF Connected, Rebind
  <2>3. CASE Subscribed
    BY <2>3 DEF Subscribed
  <2>4. CASE CleanedUp
    <3>1. wait.alreadyBound
      BY <2>1, <2>4 DEF WaitInv, ListenersAgree, CleanedUp, Running
    <3> QED
      BY <2>4, <3>1 DEF CleanedUp
  <2>5. ASSUME NEW s \in Shadows, AppAttaches(s) PROVE FALSE
    BY <2>1, <2>5 DEF AppAttaches, AppActs
  <2>6. CASE AppDetaches
    BY <2>1, <2>6 DEF AppDetaches, AppActs
  <2>7. CASE UNCHANGED attached
    BY <2>7
  <2> QED
    BY <2>2, <2>3, <2>4, <2>5, <2>6, <2>7
    DEF WaitNext, waitVars, Begin, Fail, PollTicks, Pushed, TimerFires, WaitOver, DeviceReports,
        FirstPollAnswers, PollAnswers
<1>2. WaitSpec => [][Keeps]_waitVars
  BY <1>1, WaitInvariant, PTL DEF WaitSpec
<1> QED
  BY <1>2 DEF AppKeepsItsListener

\* The bounds that complete the types.
WaitBounds == wait.polls \in 0..MaxPolls /\ app.moves \in 0..MaxAppMoves

LEMMA WaitTypes == WaitSpec => []WaitTypeOK
<1>1. WaitInit => WaitBounds
  BY WaitAssumption DEF WaitInit, WaitBounds
<1>2. WaitInv /\ WaitBounds /\ [WaitNext]_waitVars => WaitBounds'
  <2> SUFFICES ASSUME WaitInv, WaitBounds, [WaitNext]_waitVars PROVE WaitBounds'
    OBVIOUS
  <2> USE DEF WaitBounds
  <2>0. wait \in WaitRecords /\ app \in [moves : Nat, disturbed : BOOLEAN]
    BY DEF WaitInv, WaitTyped
  <2>1. CASE UNCHANGED <<wait, app>>
    BY <2>1
  <2>2. CASE AppActs
    <3>1. app'.moves = app.moves + 1 /\ app.moves < MaxAppMoves /\ wait' = wait
      BY <2>2 DEF AppActs
    <3> QED BY <3>1, WaitAssumption
  <2>3. CASE PollTicks
    <3>1. wait'.polls = wait.polls + 1 /\ wait.polls < MaxPolls /\ app' = app
      BY <2>0, <2>3 DEF PollTicks, WaitRecords
    <3> QED BY <3>1, WaitAssumption
  <2>4. ASSUME NEW online \in BOOLEAN, PollAnswers(online) PROVE WaitBounds'
    <3>1. wait'.polls = wait.polls - 1 /\ wait.polls > 0 /\ app' = app
      BY <2>0, <2>4 DEF PollAnswers, WaitRecords, Heard, Settled
    <3> QED BY <3>1, WaitAssumption
  <2>5. CASE wait'.polls = wait.polls /\ app' = app
    BY <2>5
  <2>6. Begin \/ Connected \/ Subscribed \/ WaitOver \/ CleanedUp => wait'.polls = wait.polls /\ app' = app
    BY <2>0 DEF WaitRecords, Begin, Connected, Subscribed, WaitOver, CleanedUp, Cleaning
  <2>7. Fail \/ Pushed \/ TimerFires => wait'.polls = wait.polls /\ app' = app
    BY <2>0 DEF WaitRecords, Fail, Pushed, TimerFires, Cleaning, Settled, Heard
  <2>8. ASSUME NEW online \in BOOLEAN, FirstPollAnswers(online) PROVE wait'.polls = wait.polls /\ app' = app
    BY <2>0, <2>8 DEF WaitRecords, FirstPollAnswers, Heard, Settled
  <2>9. DeviceReports \/ UNCHANGED waitVars => UNCHANGED <<wait, app>>
    BY DEF DeviceReports, waitVars
  <2>10. AppDetaches \/ (\E s \in Shadows : AppAttaches(s)) => AppActs
    BY DEF AppDetaches, AppAttaches
  <2> QED
    BY <2>1, <2>2, <2>3, <2>4, <2>5, <2>6, <2>7, <2>8, <2>9, <2>10 DEF WaitNext
<1>3. WaitInv /\ WaitBounds => WaitTypeOK
  BY DEF WaitInv, WaitTyped, WaitRecords, WaitBounds, WaitTypeOK
<1> QED
  BY <1>1, <1>2, <1>3, WaitInvariant, PTL DEF WaitSpec

\* What the wait makes of itself in a step: it begins, goes on or ends; what is over has
\* no timer and no interval.
LEMMA WaitMoves ==
  ASSUME WaitInv, WaitNext
  PROVE  \/ wait.step = "idle" /\ wait'.step \in Running
         \/ wait.step \in Running /\ wait'.step \in Running
         \/ wait.step \in Running /\ wait'.step \in Over
         \/ wait'.step = wait.step /\ wait'.timer = wait.timer /\ wait'.ticking = wait.ticking
<1> USE DEF WaitInv, WaitTyped, WaitRecords, Running, Over
<1>1. ASSUME Begin \/ Connected \/ Subscribed \/ Fail \/ WaitOver \/ CleanedUp
      PROVE  \/ wait.step = "idle" /\ wait'.step \in Running
             \/ wait.step \in Running /\ wait'.step \in Running \cup Over
  BY <1>1 DEF Begin, Connected, Subscribed, Fail, Settled, Cleaning, WaitOver, CleanedUp
<1>2. ASSUME PollTicks \/ Pushed PROVE wait'.step = wait.step /\ wait'.timer = wait.timer /\ wait'.ticking = wait.ticking
  BY <1>2 DEF PollTicks, Pushed, Heard, Settled
<1>3. ASSUME NEW online \in BOOLEAN, PollAnswers(online)
      PROVE  wait'.step = wait.step /\ wait'.timer = wait.timer /\ wait'.ticking = wait.ticking
  <2> DEFINE h == Heard(wait, online)
  <2>1. h \in WaitRecords /\ h.step = wait.step /\ h.timer = wait.timer /\ h.ticking = wait.ticking
    BY DEF Heard, Settled
  <2>2. wait' = [h EXCEPT !.polls = wait.polls - 1] \/ wait' = [h EXCEPT !.polls = h.polls - 1]
    BY <1>3 DEF PollAnswers
  <2> HIDE DEF h
  <2> QED BY <2>1, <2>2
<1>4. ASSUME TimerFires PROVE wait.step \in Running /\ wait'.step \in Running
  BY <1>4 DEF TimerFires, Settled, StepsAgree
<1>5. ASSUME NEW online \in BOOLEAN, FirstPollAnswers(online) PROVE wait.step \in Running /\ wait'.step \in Running
  BY <1>5 DEF FirstPollAnswers, Heard, Settled
<1>6. ASSUME DeviceReports \/ AppDetaches \/ (\E s \in Shadows : AppAttaches(s)) PROVE wait' = wait
  BY <1>6 DEF DeviceReports, AppDetaches, AppAttaches, AppActs
<1> QED BY <1>1, <1>2, <1>3, <1>4, <1>5, <1>6 DEF WaitNext

LEMMA WaitStepSettles == WaitInv /\ WaitInv' /\ [WaitNext]_waitVars => [WaitSettling!Next]_(WaitSettling!vars)
<1> SUFFICES ASSUME WaitInv, WaitInv', [WaitNext]_waitVars PROVE [WaitSettling!Next]_(WaitSettling!vars)
  OBVIOUS
<1> DEFINE State(w) == IF w.step \in Running THEN "underway" ELSE w.step
           Held(w) == {t \in {"timer", "interval"} : IF t = "timer" THEN w.timer = "armed" ELSE w.ticking}
           now == [c \in {"wait"} |-> State(wait)]
           then == [c \in {"wait"} |-> State(wait')]
           has == [c \in {"wait"} |-> Held(wait)]
           had == [c \in {"wait"} |-> Held(wait')]
<1>1. /\ WaitSettling!Begin("wait") <=>
           now["wait"] = "idle" /\ then = [now EXCEPT !["wait"] = "underway"]
           /\ \E some \in SUBSET {"timer", "interval"} : had = [has EXCEPT !["wait"] = some]
      /\ WaitSettling!Hold("wait") <=>
           now["wait"] = "underway" /\ (\E some \in SUBSET {"timer", "interval"} : had = [has EXCEPT !["wait"] = some])
           /\ then = now
      /\ WaitSettling!Settle({"wait"}) <=>
           /\ \A c \in {"wait"} : now[c] \in {"idle", "underway"}
           /\ \E outcome \in [{"wait"} -> Over] :
                then = [c \in {"wait"} |-> IF c \in {"wait"} THEN outcome[c] ELSE now[c]]
           /\ had = [c \in {"wait"} |-> IF c \in {"wait"} THEN {} ELSE has[c]]
      /\ now = then /\ has = had => UNCHANGED WaitSettling!vars
  BY DEF WaitSettling!Begin, WaitSettling!Hold, WaitSettling!Settle, WaitSettling!vars
<1>2. had = [has EXCEPT !["wait"] = Held(wait')] /\ Held(wait') \in SUBSET {"timer", "interval"}
  OBVIOUS
<1>3. then = [now EXCEPT !["wait"] = State(wait')] /\ now["wait"] = State(wait)
  OBVIOUS
<1>4. "wait" \in {"wait"} /\ {"wait"} \in SUBSET {"wait"}
  OBVIOUS
<1>5. CASE wait.step = "idle" /\ wait'.step \in Running
  <2>1. State(wait) = "idle" /\ State(wait') = "underway"
    BY <1>5 DEF Running
  <2> HIDE DEF State, Held, now, then, has, had
  <2> QED BY <1>1, <1>2, <1>3, <1>4, <2>1 DEF WaitSettling!Next
<1>6. CASE wait.step \in Running /\ wait'.step \in Running
  <2>1. now["wait"] = "underway" /\ then = now
    BY <1>6
  <2> HIDE DEF State, Held, now, then, has, had
  <2> QED BY <1>1, <1>2, <1>4, <2>1 DEF WaitSettling!Next
<1>7. CASE wait.step \in Running /\ wait'.step \in Over
  <2>1. now["wait"] = "underway" /\ State(wait') = wait'.step
    BY <1>7 DEF Running, Over
  <2>2. Held(wait') = {}
    BY <1>7 DEF WaitInv, StepsAgree, Over
  <2>3. [c \in {"wait"} |-> wait'.step] \in [{"wait"} -> Over]
    BY <1>7
  <2>4. then = [c \in {"wait"} |-> IF c \in {"wait"} THEN [d \in {"wait"} |-> wait'.step][c] ELSE now[c]]
    BY <2>1
  <2>5. had = [c \in {"wait"} |-> IF c \in {"wait"} THEN {} ELSE has[c]]
    BY <2>2
  <2>6. \A c \in {"wait"} : now[c] \in {"idle", "underway"}
    BY <2>1
  <2> HIDE DEF State, Held, now, then, has, had
  <2> QED BY <1>1, <1>4, <2>3, <2>4, <2>5, <2>6 DEF WaitSettling!Next
<1>8. CASE wait'.step = wait.step /\ wait'.timer = wait.timer /\ wait'.ticking = wait.ticking
  <2>1. State(wait') = State(wait) /\ Held(wait') = Held(wait)
    BY <1>8
  <2>2. now = then /\ has = had
    BY <2>1
  <2> QED BY <1>1, <2>2
<1>9. UNCHANGED waitVars => wait' = wait
  BY DEF waitVars
<1> QED BY <1>5, <1>6, <1>7, <1>8, <1>9, WaitMoves

\* The wait settles once and then has no timer and no interval, for any shadows, polls
\* and moves of the app, however late a poll, a push or the timeout comes.
THEOREM WaitIsOver == WaitSpec => WaitSettlesOnce
<1>1. WaitInit => WaitSettling!Init
  <2> SUFFICES ASSUME WaitInit PROVE WaitSettling!Init
    OBVIOUS
  <2>1. wait.step = "idle" /\ wait.timer = "off" /\ ~wait.ticking
    BY DEF WaitInit
  <2> QED BY <2>1 DEF WaitSettling!Init, Running
<1> QED
  BY <1>1, WaitInvariant, WaitStarts, WaitStep, WaitStepSettles, PTL DEF WaitSpec, WaitSettlesOnce, WaitSettling!Spec

-----------------------------------------------------------------------------
(* Provisioning *)

ProvRecords ==
  [step : ProvSteps \cup ProvOver, kind : {"provision", "retry"}, group : Groups \cup {NoGroup},
   wait : BOOLEAN, good : BOOLEAN, request : Groups \cup {NoGroup}, signed : Groups \cup {NoGroup},
   status : {"none", "success", "failure", "throws"}, count : Nat]

ProvTyped ==
  /\ prov \in ProvRecords
  /\ resume \in [group : Groups \cup {NoGroup}, wait : BOOLEAN]
  /\ station \in [session : BOOLEAN, credentials : {"none", "bad", "good"}, online : BOOLEAN]
  /\ cloud \in [associated : SUBSET (Groups \cup {NoGroup}), open : SUBSET (Groups \cup {NoGroup})]

\* What may be resumed is associated, and so is the group of a call past the association.
PastAssociation ==
  /\ resume # NoResume => resume.group \in cloud.associated
  /\ prov.step \in {"initiating", "challenging", "verifying"} => prov.kind = "provision"
  /\ prov.step \in {"setting", "waiting", "succeeded"} =>
       prov.group \in cloud.associated /\ (prov.kind = "retry" => prov.group = resume.group)
  /\ prov.step = "waiting" => prov.status # "throws"
  /\ prov.step = "succeeded" => prov.status # "throws" /\ (prov.wait => station.online)

ProvInv == ProvTyped /\ PastAssociation

LEMMA ProvStarts == ProvInit => ProvInv
  BY DEF ProvInit, ProvInv, ProvTyped, ProvRecords, PastAssociation, NoResume, ProvSteps, ProvOver

LEMMA ProvStep == ProvInv /\ [ProvNext]_provVars => ProvInv'
<1> SUFFICES ASSUME ProvInv, [ProvNext]_provVars PROVE ProvInv'
  OBVIOUS
<1> USE DEF ProvInv, ProvTyped, ProvRecords, PastAssociation, ProvSteps, ProvOver, ProvFails
<1>1. ASSUME Connect \/ Disconnect \/ Joins PROVE ProvInv'
  BY <1>1 DEF Connect, Disconnect, Joins
<1>2. ASSUME NEW g \in Groups, NEW good \in BOOLEAN, NEW waits \in BOOLEAN, NEW user \in BOOLEAN,
             NEW kind \in {"chal_resp", "other"}, Provision(g, good, waits, user, kind)
      PROVE  ProvInv'
  <2>1. ProvTyped'
    <3>1. PICK step \in {"initiating", "failed"} :
            prov' = [prov EXCEPT !.step = step, !.kind = "provision", !.group = g, !.wait = waits, !.good = good,
                                 !.request = NoGroup, !.signed = NoGroup, !.status = "none", !.count = prov.count + 1]
      BY <1>2 DEF Provision
    <3>2. prov.count + 1 \in Nat
      OBVIOUS
    <3>3. prov \in ProvRecords /\ resume \in [group : Groups \cup {NoGroup}, wait : BOOLEAN]
      OBVIOUS
    <3>4. prov' \in ProvRecords
      <4> HIDE DEF ProvInv, ProvTyped, PastAssociation
      <4> QED
        BY <3>1, <3>2, <3>3 DEF ProvRecords
    <3>5. <<resume, cloud>>' \in [group : Groups \cup {NoGroup}, wait : BOOLEAN]
            \X [associated : SUBSET (Groups \cup {NoGroup}), open : SUBSET (Groups \cup {NoGroup})]
      BY <1>2 DEF Provision
    <3>6. station' \in [session : BOOLEAN, credentials : {"none", "bad", "good"}, online : BOOLEAN]
      BY <1>2 DEF Provision
    <3> QED
      BY <3>4, <3>5, <3>6
  <2>2. PastAssociation'
    BY <1>2 DEF Provision
  <2> QED
    BY <2>1, <2>2
<1>3. ASSUME NEW answered \in BOOLEAN, InitiateMapping(answered) PROVE ProvInv'
  <2>1. ProvTyped'
    BY <1>3 DEF InitiateMapping
  <2>2. PastAssociation'
    BY <1>3 DEF InitiateMapping
  <2> QED
    BY <2>1, <2>2
<1>4. ASSUME NEW response \in Responses, SignChallenge(response) PROVE ProvInv'
  <2>1. ProvTyped'
    BY <1>4 DEF SignChallenge
  <2>2. PastAssociation'
    BY <1>4 DEF SignChallenge
  <2> QED
    BY <2>1, <2>2
<1>5. ASSUME NEW answered \in BOOLEAN, VerifyMapping(answered) PROVE ProvInv'
  BY <1>5 DEF VerifyMapping
<1>6. ASSUME NEW good \in BOOLEAN, Retry(good) PROVE ProvInv'
  <2>1. ProvTyped'
    <3>1. PICK step \in {"setting", "failed"} :
            prov' = [prov EXCEPT !.step = step, !.kind = "retry", !.group = resume.group, !.wait = resume.wait,
                                 !.good = good, !.status = "none", !.count = prov.count + 1]
      BY <1>6 DEF Retry
    <3>2. prov.count + 1 \in Nat
      OBVIOUS
    <3>3. prov \in ProvRecords /\ resume \in [group : Groups \cup {NoGroup}, wait : BOOLEAN]
      OBVIOUS
    <3>4. prov' \in ProvRecords
      <4> HIDE DEF ProvInv, ProvTyped, PastAssociation
      <4> QED
        BY <3>1, <3>2, <3>3 DEF ProvRecords
    <3>5. <<resume, cloud>>' \in [group : Groups \cup {NoGroup}, wait : BOOLEAN]
            \X [associated : SUBSET (Groups \cup {NoGroup}), open : SUBSET (Groups \cup {NoGroup})]
      BY <1>6 DEF Retry
    <3>6. station' \in [session : BOOLEAN, credentials : {"none", "bad", "good"}, online : BOOLEAN]
      BY <1>6 DEF Retry
    <3> QED
      BY <3>4, <3>5, <3>6
  <2>2. PastAssociation'
    BY <1>6 DEF Retry
  <2> QED
    BY <2>1, <2>2
<1>7. ASSUME NEW status \in {"success", "failure", "throws"}, SetCredentials(status) PROVE ProvInv'
  <2>1. ProvTyped'
    <3>1. PICK step \in {"failed", "waiting", "succeeded"} : prov' = [prov EXCEPT !.step = step, !.status = status]
      BY <1>7 DEF SetCredentials
    <3>2. station' \in {station, [station EXCEPT !.credentials = "good", !.online = FALSE],
                         [station EXCEPT !.credentials = "bad", !.online = FALSE]}
      BY <1>7 DEF SetCredentials
    <3>3. prov \in ProvRecords /\ resume \in [group : Groups \cup {NoGroup}, wait : BOOLEAN]
      OBVIOUS
    <3>4. prov' \in ProvRecords
      <4> HIDE DEF ProvInv, ProvTyped, PastAssociation
      <4> QED
        BY <3>1, <3>2, <3>3 DEF ProvRecords
    <3>5. <<resume, cloud>>' \in [group : Groups \cup {NoGroup}, wait : BOOLEAN]
            \X [associated : SUBSET (Groups \cup {NoGroup}), open : SUBSET (Groups \cup {NoGroup})]
      BY <1>7 DEF SetCredentials
    <3>6. station' \in [session : BOOLEAN, credentials : {"none", "bad", "good"}, online : BOOLEAN]
      BY <1>7, <3>2 DEF SetCredentials
    <3> QED
      BY <3>4, <3>5, <3>6
  <2>2. PastAssociation'
    BY <1>7 DEF SetCredentials
  <2> QED
    BY <2>1, <2>2
<1>8. ASSUME NEW acknowledged \in BOOLEAN, ResetWifiStatus(acknowledged) PROVE ProvInv'
  BY <1>8 DEF ResetWifiStatus
<1>9. ASSUME NEW resolved \in BOOLEAN, OnlineWaitEnds(resolved) PROVE ProvInv'
  BY <1>9 DEF OnlineWaitEnds
<1>10. ASSUME ProvThrows PROVE ProvInv'
  BY <1>10 DEF ProvThrows
<1>11. ASSUME UNCHANGED provVars PROVE ProvInv'
  BY <1>11 DEF provVars
<1> HIDE DEF ProvInv
<1> QED
  BY <1>1, <1>2, <1>3, <1>4, <1>5, <1>6, <1>7, <1>8, <1>9, <1>10, <1>11 DEF ProvNext, ProvProgress

\* Provisioning that succeeds, at once or resumed after earlier attempts broke off, has
\* associated the node, handed over the credentials and, if asked, seen the device
\* online, for any groups and number of attempts (provision, retryNetworkCredentials).
THEOREM ProvisionedMeansSo == ProvSpec => []ProvisionedIsAssociated
<1>1. ProvInv => ProvisionedIsAssociated
  BY DEF ProvInv, PastAssociation, ProvisionedIsAssociated
<1> QED
  BY <1>1, ProvStarts, ProvStep, PTL DEF ProvSpec

\* The service associates no node with no group.
ProvBounds ==
  /\ prov.count \in 0..MaxAttempts
  /\ prov.step \in {"initiating", "challenging", "verifying"} => prov.group \in Groups
  /\ cloud.associated \subseteq Groups /\ cloud.open \subseteq Groups

LEMMA ProvTypes == ProvSpec => []ProvTypeOK
<1>1. ProvInit => ProvBounds
  BY ProvAssumption DEF ProvInit, ProvBounds
<1>2. ProvInv /\ ProvBounds /\ [ProvNext]_provVars => ProvBounds'
  <2> SUFFICES ASSUME ProvInv, ProvBounds, [ProvNext]_provVars PROVE ProvBounds'
    OBVIOUS
  <2> USE DEF ProvBounds
  <2>0. /\ prov \in ProvRecords /\ prov.count \in Nat
        /\ cloud \in [associated : SUBSET (Groups \cup {NoGroup}), open : SUBSET (Groups \cup {NoGroup})]
    BY DEF ProvInv, ProvTyped, ProvRecords
  <2> DEFINE Early == {"initiating", "challenging", "verifying"}
  <2>1. ASSUME NEW g \in Groups, NEW good \in BOOLEAN, NEW w \in BOOLEAN, NEW user \in BOOLEAN,
               NEW kind \in {"chal_resp", "other"}, Provision(g, good, w, user, kind)
        PROVE  ProvBounds'
    <3>1. prov'.count = prov.count + 1 /\ prov.count < MaxAttempts /\ prov'.group = g /\ cloud' = cloud
      BY <2>0, <2>1 DEF Provision, ProvRecords
    <3> QED BY <2>0, <3>1, ProvAssumption
  <2>2. ASSUME NEW good \in BOOLEAN, Retry(good) PROVE ProvBounds'
    <3>1. prov'.count = prov.count + 1 /\ prov.count < MaxAttempts /\ prov'.step \in {"failed", "setting"} /\ cloud' = cloud
      BY <2>0, <2>2 DEF Retry, ProvRecords
    <3> QED BY <2>0, <3>1, ProvAssumption
  <2>3. CASE prov'.count = prov.count /\ (prov'.step \in Early => prov.step \in Early /\ prov'.group = prov.group)
             /\ cloud'.associated \subseteq Groups /\ cloud'.open \subseteq Groups
    BY <2>3
  <2>4. ASSUME NEW answered \in BOOLEAN, InitiateMapping(answered) PROVE ProvBounds'
    <3>1. prov'.count = prov.count /\ prov'.group = prov.group /\ prov.step \in Early
      BY <2>0, <2>4 DEF InitiateMapping, ProvFails, ProvRecords
    <3>2. cloud'.associated = cloud.associated /\ cloud'.open = cloud.open \cup {prov.group}
      BY <2>0, <2>4 DEF InitiateMapping
    <3> QED BY <2>3, <3>1, <3>2
  <2>5. ASSUME NEW response \in Responses, SignChallenge(response) PROVE ProvBounds'
    <3>1. prov'.count = prov.count /\ prov'.group = prov.group /\ prov.step \in Early /\ cloud' = cloud
      BY <2>0, <2>5 DEF SignChallenge, ProvFails, ProvRecords
    <3> QED BY <2>3, <3>1
  <2>6. ASSUME NEW answered \in BOOLEAN, VerifyMapping(answered) PROVE ProvBounds'
    <3>1. prov'.count = prov.count /\ prov'.group = prov.group /\ prov.step \in Early
      BY <2>0, <2>6 DEF VerifyMapping, ProvFails, ProvRecords
    <3>2. \/ cloud' = cloud
          \/ /\ cloud'.associated = cloud.associated \cup {prov.group}
             /\ cloud'.open = cloud.open \ {prov.request}
      BY <2>0, <2>6 DEF VerifyMapping
    <3> QED BY <2>3, <3>1, <3>2
  <2>7. ASSUME NEW status \in {"success", "failure", "throws"}, SetCredentials(status) PROVE ProvBounds'
    <3>1. prov'.count = prov.count /\ prov'.step \notin Early /\ cloud' = cloud
      BY <2>0, <2>7 DEF SetCredentials, ProvRecords
    <3> QED BY <2>3, <3>1
  <2>8. ASSUME NEW resolved \in BOOLEAN, OnlineWaitEnds(resolved) PROVE ProvBounds'
    <3>1. prov'.count = prov.count /\ prov'.step \notin Early /\ cloud' = cloud
      BY <2>0, <2>8 DEF OnlineWaitEnds, ProvFails, ProvRecords
    <3> QED BY <2>3, <3>1
  <2>9. CASE ProvThrows
    <3>1. prov'.count = prov.count /\ prov'.step \notin Early /\ cloud' = cloud
      BY <2>0, <2>9 DEF ProvThrows, ProvFails, ProvRecords
    <3> QED BY <2>3, <3>1
  <2>10. CASE UNCHANGED <<prov, cloud>>
    BY <2>10
  <2>11. Connect \/ Disconnect \/ Joins \/ (\E acknowledged \in BOOLEAN : ResetWifiStatus(acknowledged)) \/ UNCHANGED provVars
           => UNCHANGED <<prov, cloud>>
    BY DEF Connect, Disconnect, Joins, ResetWifiStatus, provVars
  <2> QED
    BY <2>1, <2>2, <2>4, <2>5, <2>6, <2>7, <2>8, <2>9, <2>10, <2>11 DEF ProvNext, ProvProgress
<1>3. ProvInv /\ ProvBounds => ProvTypeOK
  BY DEF ProvInv, ProvTyped, ProvRecords, ProvBounds, ProvTypeOK
<1> QED
  BY <1>1, <1>2, <1>3, ProvStarts, ProvStep, PTL DEF ProvSpec

-----------------------------------------------------------------------------
(* Assisted claiming *)

CsrPart(n) == SubSeq(TheCsr, 1, n)
CertPart(n) == SubSeq(Certificate(service.issued), 1, n)
CertBytes == Nat \X Nat

ClaimTyped ==
  /\ claim \in [step : {"idle"} \cup ClaimSteps \cup ClaimOver, mac : Spellings, csr : Seq(Nat), chunk : Nat,
                iterations : Nat, certificate : Seq(CertBytes), offset : Nat, host : SUBSET {"host"}, count : Nat]
  /\ device \in [spelling : Spellings, at : 0..CsrLen, received : Seq(CertBytes), installed : Nat,
                 host : SUBSET {"host"}, parked : BOOLEAN]
  /\ service \in [reserved : SUBSET {"AABB"}, issued : Nat, signed : Seq(Nat)]

\* What has been read of the request is what the device has sent of it.
RequestIsWhole ==
  /\ claim.step = "info" => claim.csr = <<>>
  /\ claim.step \in {"initiate", "csr"} => claim.csr = CsrPart(device.at)
  /\ claim.step = "verify" => claim.csr = TheCsr

\* What the device has received of the certificate is what has been sent of it.
CertificateIsWhole ==
  /\ claim.step \in {"info", "initiate", "csr", "verify"} => claim.offset = 0
  /\ claim.step \in {"initiate", "csr", "verify"} => device.received = <<>>
  /\ claim.step = "certificate" =>
       /\ service.signed = TheCsr /\ claim.host = {"host"}
       /\ claim.certificate = Certificate(service.issued)
       /\ claim.offset \in 0..CertLen /\ device.received = CertPart(claim.offset)

ClaimInv == ClaimTyped /\ RequestIsWhole /\ CertificateIsWhole /\ ClaimedAsIssued

LEMMA Documents ==
  /\ TheCsr \in Seq(Nat) /\ Len(TheCsr) = CsrLen
  /\ \A k \in Nat : Certificate(k) \in Seq(CertBytes) /\ Len(Certificate(k)) = CertLen
<1>1. TheCsr \in [1..CsrLen -> Nat] /\ Len(TheCsr) = CsrLen
  BY ClaimAssumption DEF TheCsr
<1>2. \A k \in Nat : Certificate(k) \in [1..CertLen -> CertBytes] /\ Len(Certificate(k)) = CertLen
  BY ClaimAssumption DEF Certificate, CertBytes
<1>3. CsrLen \in Nat /\ CertLen \in Nat
  BY ClaimAssumption
<1>4. TheCsr \in Seq(Nat)
  BY <1>1, <1>3, IsASeq
<1>5. ASSUME NEW k \in Nat PROVE Certificate(k) \in Seq(CertBytes)
  BY <1>2, <1>3, IsASeq
<1> QED
  BY <1>1, <1>2, <1>4, <1>5

\* The next part of a document, put behind what there is of it.
LEMMA Parts ==
  ASSUME NEW S, NEW doc \in Seq(S), NEW m \in 0..Len(doc), NEW n \in m..Len(doc)
  PROVE  /\ SubSeq(doc, 1, m) \o SubSeq(doc, m + 1, n) = SubSeq(doc, 1, n)
         /\ Len(SubSeq(doc, m + 1, n)) = n - m /\ SubSeq(doc, m + 1, n) \in Seq(S)
         /\ SubSeq(doc, 1, Len(doc)) = doc /\ SubSeq(doc, 1, 0) = <<>>
         /\ SubSeq(doc, 1, n) \in Seq(S) /\ Len(SubSeq(doc, 1, n)) = n
<1>1. Len(doc) \in Nat
  BY LenProperties
<1>2. SubSeq(doc, 1, m) \o SubSeq(doc, m + 1, n) = SubSeq(doc, 1, n)
  <2>1. CASE m = 0
    BY <1>1, <2>1, SubSeqEmpty, SubSeqProperties, ConcatEmptySeq
  <2>2. CASE m # 0
    BY <1>1, <2>2, ConcatAdjacentSubSeq
  <2> QED
    BY <2>1, <2>2
<1>3. Len(SubSeq(doc, m + 1, n)) = n - m /\ SubSeq(doc, m + 1, n) \in Seq(S)
  BY <1>1, SubSeqProperties
<1>4. SubSeq(doc, 1, Len(doc)) = doc /\ SubSeq(doc, 1, 0) = <<>>
  BY <1>1, SubSeqFull, SubSeqEmpty
<1>5. SubSeq(doc, 1, n) \in Seq(S) /\ Len(SubSeq(doc, 1, n)) = n
  BY <1>1, SubSeqProperties
<1> QED
  BY <1>2, <1>3, <1>4, <1>5

LEMMA ClaimStarts == ClaimInit => ClaimInv
<1>1. ClaimInit => ClaimTyped
  BY ClaimAssumption DEF ClaimInit, ClaimTyped, Spellings
<1>2. ClaimInit => RequestIsWhole /\ CertificateIsWhole /\ ClaimedAsIssued
  BY DEF ClaimInit, RequestIsWhole, CertificateIsWhole, ClaimedAsIssued
<1> QED
  BY <1>1, <1>2 DEF ClaimInv

\* Reading on: the chunk begins the request, or goes on where it stopped.
LEMMA ChunkRead ==
  ASSUME ClaimInv, NEW answer \in DeviceChunks, NEW total \in {CsrLen, 0}, ReadChunk(answer, total),
         total = 0 => answer.offset = 0 /\ Len(answer.data) = CsrLen
  PROVE  ClaimInv'
<1>2. device.at \in 0..CsrLen /\ claim.csr = CsrPart(device.at) /\ claim.step = "csr" /\ claim.chunk \in Nat
      /\ claim.iterations \in Nat /\ CsrLen \in Nat
  BY ClaimAssumption DEF ClaimInv, ClaimTyped, RequestIsWhole, ReadChunk
<1>0. PICK from \in {0, device.at} :
        answer \in {[offset |-> from, data |-> SubSeq(TheCsr, from + 1, to)] :
                      to \in {n \in from..CsrLen : n <= from + FragmentLimit}}
  BY DEF DeviceChunks
<1>1. PICK to \in from..CsrLen : answer = [offset |-> from, data |-> SubSeq(TheCsr, from + 1, to)]
  BY <1>0
<1>3. CASE OverBudget(claim.iterations + 1)
  <2>1. claim' = [claim EXCEPT !.step = "abort"] /\ UNCHANGED <<device, service>>
    BY <1>3 DEF ReadChunk, Aborting
  <2> QED
    BY <2>1 DEF ClaimInv, ClaimTyped, ClaimSteps, ClaimOver, RequestIsWhole, CertificateIsWhole, ClaimedAsIssued
<1>4. CASE ~OverBudget(claim.iterations + 1)
  <2> DEFINE csr == IF answer.offset = 0 THEN answer.data ELSE claim.csr \o answer.data
             chunk == IF answer.offset = 0 THEN Len(answer.data) ELSE claim.chunk
  <2>1. /\ csr = CsrPart(to) /\ Len(csr) = to /\ csr \in Seq(Nat) /\ Len(answer.data) = to - from
        /\ to \in 0..CsrLen /\ from \in 0..to /\ answer.offset = from
    <3>1. from \in 0..Len(TheCsr) /\ to \in from..Len(TheCsr) /\ TheCsr \in Seq(Nat)
      BY <1>1, <1>2, Documents
    <3>2. /\ SubSeq(TheCsr, 1, from) \o SubSeq(TheCsr, from + 1, to) = SubSeq(TheCsr, 1, to)
          /\ Len(SubSeq(TheCsr, from + 1, to)) = to - from
          /\ SubSeq(TheCsr, 1, to) \in Seq(Nat) /\ Len(SubSeq(TheCsr, 1, to)) = to
      BY <3>1, Parts
    <3>3. answer.offset = from /\ answer.data = SubSeq(TheCsr, from + 1, to)
      BY <1>1
    <3>4. csr = SubSeq(TheCsr, 1, to)
      <4>1. CASE from = 0
        BY <3>3, <4>1
      <4>2. CASE from # 0
        BY <1>2, <3>2, <3>3, <4>2 DEF CsrPart
      <4> QED
        BY <4>1, <4>2
    <3>5. to \in 0..CsrLen /\ from \in 0..to
      BY <1>2
    <3> QED
      BY <3>2, <3>3, <3>4, <3>5 DEF CsrPart
  <2>2. chunk \in Nat /\ claim.iterations + 1 \in Nat
    BY <1>2, <2>1
  <2> DEFINE step == IF Len(csr) >= total THEN IF csr = <<>> THEN "abort" ELSE "verify"
                     ELSE IF answer.data = <<>> THEN "abort" ELSE "csr"
             read == [claim EXCEPT !.iterations = claim.iterations + 1, !.csr = csr, !.chunk = chunk]
  <2>3. /\ claim' = [claim EXCEPT !.iterations = claim.iterations + 1, !.csr = csr, !.chunk = chunk, !.step = step]
        /\ step \in {"csr", "verify", "abort"} /\ (step = "verify" => Len(csr) >= total)
    <3>1. claim' = IF Len(csr) >= total
                   THEN IF csr = <<>> THEN Aborting(read) ELSE [read EXCEPT !.step = "verify"]
                   ELSE IF answer.data = <<>> THEN Aborting(read) ELSE read
      BY <1>4 DEF ReadChunk
    <3>2. Len(csr) \in Nat /\ total \in Nat
      <4> HIDE DEF csr
      <4> QED
        BY <1>2, <2>1
    <3>3. claim.step = "csr" /\ claim \in [step : {"idle"} \cup ClaimSteps \cup ClaimOver, mac : Spellings, csr : Seq(Nat), chunk : Nat,
                iterations : Nat, certificate : Seq(CertBytes), offset : Nat, host : SUBSET {"host"}, count : Nat]
      BY <1>2 DEF ClaimInv, ClaimTyped
    <3> HIDE DEF csr, chunk
    <3>4. CASE Len(csr) >= total /\ csr = <<>>
      BY <3>1, <3>2, <3>4 DEF Aborting
    <3>5. CASE Len(csr) >= total /\ csr # <<>>
      BY <3>1, <3>2, <3>5
    <3>6. CASE Len(csr) < total /\ answer.data = <<>>
      BY <3>1, <3>2, <3>6 DEF Aborting
    <3>7. CASE Len(csr) < total /\ answer.data # <<>>
      <4>1. claim' = read /\ step = "csr"
        BY <3>1, <3>2, <3>7
      <4>2. read.step = "csr" /\ read = [read EXCEPT !.step = "csr"]
        BY <3>3
      <4> QED
        BY <3>2, <3>7, <4>1, <4>2
    <3> QED
      BY <3>2, <3>4, <3>5, <3>6, <3>7
  <2>4. device' = [device EXCEPT !.at = to] /\ UNCHANGED service
    BY <1>4, <2>1 DEF ReadChunk
  <2>5. step = "verify" => csr = TheCsr
    <3>1. step = "verify" => to = CsrLen
      <4> HIDE DEF step, csr
      <4> QED
        BY <1>2, <2>1, <2>3
    <3>2. SubSeq(TheCsr, 1, CsrLen) = TheCsr
      BY Documents, SubSeqFull
    <3> HIDE DEF step, csr
    <3> QED
      BY <2>1, <3>1, <3>2 DEF CsrPart
  <2> HIDE DEF csr, chunk, step
  <2>6. ClaimTyped'
    BY <2>1, <2>2, <2>3, <2>4 DEF ClaimInv, ClaimTyped, ClaimSteps
  <2>7. claim'.step = step /\ claim'.csr = csr /\ claim'.offset = claim.offset /\ device'.at = to
        /\ device'.received = device.received /\ step \in {"csr", "verify", "abort"}
    BY <2>3, <2>4 DEF ClaimInv, ClaimTyped
  <2>8. RequestIsWhole'
    BY <2>1, <2>5, <2>7 DEF RequestIsWhole, CsrPart
  <2>9. CertificateIsWhole' /\ ClaimedAsIssued'
    BY <1>2, <2>7 DEF CertificateIsWhole, ClaimedAsIssued, ClaimInv
  <2> QED
    BY <2>6, <2>8, <2>9 DEF ClaimInv
<1> QED
  BY <1>3, <1>4

\* A fragment goes on where the last one stopped, and the last one completes the certificate.
LEMMA FragmentSent == ClaimInv /\ SendFragment => ClaimInv'
<1> SUFFICES ASSUME ClaimInv, SendFragment PROVE ClaimInv'
  OBVIOUS
<1> DEFINE to == IF claim.offset + ChunkSize < CertLen THEN claim.offset + ChunkSize ELSE CertLen
           doc == Certificate(service.issued)
<1>1. /\ claim.step = "certificate" /\ claim.offset \in 0..CertLen /\ CertLen \in Nat /\ ChunkSize \in Nat
      /\ service.issued \in Nat /\ doc \in Seq(CertBytes) /\ Len(doc) = CertLen
      /\ claim.certificate = doc /\ device.received = SubSeq(doc, 1, claim.offset)
      /\ service.signed = TheCsr /\ claim.host = {"host"}
  BY ClaimAssumption, Documents DEF ClaimInv, ClaimTyped, CertificateIsWhole, SendFragment, ChunkSize, CertPart
<1>2. to \in claim.offset..CertLen
  BY <1>1
<1> DEFINE received == SubSeq(device.received, 1, claim.offset) \o Fragment(claim.offset)
<1>3. received = SubSeq(doc, 1, to) /\ received \in Seq(CertBytes) /\ (to = CertLen => received = doc)
  <2>1. Fragment(claim.offset) = SubSeq(doc, claim.offset + 1, to)
    BY <1>1 DEF Fragment
  <2>2. /\ SubSeq(doc, 1, claim.offset) \o SubSeq(doc, claim.offset + 1, to) = SubSeq(doc, 1, to)
        /\ SubSeq(doc, 1, Len(doc)) = doc /\ SubSeq(doc, 1, to) \in Seq(CertBytes)
        /\ device.received \in Seq(CertBytes) /\ Len(device.received) = claim.offset
    <3>1. claim.offset \in 0..Len(doc) /\ to \in claim.offset..Len(doc)
      BY <1>1, <1>2
    <3>2. claim.offset \in claim.offset..Len(doc)
      BY <1>1
    <3> HIDE DEF doc, to
    <3> HIDE DEF ClaimInv
    <3>3. /\ SubSeq(doc, 1, claim.offset) \o SubSeq(doc, claim.offset + 1, to) = SubSeq(doc, 1, to)
          /\ SubSeq(doc, 1, Len(doc)) = doc /\ SubSeq(doc, 1, to) \in Seq(CertBytes)
      <4>1. doc \in Seq(CertBytes)
        BY <1>1
      <4> DEFINE m == claim.offset
      <4>2. m \in 0..Len(doc) /\ to \in m..Len(doc)
        BY <3>1
      <4> HIDE DEF m, doc, to
      <4>3. SubSeq(doc, 1, m) \o SubSeq(doc, m + 1, to) = SubSeq(doc, 1, to)
        BY <4>1, <4>2, Parts
      <4>4. SubSeq(doc, 1, Len(doc)) = doc /\ SubSeq(doc, 1, to) \in Seq(CertBytes)
        BY <4>1, <4>2, Parts
      <4> QED
        BY <4>3, <4>4 DEF m
    <3>4. SubSeq(doc, 1, claim.offset) \in Seq(CertBytes) /\ Len(SubSeq(doc, 1, claim.offset)) = claim.offset
      BY <1>1, <3>1, <3>2, Parts
    <3> QED
      BY <1>1, <3>3, <3>4
  <2>3. SubSeq(device.received, 1, claim.offset) = device.received
    BY <2>2, SubSeqFull
  <2> QED
    BY <1>1, <2>1, <2>2, <2>3
<1> DEFINE installed == IF received = doc THEN service.issued ELSE device.installed
           host == IF received = doc THEN claim.host ELSE device.host
           step == IF claim.offset + ChunkSize >= CertLen THEN "success" ELSE claim.step
           parked == received # doc
<1>4. /\ device' = [device EXCEPT !.received = received, !.installed = installed, !.host = host, !.parked = parked]
      /\ claim' = [claim EXCEPT !.offset = claim.offset + ChunkSize, !.step = step]
      /\ UNCHANGED service
  BY DEF SendFragment, Reassembled
<1>5. /\ installed \in Nat /\ host \in SUBSET {"host"} /\ parked \in BOOLEAN /\ step \in {"certificate", "success"}
      /\ step = "success" => to = CertLen
      /\ step = "certificate" => to = claim.offset + ChunkSize
      /\ claim.offset + ChunkSize \in Nat
  BY <1>1 DEF ClaimInv, ClaimTyped
<1>6. to = CertLen => installed = service.issued /\ host = {"host"} /\ parked = FALSE
  BY <1>1, <1>3
<1> HIDE DEF to, doc, received, installed, host, step, parked
<1>7. ClaimTyped'
  BY <1>3, <1>4, <1>5 DEF ClaimInv, ClaimTyped, ClaimSteps, ClaimOver
<1>8. /\ claim'.step = step /\ claim'.offset = claim.offset + ChunkSize /\ claim'.certificate = claim.certificate
      /\ claim'.host = claim.host /\ device'.received = received /\ device'.installed = installed
      /\ device'.host = host /\ device'.parked = parked
  BY <1>4 DEF ClaimInv, ClaimTyped
<1>9. RequestIsWhole'
  BY <1>5, <1>8 DEF RequestIsWhole
<1>10. CertificateIsWhole'
  <2>1. SUFFICES ASSUME claim'.step = "certificate"
                 PROVE  claim'.offset \in 0..CertLen /\ received = SubSeq(doc, 1, claim'.offset)
    BY <1>1, <1>4, <1>5, <1>8 DEF CertificateIsWhole, CertPart, doc
  <2> QED
    BY <1>1, <1>2, <1>3, <1>5, <1>8, <2>1
<1>11. ClaimedAsIssued'
  BY <1>1, <1>4, <1>5, <1>6, <1>8 DEF ClaimedAsIssued
<1> QED
  BY <1>7, <1>9, <1>10, <1>11 DEF ClaimInv

LEMMA ClaimStep == ClaimInv /\ [ClaimNext]_claimVars => ClaimInv'
<1> SUFFICES ASSUME ClaimInv, [ClaimNext]_claimVars PROVE ClaimInv'
  OBVIOUS
<1> USE DEF ClaimInv, ClaimTyped, ClaimSteps, ClaimOver, RequestIsWhole, CertificateIsWhole, ClaimedAsIssued
<1>1. ASSUME StartClaim PROVE ClaimInv'
  <2>1. claim.count + 1 \in Nat
    OBVIOUS
  <2>2. claim' = [claim EXCEPT !.step = "info", !.mac = "none", !.csr = <<>>, !.chunk = 0, !.iterations = 0,
                               !.certificate = <<>>, !.offset = 0, !.count = claim.count + 1]
        /\ UNCHANGED <<device, service>>
    BY <1>1 DEF StartClaim
  <2>5. <<>> \in Seq(Nat) /\ <<>> \in Seq(CertBytes)
    OBVIOUS
  <2>6. "none" \in Spellings
    BY DEF Spellings
  <2>3. ClaimTyped'
    BY <2>1, <2>2, <2>5, <2>6
  <2>4. RequestIsWhole' /\ CertificateIsWhole' /\ ClaimedAsIssued'
    BY <2>2
  <2> QED
    BY <2>3, <2>4
<1>2. ASSUME NEW spelling \in Spellings, DeviceInfo(spelling) PROVE ClaimInv'
  <2>1. \/ claim' = [claim EXCEPT !.step = "abort"]
        \/ claim' = [claim EXCEPT !.step = "initiate", !.mac = spelling]
    BY <1>2 DEF DeviceInfo, Aborting
  <2>2. SubSeq(TheCsr, 1, 0) = <<>>
    BY Documents, SubSeqEmpty
  <2>3. CsrLen \in Nat
    BY ClaimAssumption
  <2>4. device' = [device EXCEPT !.spelling = spelling, !.at = 0, !.received = <<>>, !.parked = TRUE]
        /\ 0 \in 0..CsrLen /\ UNCHANGED service
    BY <1>2, <2>3 DEF DeviceInfo
  <2>6. device' \in [spelling : Spellings, at : 0..CsrLen, received : Seq(CertBytes), installed : Nat,
                     host : SUBSET {"host"}, parked : BOOLEAN]
    <3>1. <<>> \in Seq(CertBytes)
      OBVIOUS
    <3> QED
      BY <2>4, <3>1
  <2>7. ClaimTyped'
    BY <2>1, <2>4, <2>6
  <2>5. RequestIsWhole' /\ CertificateIsWhole' /\ ClaimedAsIssued'
    BY <1>2, <2>1, <2>2 DEF DeviceInfo, CsrPart
  <2> QED
    BY <2>5, <2>7
<1>3. ASSUME NEW answered \in BOOLEAN, Initiate(answered) PROVE ClaimInv'
  <2>1. PICK step \in {"csr", "abort"} : claim' = [claim EXCEPT !.step = step]
    BY <1>3 DEF Initiate, Aborting
  <2>2. NormalizeMac(claim.mac) \in {"AABB", ""}
    BY DEF NormalizeMac
  <2>3. service' \in {service, [service EXCEPT !.reserved = service.reserved \cup {"AABB"}]}
    BY <1>3, <2>2 DEF Initiate
  <2>4. UNCHANGED device /\ claim.step = "initiate"
    BY <1>3 DEF Initiate
  <2>7. service' \in [reserved : SUBSET {"AABB"}, issued : Nat, signed : Seq(Nat)]
    <3>1. service.reserved \cup {"AABB"} \in SUBSET {"AABB"}
      OBVIOUS
    <3> QED
      BY <2>3, <3>1
  <2>5. ClaimTyped'
    BY <2>1, <2>4, <2>7
  <2>6. RequestIsWhole' /\ CertificateIsWhole' /\ ClaimedAsIssued'
    BY <2>1, <2>3, <2>4 DEF CsrPart
  <2> QED
    BY <2>5, <2>6
<1>4. ASSUME ReadChunks PROVE ClaimInv'
  <2> HIDE DEF ClaimInv
  <2>1. PICK answer \in DeviceChunks :
          \/ ReadChunk(answer, CsrLen)
          \/ answer.offset = 0 /\ Len(answer.data) = CsrLen /\ ReadChunk(answer, 0)
    BY <1>4 DEF ReadChunks
  <2>2. CASE ReadChunk(answer, CsrLen) /\ CsrLen # 0
    BY <2>2, ChunkRead
  <2>3. CASE answer.offset = 0 /\ Len(answer.data) = CsrLen /\ ReadChunk(answer, 0)
    BY <2>3, ChunkRead
  <2>4. CASE ReadChunk(answer, CsrLen) /\ CsrLen = 0
    <3>1. answer.offset = 0 /\ Len(answer.data) = 0
      <4>1. device.at \in 0..CsrLen
        BY DEF ClaimInv, ClaimTyped
      <4>2. PICK from \in {0, device.at} :
              answer \in {[offset |-> from, data |-> SubSeq(TheCsr, from + 1, to)] :
                            to \in {n \in from..CsrLen : n <= from + FragmentLimit}}
        BY DEF DeviceChunks
      <4>3. PICK to \in from..CsrLen : answer = [offset |-> from, data |-> SubSeq(TheCsr, from + 1, to)]
        BY <4>2
      <4>4. device.at = 0 /\ from = 0 /\ to = 0
        BY <2>4, <4>1
      <4>5. SubSeq(TheCsr, 1, 0) = <<>>
        BY Documents, SubSeqEmpty
      <4> QED
        BY <4>3, <4>4, <4>5
    <3> QED
      BY <2>4, <3>1, ChunkRead
  <2> QED
    BY <2>1, <2>2, <2>3, <2>4
<1>5. ASSUME NEW answered \in BOOLEAN, NEW host \in Endpoints, NEW configured \in Endpoints, Verify(answered, host, configured)
      PROVE  ClaimInv'
  <2>1. ResolveHost(host, configured) \in SUBSET {"host"}
    BY DEF ResolveHost, NormalizeHost
  <2>2. service.issued + 1 \in Nat /\ service' = [service EXCEPT !.issued = service.issued + 1, !.signed = claim.csr]
        /\ UNCHANGED device /\ claim.csr = TheCsr /\ claim.step = "verify" /\ service'.issued = service.issued + 1
    BY <1>5 DEF Verify
  <2>3. CASE answered /\ ResolveHost(host, configured) # {}
    <3>1. claim' = [claim EXCEPT !.step = "certificate", !.certificate = Certificate(service'.issued),
                                 !.host = ResolveHost(host, configured)]
      BY <1>5, <2>3 DEF Verify
    <3>2. Certificate(service'.issued) \in Seq(CertBytes) /\ ResolveHost(host, configured) = {"host"}
          /\ SubSeq(Certificate(service'.issued), 1, 0) = <<>> /\ 0 \in 0..CertLen
      BY <2>1, <2>2, <2>3, Documents, SubSeqEmpty, ClaimAssumption
    <3>3. ClaimTyped'
      BY <2>2, <3>1, <3>2
    <3>4. RequestIsWhole' /\ CertificateIsWhole' /\ ClaimedAsIssued'
      BY <2>2, <3>1, <3>2 DEF CertPart
    <3> QED
      BY <3>3, <3>4
  <2>4. CASE ~(answered /\ ResolveHost(host, configured) # {})
    <3>1. claim' = [claim EXCEPT !.step = "abort"]
      BY <1>5, <2>4 DEF Verify, Aborting
    <3> QED
      BY <2>2, <3>1
  <2> QED
    BY <2>3, <2>4
<1>6. ASSUME SendFragment PROVE ClaimInv'
  BY <1>6, FragmentSent
<1>7. ASSUME NEW heard \in BOOLEAN, Abort(heard) PROVE ClaimInv'
  BY <1>7 DEF Abort
<1>8. ASSUME ExchangeFails PROVE ClaimInv'
  BY <1>8 DEF ExchangeFails, Aborting
<1>9. ASSUME UNCHANGED claimVars PROVE ClaimInv'
  BY <1>9 DEF claimVars, CsrPart, CertPart
<1> HIDE DEF ClaimInv
<1> QED
  BY <1>1, <1>2, <1>3, <1>4, <1>5, <1>6, <1>7, <1>8, <1>9 DEF ClaimNext, ClaimProgress

\* A claim reported successful left the device with the certificate on record, whole,
\* signed over the whole request, for any lengths, limits and number of claims
\* (retrieveCsr, sendCertificate).
THEOREM ClaimedIsAsIssued == ClaimSpec => []ClaimedAsIssued
<1>1. ClaimInv => ClaimedAsIssued
  BY DEF ClaimInv
<1> QED
  BY <1>1, ClaimStarts, ClaimStep, PTL DEF ClaimSpec

\* The service issues no more certificates than claims were started, and one that has
\* not asked yet still may.
ClaimBounds ==
  /\ claim.iterations <= MaxChunks /\ claim.count <= MaxClaims
  /\ claim.chunk <= FragmentLimit /\ claim.offset <= CertLen + FragmentLimit
  /\ device.installed <= service.issued /\ service.issued <= claim.count
  /\ claim.step \in {"info", "initiate", "csr", "verify"} => service.issued < claim.count

LEMMA ClaimTypes == ClaimSpec => []ClaimTypeOK
<1> USE ClaimAssumption
<1>1. ClaimInit => ClaimBounds
  BY DEF ClaimInit, ClaimBounds
<1>2. ClaimInv /\ ClaimBounds /\ [ClaimNext]_claimVars => ClaimBounds'
  <2> SUFFICES ASSUME ClaimInv, ClaimBounds, [ClaimNext]_claimVars PROVE ClaimBounds'
    OBVIOUS
  <2> DEFINE Before == {"info", "initiate", "csr", "verify"}
  <2>0. /\ claim \in [step : {"idle"} \cup ClaimSteps \cup ClaimOver, mac : Spellings, csr : Seq(Nat), chunk : Nat,
                      iterations : Nat, certificate : Seq(CertBytes), offset : Nat, host : SUBSET {"host"}, count : Nat]
        /\ device \in [spelling : Spellings, at : 0..CsrLen, received : Seq(CertBytes), installed : Nat,
                       host : SUBSET {"host"}, parked : BOOLEAN]
        /\ service \in [reserved : SUBSET {"AABB"}, issued : Nat, signed : Seq(Nat)]
    BY DEF ClaimInv, ClaimTyped
  \* What most steps do: none of the counters moves.
  <2>1. CASE /\ claim'.iterations = claim.iterations /\ claim'.count = claim.count
             /\ claim'.chunk = claim.chunk /\ claim'.offset = claim.offset
             /\ device'.installed = device.installed /\ service'.issued = service.issued
             /\ claim'.step \in Before => claim.step \in Before
    BY <2>1 DEF ClaimBounds
  <2>2. CASE ExchangeFails
    BY <2>0, <2>1, <2>2 DEF ExchangeFails, Aborting
  <2>3. CASE StartClaim
    <3>1. /\ claim'.iterations = 0 /\ claim'.count = claim.count + 1 /\ claim.count < MaxClaims
          /\ claim'.chunk = 0 /\ claim'.offset = 0 /\ device' = device /\ service' = service
      BY <2>0, <2>3 DEF StartClaim
    <3> QED BY <2>0, <3>1 DEF ClaimBounds
  <2>4. ASSUME NEW spelling \in Spellings, DeviceInfo(spelling) PROVE ClaimBounds'
    BY <2>0, <2>1, <2>4 DEF DeviceInfo, Aborting
  <2>5. ASSUME NEW answered \in BOOLEAN, Initiate(answered) PROVE ClaimBounds'
    BY <2>0, <2>1, <2>5 DEF Initiate, Aborting
  <2>6. ASSUME NEW answer \in DeviceChunks, NEW total \in {0, CsrLen}, ReadChunk(answer, total) PROVE ClaimBounds'
    <3>1. CASE OverBudget(claim.iterations + 1)
      BY <2>0, <2>1, <2>6, <3>1 DEF ReadChunk, Aborting
    <3>2. CASE ~OverBudget(claim.iterations + 1)
      <4> DEFINE csr == IF answer.offset = 0 THEN answer.data ELSE claim.csr \o answer.data
                 chunk == IF answer.offset = 0 THEN Len(answer.data) ELSE claim.chunk
                 read == [claim EXCEPT !.iterations = claim.iterations + 1, !.csr = csr, !.chunk = chunk]
      <4>1. claim' \in {read, [read EXCEPT !.step = "abort"], [read EXCEPT !.step = "verify"]}
        BY <2>6, <3>2 DEF ReadChunk, Aborting
      <4>2. /\ claim'.iterations = claim.iterations + 1 /\ claim'.count = claim.count
            /\ claim'.offset = claim.offset /\ claim'.chunk = chunk
        <5> HIDE DEF csr, chunk
        <5> QED BY <2>0, <4>1
      <4>5. /\ claim.iterations + 1 <= MaxChunks /\ claim.step \in Before /\ service' = service
            /\ chunk \in {claim.chunk, Len(answer.data)}
        BY <2>0, <2>6, <3>2 DEF ReadChunk, OverBudget
      <4> HIDE DEF csr, chunk, read
      <4>3. device'.installed = device.installed
        BY <2>0, <2>6, <3>2 DEF ReadChunk
      <4>4. Len(answer.data) <= FragmentLimit
        <5>1. PICK from \in {0, device.at} : \E to \in {n \in from..CsrLen : n <= from + FragmentLimit} :
                answer = [offset |-> from, data |-> SubSeq(TheCsr, from + 1, to)]
          BY DEF DeviceChunks
        <5>2. PICK to \in from..CsrLen : to <= from + FragmentLimit /\ answer.data = SubSeq(TheCsr, from + 1, to)
          BY <5>1
        <5>3. from \in 0..CsrLen /\ TheCsr \in Seq(Nat) /\ Len(TheCsr) = CsrLen
          BY <2>0, Documents
        <5>4. Len(answer.data) = to - from
          BY <5>2, <5>3, Parts
        <5> QED BY <5>2, <5>3, <5>4
      <4> QED BY <2>0, <4>2, <4>3, <4>4, <4>5 DEF ClaimBounds
    <3> QED BY <3>1, <3>2
  <2>7. ASSUME NEW answered \in BOOLEAN, NEW host \in Endpoints, NEW configured \in Endpoints,
               Verify(answered, host, configured)
        PROVE  ClaimBounds'
    <3>1. service'.issued = service.issued + 1 /\ device' = device /\ claim.step = "verify"
      BY <2>0, <2>7 DEF Verify
    <3>2. /\ claim'.iterations = claim.iterations /\ claim'.count = claim.count /\ claim'.chunk = claim.chunk
          /\ claim'.offset = claim.offset /\ claim'.step \notin Before
      BY <2>0, <2>7 DEF Verify, Aborting
    <3> QED BY <2>0, <3>1, <3>2 DEF ClaimBounds
  <2>8. CASE SendFragment
    <3>1. claim.step = "certificate" /\ claim.offset <= CertLen
      BY <2>0, <2>8 DEF SendFragment, ClaimInv, CertificateIsWhole
    <3>2. ChunkSize \in 0..FragmentLimit
      BY <2>0 DEF ChunkSize
    <3>3. /\ claim'.offset = claim.offset + ChunkSize /\ claim'.step \in {"success", "certificate"} /\ service' = service
          /\ claim'.iterations = claim.iterations /\ claim'.count = claim.count /\ claim'.chunk = claim.chunk
      BY <2>0, <2>8, <3>1 DEF SendFragment
    <3>4. device'.installed \in {device.installed, service.issued}
      BY <2>0, <2>8 DEF SendFragment, Reassembled
    <3> QED BY <2>0, <3>1, <3>2, <3>3, <3>4 DEF ClaimBounds
  <2>9. ASSUME NEW heard \in BOOLEAN, Abort(heard) PROVE ClaimBounds'
    BY <2>0, <2>1, <2>9 DEF Abort
  <2>10. CASE UNCHANGED claimVars
    BY <2>1, <2>10 DEF claimVars
  <2> QED
    BY <2>2, <2>3, <2>4, <2>5, <2>6, <2>7, <2>8, <2>9, <2>10 DEF ClaimNext, ClaimProgress, ReadChunks
<1>3. ClaimInv /\ ClaimBounds => ClaimTypeOK
  BY DEF ClaimInv, ClaimTyped, ClaimBounds, ClaimTypeOK
<1> QED
  BY <1>1, <1>2, <1>3, ClaimStarts, ClaimStep, PTL DEF ClaimSpec

-----------------------------------------------------------------------------
(* Local control *)

Bytes == {"params", "config", "write", "none"} \X Nat \X Nat
Calls ==
  [what : Reading \cup {"write", "none"}, left : Seq({"local", "mqtt"}),
   step : OpOver \cup {"idle", "elsewhere", "checking", "connecting", "queued", "pulling", "writing"},
   via : {"none", "local", "mqtt"}, tries : Nat, got : Seq(Bytes), odd : BOOLEAN, since : Nat]

LocalTyped ==
  /\ op \in [LinkOps -> Calls]
  /\ reads \in Seq(LinkOps)
  /\ peer \in [connected : BOOLEAN, security : 0..2, known : BOOLEAN, cache : Seq(Bytes) \cup {NoCache},
               version : Nat, written : SUBSET LinkOps]

\* The queue holds the reads that wait and the one that pulls, which is its first.
OnlyTheFirstPulls ==
  /\ \A i, j \in 1..Len(reads) : reads[i] = reads[j] => i = j
  /\ \A i \in 1..Len(reads) : op[reads[i]].step \in {"queued", "pulling"}
  /\ \A o \in LinkOps : op[o].step = "pulling" => reads # <<>> /\ reads[1] = o

\* A read under way has the beginning of the document the device holds for it, one
\* the device had during the call.
PulledFromOne(o) ==
  /\ op[o].step \in {"checking", "connecting", "queued"} => op[o].got = <<>>
  /\ op[o].step \in {"queued", "pulling"} => op[o].what \in Reading
  /\ op[o].step # "idle" => op[o].what \in Reading \cup {"write"}
  /\ op[o].step = "writing" => op[o].what = "write"
  /\ op[o].step = "elsewhere" => op[o].via # "local"
  /\ op[o].step # "idle" => op[o].since <= peer.version
  /\ op[o].step = "pulling" /\ op[o].got # <<>> =>
       /\ \E v \in op[o].since..peer.version : peer.cache = Document(op[o].what, v)
       /\ Len(op[o].got) < Len(peer.cache) /\ op[o].got = SubSeq(peer.cache, 1, Len(op[o].got))

AnswerIsTrue(o) ==
  op[o].step = "done" /\ op[o].via = "local" =>
    IF op[o].what = "write" THEN o \in peer.written
    ELSE \E v \in op[o].since..peer.version : op[o].got = Document(op[o].what, v)

LocalInv == LocalTyped /\ OnlyTheFirstPulls /\ \A o \in LinkOps : PulledFromOne(o) /\ AnswerIsTrue(o)

LEMMA DocumentType ==
  ASSUME NEW what \in Reading, NEW v \in Nat
  PROVE  Document(what, v) \in Seq(Bytes) /\ Len(Document(what, v)) \in Nat
<1> DEFINE n == IF what = "config" THEN 2 ELSE IF v = 0 THEN 0 ELSE 1 + v
<1>1. n \in Nat
  OBVIOUS
<1>2. Document(what, v) \in [1..n -> Bytes]
  BY DEF Document, Bytes, Reading
<1>3. Document(what, v) \in Seq(Bytes)
  BY <1>1, <1>2, IsASeq
<1> QED
  BY <1>3, LenProperties

\* Where the loop goes next.
LEMMA TurnType ==
  ASSUME NEW c \in Calls
  PROVE  /\ Turn(c) \in Calls /\ Turn(c).step \in {"failed", "checking", "elsewhere"} /\ Turn(c).got = <<>>
         /\ Turn(c).step = "elsewhere" => Turn(c).via # "local"
         /\ Turn(c).since = c.since /\ Turn(c).what = c.what
<1>1. <<>> \in Seq(Bytes)
  OBVIOUS
<1>2. CASE c.left = <<>>
  <2>1. Turn(c) = [c EXCEPT !.step = "failed", !.via = "none", !.got = <<>>, !.odd = FALSE]
    BY <1>2 DEF Turn
  <2> QED
    BY <1>1, <2>1 DEF Calls, OpOver
<1>3. CASE c.left # <<>>
  <2>1. Head(c.left) \in {"local", "mqtt"} /\ Tail(c.left) \in Seq({"local", "mqtt"})
    BY <1>3, HeadTailProperties DEF Calls
  <2>2. Turn(c) = [c EXCEPT !.step = IF Head(c.left) = "local" THEN "checking" ELSE "elsewhere",
                            !.via = Head(c.left), !.left = Tail(c.left), !.tries = 0, !.got = <<>>, !.odd = FALSE]
    BY <1>3 DEF Turn
  <2>3. CASE Head(c.left) = "local"
    <3>1. Turn(c) = [c EXCEPT !.step = "checking", !.via = "local", !.left = Tail(c.left), !.tries = 0,
                              !.got = <<>>, !.odd = FALSE]
      BY <2>2, <2>3
    <3>2. 0 \in Nat /\ FALSE \in BOOLEAN
      OBVIOUS
    <3> QED
      BY <1>1, <2>1, <3>1, <3>2 DEF Calls, OpOver
  <2>4. CASE Head(c.left) = "mqtt"
    <3>1. Turn(c) = [c EXCEPT !.step = "elsewhere", !.via = "mqtt", !.left = Tail(c.left), !.tries = 0,
                              !.got = <<>>, !.odd = FALSE]
      BY <2>2, <2>4
    <3>2. 0 \in Nat /\ FALSE \in BOOLEAN
      OBVIOUS
    <3> QED
      BY <1>1, <2>1, <3>1, <3>2 DEF Calls, OpOver
  <2> QED
    BY <2>1, <2>3, <2>4
<1> QED
  BY <1>2, <1>3

LEMMA LocalStarts == LocalInit => LocalInv
<1> SUFFICES ASSUME LocalInit PROVE LocalInv
  OBVIOUS
<1>1. op \in [LinkOps -> Calls]
  BY DEF LocalInit, Calls, OpOver
<1>2. reads \in Seq(LinkOps) /\ Len(reads) = 0
  BY DEF LocalInit
<1>3. peer \in [connected : BOOLEAN, security : 0..2, known : BOOLEAN, cache : Seq(Bytes) \cup {NoCache},
                version : Nat, written : SUBSET LinkOps]
  <2>1. PICK n \in 0..2, b \in BOOLEAN :
          peer = [connected |-> FALSE, security |-> n, known |-> b, cache |-> NoCache, version |-> 0, written |-> {}]
    BY DEF LocalInit
  <2> QED
    BY <2>1
<1>4. \A o \in LinkOps : op[o].step = "idle"
  BY DEF LocalInit
<1>5. OnlyTheFirstPulls
  BY <1>2, <1>4 DEF OnlyTheFirstPulls
<1> QED
  BY <1>1, <1>2, <1>3, <1>4, <1>5 DEF LocalInv, LocalTyped, PulledFromOne, AnswerIsTrue

\* A call that is outside the queue before and after a step of its own.
LEMMA OutsideTheQueue ==
  ASSUME LocalInv, NEW o \in LinkOps, NEW c \in Calls, op' = [op EXCEPT ![o] = c], UNCHANGED reads,
         op[o].step \notin {"queued", "pulling"}, c.step \notin {"queued", "pulling"},
         c.step \in {"checking", "connecting"} => c.got = <<>>,
         c.step = "writing" => c.what = "write", c.step = "elsewhere" => c.via # "local",
         c.what \in Reading \cup {"write"}, c.since <= peer.version,
         peer' \in [connected : BOOLEAN, security : 0..2, known : BOOLEAN, cache : Seq(Bytes) \cup {NoCache},
                    version : Nat, written : SUBSET LinkOps],
         peer'.cache = peer.cache, peer'.version = peer.version, peer.written \subseteq peer'.written,
         c.step = "done" /\ c.via = "local" => c.what = "write" /\ o \in peer'.written
  PROVE  LocalInv'
<1>1. LocalTyped'
  BY DEF LocalInv, LocalTyped
<1>2. OnlyTheFirstPulls'
  BY DEF LocalInv, LocalTyped, OnlyTheFirstPulls
<1>3. ASSUME NEW p \in LinkOps PROVE PulledFromOne(p)' /\ AnswerIsTrue(p)'
  <2>1. CASE p = o
    BY <2>1 DEF LocalInv, LocalTyped, PulledFromOne, AnswerIsTrue
  <2>2. CASE p # o
    BY <2>2 DEF LocalInv, LocalTyped, PulledFromOne, AnswerIsTrue
  <2> QED
    BY <2>1, <2>2
<1> QED
  BY <1>1, <1>2, <1>3 DEF LocalInv

\* Past ensureConnected.
LEMMA Proceeding ==
  ASSUME LocalInv, NEW o \in LinkOps, op[o].step \in {"checking", "connecting"}, Proceed(o),
         peer' \in [connected : BOOLEAN, security : 0..2, known : BOOLEAN, cache : Seq(Bytes) \cup {NoCache},
                    version : Nat, written : SUBSET LinkOps],
         peer'.cache = peer.cache, peer'.version = peer.version, peer.written = peer'.written
  PROVE  LocalInv'
<1>1. CASE op[o].what = "write"
  <2> DEFINE c == [op[o] EXCEPT !.step = "writing"]
  <2>1. op' = [op EXCEPT ![o] = c] /\ UNCHANGED reads /\ c \in Calls /\ c.step = "writing" /\ c.what = "write"
        /\ c.since = op[o].since
    BY <1>1 DEF Proceed, Ready, LocalInv, LocalTyped, Calls
  <2>2. op[o].since <= peer.version
    BY DEF LocalInv, PulledFromOne
  <2> HIDE DEF c
  <2> QED
    BY <2>1, <2>2, OutsideTheQueue
<1>2. CASE op[o].what # "write"
  <2> DEFINE c == [op[o] EXCEPT !.step = "queued"]
  <2>1. /\ op' = [op EXCEPT ![o] = c] /\ reads' = Append(reads, o) /\ c \in Calls /\ c.step = "queued"
        /\ c.what = op[o].what /\ c.got = op[o].got /\ c.since = op[o].since
    BY <1>2 DEF Proceed, Ready, LocalInv, LocalTyped, Calls
  <2>2. op[o].since <= peer.version /\ op[o].what \in Reading /\ op[o].got = <<>>
    BY <1>2 DEF LocalInv, PulledFromOne
  <2>3. reads \in Seq(LinkOps) /\ Len(reads) \in Nat /\ op \in [LinkOps -> Calls] /\ op' \in [LinkOps -> Calls]
        /\ op'[o] = c /\ \A p \in LinkOps \ {o} : op'[p] = op[p]
    BY <2>1 DEF LocalInv, LocalTyped
  <2> HIDE DEF c
  <2>4. reads' \in Seq(LinkOps) /\ Len(reads') = Len(reads) + 1 /\ reads'[Len(reads) + 1] = o
        /\ \A i \in 1..Len(reads) : reads'[i] = reads[i] /\ reads[i] \in LinkOps
    BY <2>1, <2>3
  <2>5. \A i \in 1..Len(reads) : reads[i] # o
    BY DEF LocalInv, OnlyTheFirstPulls
  <2>6. LocalTyped'
    BY <2>3, <2>4 DEF LocalTyped
  <2>7. OnlyTheFirstPulls'
    <3>1. \A i, j \in 1..Len(reads') : reads'[i] = reads'[j] => i = j
      BY <2>3, <2>4, <2>5 DEF LocalInv, OnlyTheFirstPulls
    <3>2. \A i \in 1..Len(reads') : op'[reads'[i]].step \in {"queued", "pulling"}
      BY <2>1, <2>3, <2>4, <2>5 DEF LocalInv, OnlyTheFirstPulls
    <3>3. ASSUME NEW p \in LinkOps, op'[p].step = "pulling" PROVE reads' # <<>> /\ reads'[1] = p
      <4>1. p # o /\ op[p].step = "pulling"
        BY <2>1, <2>3, <3>3
      <4>2. reads # <<>> /\ reads[1] = p
        BY <4>1 DEF LocalInv, OnlyTheFirstPulls
      <4>3. Len(reads) >= 1
        BY <2>3, <4>2, EmptySeq
      <4> QED
        BY <2>3, <2>4, <4>2, <4>3
    <3> QED
      BY <3>1, <3>2, <3>3 DEF OnlyTheFirstPulls
  <2>8. ASSUME NEW p \in LinkOps PROVE PulledFromOne(p)' /\ AnswerIsTrue(p)'
    <3>1. CASE p = o
      BY <2>1, <2>2, <2>3, <3>1 DEF PulledFromOne, AnswerIsTrue
    <3>2. CASE p # o
      BY <2>3, <3>2 DEF LocalInv, PulledFromOne, AnswerIsTrue
    <3> QED
      BY <3>1, <3>2
  <2> QED
    BY <2>6, <2>7, <2>8 DEF LocalInv
<1> QED
  BY <1>1, <1>2

\* The end of a read, and with it the turn of the next.
LEMMA LeavingTheQueue ==
  ASSUME LocalInv, NEW o \in LinkOps, NEW c \in Calls, op[o].step = "pulling", ReadEnds(o, c),
         c.step \in {"done", "failed", "checking", "elsewhere"},
         c.step = "checking" => c.got = <<>>, c.step = "elsewhere" => c.via # "local",
         c.what \in Reading \cup {"write"}, c.since = op[o].since,
         peer' \in [connected : BOOLEAN, security : 0..2, known : BOOLEAN, cache : Seq(Bytes) \cup {NoCache},
                    version : Nat, written : SUBSET LinkOps],
         peer'.version = peer.version, peer.written = peer'.written,
         c.step = "done" /\ c.via = "local" =>
           c.what # "write" /\ \E v \in op[o].since..peer.version : c.got = Document(c.what, v)
  PROVE  LocalInv'
<1>1. /\ op \in [LinkOps -> Calls] /\ op' = [op EXCEPT ![o] = c] /\ reads' = Tail(reads)
      /\ reads \in Seq(LinkOps) /\ reads # <<>> /\ reads[1] = o /\ op[o].since <= peer.version
  BY DEF ReadEnds, LocalInv, LocalTyped, OnlyTheFirstPulls, PulledFromOne
<1>2. op' \in [LinkOps -> Calls] /\ op'[o] = c /\ \A p \in LinkOps \ {o} : op'[p] = op[p]
  BY <1>1
<1>3. reads' \in Seq(LinkOps) /\ Len(reads) \in Nat /\ Len(reads') = Len(reads) - 1
      /\ \A i \in 1..Len(reads') : reads'[i] = reads[i + 1]
  BY <1>1, HeadTailProperties
<1>4. LocalTyped'
  BY <1>2, <1>3 DEF LocalTyped
<1>5. \A p \in LinkOps : p # o => op[p].step # "pulling"
  BY <1>1 DEF LocalInv, OnlyTheFirstPulls
<1>6. \A i \in 1..Len(reads') : reads'[i] \in LinkOps /\ reads'[i] # o
  <2>1. SUFFICES ASSUME NEW i \in 1..Len(reads') PROVE reads'[i] \in LinkOps /\ reads'[i] # o
    OBVIOUS
  <2>2. i + 1 \in 1..Len(reads) /\ 1 \in 1..Len(reads) /\ i + 1 # 1
    BY <1>3
  <2> QED
    BY <1>1, <1>3, <2>2 DEF LocalInv, OnlyTheFirstPulls
<1>7. OnlyTheFirstPulls'
  <2>1. ASSUME NEW i \in 1..Len(reads'), NEW j \in 1..Len(reads'), reads'[i] = reads'[j] PROVE i = j
    <3>1. i + 1 \in 1..Len(reads) /\ j + 1 \in 1..Len(reads)
      BY <1>3
    <3>2. i + 1 = j + 1
      BY <1>3, <2>1, <3>1 DEF LocalInv, OnlyTheFirstPulls
    <3> QED
      BY <3>2
  <2>2. ASSUME NEW i \in 1..Len(reads') PROVE op'[reads'[i]].step \in {"queued", "pulling"}
    <3>1. i + 1 \in 1..Len(reads)
      BY <1>3
    <3> QED
      BY <1>2, <1>3, <1>6, <3>1 DEF LocalInv, OnlyTheFirstPulls
  <2>3. \A p \in LinkOps : op'[p].step # "pulling"
    BY <1>2, <1>5
  <2> QED
    BY <2>1, <2>2, <2>3 DEF OnlyTheFirstPulls
<1>8. ASSUME NEW p \in LinkOps PROVE PulledFromOne(p)' /\ AnswerIsTrue(p)'
  <2>1. CASE p = o
    BY <1>1, <1>2, <2>1 DEF PulledFromOne, AnswerIsTrue
  <2>2. CASE p # o
    BY <1>2, <1>5, <2>2 DEF LocalInv, PulledFromOne, AnswerIsTrue
  <2> QED
    BY <2>1, <2>2
<1> QED
  BY <1>4, <1>7, <1>8 DEF LocalInv

\* A fragment that is not the last leaves the read with more of the same document.
LEMMA Pulling ==
  ASSUME LocalInv, NEW o \in LinkOps, NEW c \in Calls, op' = [op EXCEPT ![o] = c], UNCHANGED reads,
         op[o].step = "pulling", c.step = "pulling", c.what = op[o].what, c.since = op[o].since,
         peer' \in [connected : BOOLEAN, security : 0..2, known : BOOLEAN, cache : Seq(Bytes) \cup {NoCache},
                    version : Nat, written : SUBSET LinkOps],
         peer'.version = peer.version, peer.written = peer'.written,
         c.got # <<>> =>
           /\ \E v \in op[o].since..peer.version : peer'.cache = Document(c.what, v)
           /\ Len(c.got) < Len(peer'.cache) /\ c.got = SubSeq(peer'.cache, 1, Len(c.got))
  PROVE  LocalInv'
<1>1. /\ op \in [LinkOps -> Calls] /\ reads # <<>> /\ reads[1] = o /\ op[o].since <= peer.version
      /\ op[o].what \in Reading
  BY DEF LocalInv, LocalTyped, OnlyTheFirstPulls, PulledFromOne
<1>2. op' \in [LinkOps -> Calls] /\ op'[o] = c /\ \A p \in LinkOps \ {o} : op'[p] = op[p]
  BY <1>1
<1>3. LocalTyped'
  BY <1>2 DEF LocalInv, LocalTyped
<1>4. \A p \in LinkOps : p # o => op[p].step # "pulling"
  BY <1>1 DEF LocalInv, OnlyTheFirstPulls
<1>5. OnlyTheFirstPulls'
  <2>1. \A p \in LinkOps : op'[p].step = op[p].step
    BY <1>2
  <2>2. \A i \in 1..Len(reads) : reads[i] \in LinkOps
    BY DEF LocalInv, LocalTyped
  <2> QED
    BY <2>1, <2>2 DEF LocalInv, OnlyTheFirstPulls
<1>6. ASSUME NEW p \in LinkOps PROVE PulledFromOne(p)' /\ AnswerIsTrue(p)'
  <2>1. CASE p = o
    BY <1>1, <1>2, <2>1 DEF PulledFromOne, AnswerIsTrue
  <2>2. CASE p # o
    BY <1>2, <1>4, <2>2 DEF LocalInv, PulledFromOne, AnswerIsTrue
  <2> QED
    BY <2>1, <2>2
<1> QED
  BY <1>3, <1>5, <1>6 DEF LocalInv

LEMMA PullStep ==
  ASSUME LocalInv, NEW o \in LinkOps, NEW n \in Nat, NEW parses \in BOOLEAN, PullFragment(o, n, parses)
  PROVE  LocalInv'
<1> DEFINE c == op[o]
           offset == Len(c.got)
           cache == IF offset = 0 THEN Document(c.what, peer.version) ELSE peer.cache
           total == Len(cache)
           got == c.got \o SubSeq(cache, offset + 1, offset + n)
           freed == [peer EXCEPT !.cache = IF offset + n >= total THEN NoCache ELSE cache]
<1>1. /\ c \in Calls /\ c.step = "pulling" /\ c.what \in Reading /\ c.since <= peer.version /\ c.since \in Nat
      /\ peer.version \in Nat /\ c.got \in Seq(Bytes) /\ offset \in Nat
      /\ peer \in [connected : BOOLEAN, security : 0..2, known : BOOLEAN, cache : Seq(Bytes) \cup {NoCache},
                   version : Nat, written : SUBSET LinkOps]
  <2>1. c \in Calls /\ c.step = "pulling" /\ c.what \in Reading /\ c.since <= peer.version
        /\ peer \in [connected : BOOLEAN, security : 0..2, known : BOOLEAN, cache : Seq(Bytes) \cup {NoCache},
                     version : Nat, written : SUBSET LinkOps]
    BY DEF PullFragment, LocalInv, LocalTyped, PulledFromOne
  <2>2. c.got \in Seq(Bytes) /\ c.since \in Nat /\ peer.version \in Nat
    BY <2>1 DEF Calls
  <2> QED
    BY <2>1, <2>2, LenProperties
<1>2. PICK v \in c.since..peer.version : cache = Document(c.what, v)
  <2>1. CASE offset = 0
    BY <1>1, <2>1
  <2>2. CASE offset # 0
    <3>1. c.got # <<>>
      BY <1>1, <2>2
    <3> QED
      BY <1>1, <2>2, <3>1 DEF LocalInv, PulledFromOne
  <2> QED
    BY <2>1, <2>2
<1>3. cache \in Seq(Bytes) /\ total \in Nat
  <2>1. v \in Nat
    BY <1>1
  <2> QED
    BY <1>1, <1>2, <2>1, DocumentType
<1>4. offset + n <= total /\ peer' = freed
  BY DEF PullFragment
<1>5. c.got = SubSeq(cache, 1, offset)
  <2>1. CASE offset = 0
    BY <1>1, <1>3, <2>1, SubSeqEmpty, EmptySeq
  <2>2. CASE offset # 0
    <3>1. c.got # <<>>
      BY <1>1, <2>2
    <3> QED
      BY <1>1, <2>2, <3>1 DEF LocalInv, PulledFromOne
  <2> QED
    BY <2>1, <2>2
<1>6. got = SubSeq(cache, 1, offset + n) /\ got \in Seq(Bytes) /\ Len(got) = offset + n
      /\ SubSeq(cache, 1, total) = cache
  <2> DEFINE to == offset + n
  <2>1. offset \in 0..Len(cache) /\ to \in offset..Len(cache)
    <3>1. offset \in Nat /\ total \in Nat /\ offset + n <= total /\ total = Len(cache)
      BY <1>1, <1>3, <1>4
    <3> HIDE DEF offset, total, cache
    <3> QED
      BY <3>1
  <2> HIDE DEF cache, offset, to
  <2>2. /\ SubSeq(cache, 1, offset) \o SubSeq(cache, offset + 1, to) = SubSeq(cache, 1, to)
        /\ SubSeq(cache, 1, Len(cache)) = cache
        /\ SubSeq(cache, 1, to) \in Seq(Bytes) /\ Len(SubSeq(cache, 1, to)) = to
    BY <1>3, <2>1, Parts
  <2> QED
    BY <1>5, <2>2 DEF to
<1>7. /\ peer' \in [connected : BOOLEAN, security : 0..2, known : BOOLEAN, cache : Seq(Bytes) \cup {NoCache},
                    version : Nat, written : SUBSET LinkOps]
      /\ peer'.version = peer.version /\ peer.written = peer'.written
      /\ peer'.cache = IF offset + n >= total THEN NoCache ELSE cache
  <2> DEFINE left == IF offset + n >= total THEN NoCache ELSE cache
  <2>1. left \in Seq(Bytes) \cup {NoCache} /\ peer' = [peer EXCEPT !.cache = left]
    BY <1>3, <1>4
  <2> HIDE DEF left
  <2>2. peer' \in [connected : BOOLEAN, security : 0..2, known : BOOLEAN, cache : Seq(Bytes) \cup {NoCache},
                   version : Nat, written : SUBSET LinkOps]
        /\ peer'.version = peer.version /\ peer.written = peer'.written /\ peer'.cache = left
    BY <1>1, <2>1
  <2> QED
    BY <2>2 DEF left
<1>8. \/ total = 0 /\ ReadEnds(o, [c EXCEPT !.step = "done", !.odd = FALSE])
      \/ ReadEnds(o, Turn(c))
      \/ total > 0 /\ Len(got) < total /\ UNCHANGED reads
         /\ op' = [op EXCEPT ![o] = [op[o] EXCEPT !.got = got, !.odd = ~op[o].odd]]
      \/ Len(got) >= total /\ ReadEnds(o, [c EXCEPT !.step = "done", !.got = got, !.odd = FALSE])
  <2>1. CASE total = 0 /\ ReadEnds(o, [c EXCEPT !.step = "done", !.odd = FALSE])
    BY <2>1
  <2>2. CASE total > 0 /\ NoProgress(n) /\ ReadEnds(o, Turn(c))
    BY <2>2
  <2>3. CASE /\ total > 0 /\ ~NoProgress(n) /\ Len(got) < total
             /\ op' = [op EXCEPT ![o].got = got, ![o].odd = ~@] /\ UNCHANGED reads
    <3>1. op' = [op EXCEPT ![o] = [op[o] EXCEPT !.got = got, !.odd = ~op[o].odd]]
      <4> HIDE DEF got
      <4> QED
        BY <1>1, <2>3 DEF LocalInv, LocalTyped
    <3> QED
      BY <2>3, <3>1
  <2>4. CASE /\ total > 0 /\ ~NoProgress(n) /\ Len(got) >= total
             /\ ReadEnds(o, IF parses THEN [c EXCEPT !.step = "done", !.got = got, !.odd = FALSE] ELSE Turn(c))
    <3>1. CASE parses
      BY <2>4, <3>1
    <3>2. CASE ~parses
      BY <2>4, <3>2
    <3> QED
      BY <3>1, <3>2
  <2> QED
    BY <2>1, <2>2, <2>3, <2>4 DEF PullFragment
<1> HIDE DEF c, offset, cache, total, got, freed
<1>9. CASE total = 0 /\ ReadEnds(o, [c EXCEPT !.step = "done", !.odd = FALSE])
  <2>1. c.got = cache
    BY <1>1, <1>3, <1>4, <1>5, <1>6, <1>9
  <2> DEFINE d == [c EXCEPT !.step = "done", !.odd = FALSE]
  <2>2. d \in Calls /\ d.step = "done" /\ d.what = c.what /\ d.since = c.since /\ d.got = c.got
    BY <1>1 DEF Calls, OpOver
  <2>3. ReadEnds(o, d) /\ c.what # "write" /\ \E w \in op[o].since..peer.version : d.got = Document(d.what, w)
    BY <1>1, <1>2, <1>9, <2>1, <2>2 DEF c, Reading
  <2> HIDE DEF d
  <2> QED
    BY <1>1, <1>7, <2>2, <2>3, LeavingTheQueue DEF c
<1>10. CASE ReadEnds(o, Turn(c))
  <2>1. Turn(c) \in Calls /\ Turn(c).step \in {"failed", "checking", "elsewhere"} /\ Turn(c).got = <<>>
         /\ (Turn(c).step = "elsewhere" => Turn(c).via # "local")
         /\ Turn(c).since = c.since /\ Turn(c).what = c.what
    BY <1>1, TurnType
  <2> QED
    BY <1>1, <1>7, <1>10, <2>1, LeavingTheQueue DEF c
<1>11. CASE total > 0 /\ Len(got) < total /\ UNCHANGED reads
            /\ op' = [op EXCEPT ![o] = [op[o] EXCEPT !.got = got, !.odd = ~op[o].odd]]
  <2> DEFINE d == [op[o] EXCEPT !.got = got, !.odd = ~op[o].odd]
  <2>1. d \in Calls /\ d.step = "pulling" /\ d.what = c.what /\ d.since = c.since /\ d.got = got
    BY <1>1, <1>6 DEF Calls, c
  <2>2. peer'.cache = cache
    BY <1>1, <1>3, <1>6, <1>7, <1>11
  <2>3. op' = [op EXCEPT ![o] = d]
    BY <1>11
  <2>4. /\ \E w \in op[o].since..peer.version : peer'.cache = Document(d.what, w)
        /\ Len(d.got) < Len(peer'.cache) /\ d.got = SubSeq(peer'.cache, 1, Len(d.got))
    BY <1>2, <1>6, <1>11, <2>1, <2>2 DEF c, total
  <2> HIDE DEF d
  <2> QED
    BY <1>1, <1>7, <1>11, <2>1, <2>3, <2>4, Pulling DEF c
<1>12. CASE Len(got) >= total /\ ReadEnds(o, [c EXCEPT !.step = "done", !.got = got, !.odd = FALSE])
  <2>1. got = cache
    <3>1. offset + n = total
      BY <1>1, <1>3, <1>4, <1>6, <1>12
    <3> QED
      BY <1>6, <3>1
  <2> DEFINE d == [c EXCEPT !.step = "done", !.got = got, !.odd = FALSE]
  <2>2. d \in Calls /\ d.step = "done" /\ d.what = c.what /\ d.since = c.since /\ d.got = got
    BY <1>1, <1>6 DEF Calls, OpOver
  <2>3. ReadEnds(o, d) /\ c.what # "write" /\ \E w \in op[o].since..peer.version : d.got = Document(d.what, w)
    BY <1>1, <1>2, <1>12, <2>1, <2>2 DEF c, Reading
  <2> HIDE DEF d
  <2> QED
    BY <1>1, <1>7, <2>2, <2>3, LeavingTheQueue DEF c
<1> QED
  BY <1>8, <1>9, <1>10, <1>11, <1>12

LEMMA LocalStep ==
  ASSUME LocalInv, [LocalNext]_localVars
  PROVE  LocalInv'
<1>1. ASSUME NEW o \in LinkOps, NEW what \in Reading \cup {"write"}, NEW order \in Orders, Call(o, what, order)
      PROVE  LocalInv'
  <2> DEFINE b == [op[o] EXCEPT !.what = what, !.left = order, !.since = peer.version]
  <2>1. op[o] \in Calls /\ order \in Seq({"local", "mqtt"}) /\ peer.version \in Nat
    <3>1. Orders \subseteq Seq({"local", "mqtt"})
      BY DEF Orders
    <3> QED
      BY <3>1 DEF LocalInv, LocalTyped
  <2>2. b \in Calls /\ b.what = what /\ b.since = peer.version
    BY <2>1 DEF Calls, Reading
  <2>3. op' = [op EXCEPT ![o] = Turn(b)] /\ op[o].step = "idle" /\ UNCHANGED <<reads, peer>>
    BY <1>1 DEF Call
  <2> HIDE DEF b
  <2>4. Turn(b) \in Calls /\ Turn(b).step \in {"failed", "checking", "elsewhere"} /\ Turn(b).got = <<>>
         /\ (Turn(b).step = "elsewhere" => Turn(b).via # "local")
         /\ Turn(b).since = peer.version /\ Turn(b).what = what
    BY <2>2, TurnType
  <2>5. peer \in [connected : BOOLEAN, security : 0..2, known : BOOLEAN, cache : Seq(Bytes) \cup {NoCache},
                 version : Nat, written : SUBSET LinkOps]
    BY DEF LocalInv, LocalTyped
  <2>6. Turn(b).since <= peer.version /\ Turn(b).what \in Reading \cup {"write"}
    BY <2>1, <2>4
  <2> QED
    BY <2>3, <2>4, <2>5, <2>6, OutsideTheQueue
<1>2. ASSUME NEW o \in LinkOps, NEW ok \in BOOLEAN, Elsewhere(o, ok) PROVE LocalInv'
  <2>1. op[o] \in Calls /\ op[o].step = "elsewhere" /\ op[o].via # "local" /\ op[o].since <= peer.version
        /\ op[o].what \in Reading \cup {"write"} /\ peer.version \in Nat
    BY <1>2 DEF Elsewhere, LocalInv, LocalTyped, PulledFromOne
  <2>2. CASE ok
    <3> DEFINE c == [op[o] EXCEPT !.step = "done"]
    <3>1. op' = [op EXCEPT ![o] = c] /\ UNCHANGED <<reads, peer>>
      BY <1>2, <2>2 DEF Elsewhere
    <3>2. c \in Calls /\ c.step = "done" /\ c.via # "local" /\ c.since <= peer.version /\ c.what \in Reading \cup {"write"}
      BY <2>1 DEF Calls, OpOver
    <3> HIDE DEF c
    <3> QED
      BY <2>1, <3>1, <3>2, OutsideTheQueue DEF LocalInv, LocalTyped
  <2>3. CASE ~ok
    <3>1. op' = [op EXCEPT ![o] = Turn(op[o])] /\ UNCHANGED <<reads, peer>>
      BY <1>2, <2>3 DEF Elsewhere
    <3>2. Turn(op[o]) \in Calls /\ Turn(op[o]).step \in {"failed", "checking", "elsewhere"} /\ Turn(op[o]).got = <<>>
         /\ (Turn(op[o]).step = "elsewhere" => Turn(op[o]).via # "local")
         /\ Turn(op[o]).since <= peer.version /\ Turn(op[o]).what \in Reading \cup {"write"}
      BY <2>1, TurnType
    <3> QED
      BY <2>1, <3>1, <3>2, OutsideTheQueue DEF LocalInv, LocalTyped
  <2> QED
    BY <2>2, <2>3
<1>3. ASSUME NEW o \in LinkOps, CheckSession(o) PROVE LocalInv'
  <2>1. CASE peer.connected
    BY <1>3, <2>1, Proceeding DEF CheckSession, LocalInv, LocalTyped
  <2>2. CASE ~peer.connected
    <3> DEFINE c == [op[o] EXCEPT !.step = "connecting"]
    <3>1. op' = [op EXCEPT ![o] = c] /\ UNCHANGED <<reads, peer>> /\ op[o].step = "checking"
      BY <1>3, <2>2 DEF CheckSession
    <3>2. op[o] \in Calls /\ op[o].got = <<>> /\ op[o].since <= peer.version /\ op[o].what \in Reading \cup {"write"}
      BY <3>1 DEF LocalInv, LocalTyped, PulledFromOne
    <3>3. c \in Calls /\ c.step = "connecting" /\ c.got = <<>> /\ c.since <= peer.version /\ c.what \in Reading \cup {"write"}
      BY <3>2 DEF Calls
    <3> HIDE DEF c
    <3> QED
      BY <3>1, <3>3, OutsideTheQueue DEF LocalInv, LocalTyped
  <2> QED
    BY <2>1, <2>2
<1>4. ASSUME NEW o \in LinkOps, NEW ok \in BOOLEAN, ConnectSession(o, ok) PROVE LocalInv'
  <2>1. /\ peer' \in [connected : BOOLEAN, security : 0..2, known : BOOLEAN, cache : Seq(Bytes) \cup {NoCache},
                      version : Nat, written : SUBSET LinkOps]
        /\ peer'.cache = peer.cache /\ peer'.version = peer.version /\ peer.written = peer'.written
        /\ op[o].step = "connecting"
    BY <1>4 DEF ConnectSession, LocalInv, LocalTyped
  <2>2. CASE ok
    BY <1>4, <2>1, <2>2, Proceeding DEF ConnectSession
  <2>3. CASE ~ok
    <3>1. op[o] \in Calls /\ op[o].got = <<>> /\ op[o].since <= peer.version /\ op[o].what \in Reading \cup {"write"}
          /\ op[o].tries + 1 \in Nat
      BY <2>1 DEF LocalInv, LocalTyped, PulledFromOne, Calls
    <3> DEFINE e == IF op[o].tries + 1 = MaxRetries THEN Turn(op[o]) ELSE [op[o] EXCEPT !.tries = op[o].tries + 1]
    <3>4. op' = [op EXCEPT ![o] = e] /\ UNCHANGED reads
      <4>1. CASE op[o].tries + 1 = MaxRetries
        BY <1>4, <2>3, <4>1 DEF ConnectSession
      <4>2. CASE op[o].tries + 1 # MaxRetries
        <5>1. op' = [op EXCEPT ![o].tries = op[o].tries + 1] /\ UNCHANGED reads
          BY <1>4, <2>3, <4>2 DEF ConnectSession
        <5>2. op \in [LinkOps -> Calls] /\ op[o] \in Calls
          BY DEF LocalInv, LocalTyped
        <5>3. e = [op[o] EXCEPT !.tries = op[o].tries + 1]
          BY <4>2
        <5> QED
          BY <5>1, <5>2, <5>3
      <4> QED
        BY <4>1, <4>2
    <3>2. PICK c \in {Turn(op[o]), [op[o] EXCEPT !.tries = op[o].tries + 1]} : op' = [op EXCEPT ![o] = c] /\ UNCHANGED reads
      BY <3>4
    <3>3. /\ c \in Calls /\ c.step \in {"failed", "checking", "connecting", "elsewhere"} /\ c.got = <<>>
          /\ (c.step = "elsewhere" => c.via # "local") /\ c.since <= peer.version /\ c.what \in Reading \cup {"write"}
      <4>1. CASE c = Turn(op[o])
        BY <3>1, <4>1, TurnType
      <4>2. CASE c = [op[o] EXCEPT !.tries = op[o].tries + 1]
        BY <2>1, <3>1, <4>2 DEF Calls
      <4> QED
        BY <3>2, <4>1, <4>2
    <3> QED
      BY <2>1, <3>2, <3>3, OutsideTheQueue
  <2> QED
    BY <2>2, <2>3
<1>5. ASSUME NEW o \in LinkOps, ReadTurn(o) PROVE LocalInv'
  <2> DEFINE c == [op[o] EXCEPT !.step = "pulling"]
  <2>1. /\ op' = [op EXCEPT ![o] = c] /\ UNCHANGED <<reads, peer>> /\ op[o].step = "queued" /\ Head(reads) = o
        /\ op \in [LinkOps -> Calls] /\ reads \in Seq(LinkOps)
    BY <1>5 DEF ReadTurn, LocalInv, LocalTyped
  <2>2. op[o].got = <<>> /\ op[o].since <= peer.version /\ op[o].what \in Reading
    BY <2>1 DEF LocalInv, PulledFromOne
  <2>3. c \in Calls /\ c.step = "pulling" /\ c.got = <<>> /\ c.since <= peer.version /\ c.what \in Reading
    BY <2>1, <2>2 DEF Calls
  <2>4. op' \in [LinkOps -> Calls] /\ op'[o] = c /\ \A p \in LinkOps \ {o} : op'[p] = op[p]
    BY <2>1, <2>3
  <2>5. reads # <<>> /\ reads[1] = o
    BY <1>5, <2>1 DEF ReadTurn
  <2> HIDE DEF c
  <2>6. LocalTyped'
    BY <2>1, <2>4 DEF LocalInv, LocalTyped
  <2>7. \A p \in LinkOps : op[p].step # "pulling"
    BY <2>1, <2>5 DEF LocalInv, OnlyTheFirstPulls
  <2>8. OnlyTheFirstPulls'
    <3>1. \A p \in LinkOps : op'[p].step = "pulling" => p = o
      BY <2>4, <2>7
    <3>2. \A i \in 1..Len(reads) : reads[i] \in LinkOps /\ op[reads[i]].step = "queued"
      BY <2>1, <2>7 DEF LocalInv, OnlyTheFirstPulls
    <3>3. \A i \in 1..Len(reads) : op'[reads[i]].step \in {"queued", "pulling"}
      BY <2>3, <2>4, <3>2
    <3> QED
      BY <2>1, <2>5, <3>1, <3>3 DEF LocalInv, OnlyTheFirstPulls
  <2>9. ASSUME NEW p \in LinkOps PROVE PulledFromOne(p)' /\ AnswerIsTrue(p)'
    <3>1. CASE p = o
      BY <2>1, <2>3, <2>4, <3>1 DEF PulledFromOne, AnswerIsTrue
    <3>2. CASE p # o
      BY <2>1, <2>4, <3>2 DEF LocalInv, PulledFromOne, AnswerIsTrue
    <3> QED
      BY <3>1, <3>2
  <2> QED
    BY <2>6, <2>8, <2>9 DEF LocalInv
<1>6. ASSUME NEW o \in LinkOps, PullFails(o) PROVE LocalInv'
  <2>1. op[o] \in Calls /\ op[o].step = "pulling" /\ op[o].what \in Reading
        /\ ReadEnds(o, Turn(op[o])) /\ UNCHANGED peer
    BY <1>6 DEF PullFails, LocalInv, LocalTyped, PulledFromOne
  <2>2. Turn(op[o]) \in Calls /\ Turn(op[o]).step \in {"failed", "checking", "elsewhere"} /\ Turn(op[o]).got = <<>>
         /\ (Turn(op[o]).step = "elsewhere" => Turn(op[o]).via # "local")
         /\ Turn(op[o]).since = op[o].since /\ Turn(op[o]).what = op[o].what
    BY <2>1, TurnType
  <2> QED
    BY <2>1, <2>2, LeavingTheQueue DEF LocalInv, LocalTyped
<1>7. ASSUME NEW o \in LinkOps, NEW applied \in BOOLEAN, NEW acknowledged \in BOOLEAN, Write(o, applied, acknowledged)
      PROVE  LocalInv'
  <2>1. /\ op[o] \in Calls /\ op[o].step = "writing" /\ op[o].what = "write" /\ op[o].since <= peer.version
        /\ UNCHANGED reads
    BY <1>7 DEF Write, LocalInv, LocalTyped, PulledFromOne
  <2>2. /\ peer' \in [connected : BOOLEAN, security : 0..2, known : BOOLEAN, cache : Seq(Bytes) \cup {NoCache},
                      version : Nat, written : SUBSET LinkOps]
        /\ peer'.cache = peer.cache /\ peer'.version = peer.version /\ peer.written \subseteq peer'.written
        /\ (acknowledged => o \in peer'.written)
    <3>1. CASE applied
      BY <1>7, <3>1 DEF Write, LocalInv, LocalTyped
    <3>2. CASE ~applied
      BY <1>7, <3>2 DEF Write, LocalInv, LocalTyped
    <3> QED
      BY <3>1, <3>2
  <2>3. CASE acknowledged
    <3> DEFINE c == [op[o] EXCEPT !.step = "done"]
    <3>1. op' = [op EXCEPT ![o] = c]
      BY <1>7, <2>3 DEF Write
    <3>2. c \in Calls /\ c.step = "done" /\ c.since <= peer.version /\ c.what = "write"
      BY <2>1 DEF Calls, OpOver
    <3> HIDE DEF c
    <3> QED
      BY <2>1, <2>2, <2>3, <3>1, <3>2, OutsideTheQueue
  <2>4. CASE ~acknowledged
    <3>1. op' = [op EXCEPT ![o] = Turn(op[o])]
      BY <1>7, <2>4 DEF Write
    <3>2. Turn(op[o]) \in Calls /\ Turn(op[o]).step \in {"failed", "checking", "elsewhere"} /\ Turn(op[o]).got = <<>>
         /\ (Turn(op[o]).step = "elsewhere" => Turn(op[o]).via # "local")
         /\ Turn(op[o]).since <= peer.version /\ Turn(op[o]).what = "write"
      BY <2>1, TurnType
    <3> QED
      BY <2>1, <2>2, <3>1, <3>2, OutsideTheQueue
  <2> QED
    BY <2>3, <2>4
<1>8. ASSUME DeviceChanges PROVE LocalInv'
  <2>1. /\ peer' \in [connected : BOOLEAN, security : 0..2, known : BOOLEAN, cache : Seq(Bytes) \cup {NoCache},
                      version : Nat, written : SUBSET LinkOps]
        /\ peer'.cache = peer.cache /\ peer'.version = peer.version + 1 /\ peer.version \in Nat
        /\ peer'.written = peer.written /\ UNCHANGED <<op, reads>>
    BY <1>8 DEF DeviceChanges, LocalInv, LocalTyped
  <2>2. LocalTyped' /\ OnlyTheFirstPulls'
    BY <2>1 DEF LocalInv, LocalTyped, OnlyTheFirstPulls
  <2>3. ASSUME NEW p \in LinkOps PROVE PulledFromOne(p)' /\ AnswerIsTrue(p)'
    <3>1. op[p].since \in Nat
      BY DEF LocalInv, LocalTyped, Calls
    <3>2. op[p].since..peer.version \subseteq op[p].since..(peer.version + 1)
      BY <2>1, <3>1
    <3> QED
      BY <2>1, <3>1, <3>2 DEF LocalInv, PulledFromOne, AnswerIsTrue
  <2> QED
    BY <2>2, <2>3 DEF LocalInv
<1>9. ASSUME LinkDrops PROVE LocalInv'
  <2>1. /\ peer' \in [connected : BOOLEAN, security : 0..2, known : BOOLEAN, cache : Seq(Bytes) \cup {NoCache},
                      version : Nat, written : SUBSET LinkOps]
        /\ peer'.cache = peer.cache /\ peer'.version = peer.version
        /\ peer'.written = peer.written /\ UNCHANGED <<op, reads>>
    BY <1>9 DEF LinkDrops, LocalInv, LocalTyped
  <2> QED
    BY <2>1 DEF LocalInv, LocalTyped, OnlyTheFirstPulls, PulledFromOne, AnswerIsTrue
<1>10. ASSUME UNCHANGED localVars PROVE LocalInv'
  BY <1>10 DEF localVars, LocalInv, LocalTyped, OnlyTheFirstPulls, PulledFromOne, AnswerIsTrue
<1>11. ASSUME NEW o \in LinkOps, OpStep(o) PROVE LocalInv'
  <2>1. 0..FragmentSize \subseteq Nat
    OBVIOUS
  <2> QED
    BY <1>2, <1>3, <1>4, <1>5, <1>6, <1>7, <1>11, <2>1, PullStep DEF OpStep
<1> QED
  BY <1>1, <1>8, <1>9, <1>10, <1>11 DEF LocalNext

\* A read over local control that resolves returns one whole document the device had
\* during the call, and a write that resolves has been applied, for any calls, fragment
\* size, retries and changes (enqueueNodeRead, pullJsonDocument, assertSetParamsAccepted).
THEOREM LocalAnswersAreHonest == LocalSpec => []LocalAnswersAreTrue
<1>1. LocalInv => LocalAnswersAreTrue
  BY DEF LocalInv, AnswerIsTrue, LocalAnswersAreTrue
<1>2. LocalInv /\ [LocalNext]_localVars => LocalInv'
  BY LocalStep
<1> QED
  BY <1>1, <1>2, LocalStarts, PTL DEF LocalSpec

Bounded(c) == c.left \in Orders /\ c.tries <= MaxRetries - 1 /\ c.since <= MaxChanges
LocalBounds == (\A o \in LinkOps : Bounded(op[o])) /\ peer.version <= MaxChanges

\* Whoever goes on to the next transport has its tries before it.
LEMMA TurnBounded ==
  ASSUME NEW c \in Calls, Bounded(c)
  PROVE  Bounded(Turn(c))
<1> USE LocalAssumption
<1>1. ASSUME c.left # <<>> PROVE Tail(c.left) \in Orders
  <2>1. Tail(<<"local", "mqtt">>) = <<"mqtt">> /\ Tail(<<"mqtt", "local">>) = <<"local">>
    OBVIOUS
  <2>2. Tail(<<"local">>) = <<>> /\ Tail(<<"mqtt">>) = <<>>
    OBVIOUS
  <2> QED BY <1>1, <2>1, <2>2, Zenon DEF Bounded, Orders
<1>2. CASE c.left = <<>>
  BY <1>2 DEF Turn, Bounded, Calls
<1>3. CASE c.left # <<>>
  <2>1. Turn(c).left = Tail(c.left) /\ Turn(c).tries = 0 /\ Turn(c).since = c.since
    BY <1>3 DEF Turn, Calls
  <2> QED BY <1>1, <1>3, <2>1 DEF Bounded
<1> QED BY <1>2, <1>3

\* A step that changes one call at most, and leaves its bounds as they are.
LEMMA OneCall ==
  ASSUME LocalTyped, LocalBounds, NEW o \in LinkOps, NEW c, Bounded(c),
         op' = [op EXCEPT ![o] = c], peer'.version = peer.version
  PROVE  LocalBounds'
<1> SUFFICES ASSUME NEW q \in LinkOps PROVE Bounded(op'[q])
  BY DEF LocalBounds, Bounded
<1>1. op'[q] \in {op[q], c}
  BY DEF LocalTyped
<1> QED BY <1>1 DEF LocalBounds

LEMMA LocalBoundsStep == LocalInv /\ LocalBounds /\ [LocalNext]_localVars => LocalBounds'
<1> SUFFICES ASSUME LocalInv, LocalBounds, [LocalNext]_localVars PROVE LocalBounds'
  OBVIOUS
<1> USE LocalAssumption
<1>0. /\ LocalTyped /\ \A o \in LinkOps : op[o] \in Calls /\ Bounded(op[o]) /\ Bounded(Turn(op[o]))
      /\ peer \in [connected : BOOLEAN, security : 0..2, known : BOOLEAN, cache : Seq(Bytes) \cup {NoCache},
                   version : Nat, written : SUBSET LinkOps]
  BY TurnBounded DEF LocalInv, LocalTyped, LocalBounds
<1>1. ASSUME NEW o \in LinkOps, NEW what \in Reading \cup {"write"}, NEW order \in Orders, Call(o, what, order)
      PROVE  LocalBounds'
  <2> DEFINE c == [op[o] EXCEPT !.what = what, !.left = order, !.since = peer.version]
  <2>1. order \in Seq({"local", "mqtt"})
    <3>1. Orders \subseteq Seq({"local", "mqtt"})
      BY DEF Orders
    <3> QED BY <3>1
  <2>2. c \in Calls
    BY <1>0, <2>1 DEF Calls, Reading
  <2>3. c.left = order /\ c.tries = op[o].tries /\ c.since = peer.version
    BY <1>0 DEF Calls
  <2>4. Bounded(c)
    BY <1>0, <2>3 DEF Bounded, LocalBounds
  <2>5. op' = [op EXCEPT ![o] = Turn(c)] /\ peer' = peer
    BY <1>1 DEF Call
  <2> HIDE DEF c
  <2>6. Bounded(Turn(c))
    BY <2>2, <2>4, TurnBounded
  <2> QED BY <1>0, <2>5, <2>6, OneCall
<1>2. ASSUME NEW o \in LinkOps, NEW c, c.left = op[o].left, c.tries = op[o].tries, c.since = op[o].since,
             op' = [op EXCEPT ![o] = c], peer'.version = peer.version
      PROVE  LocalBounds'
  <2>1. Bounded(c)
    BY <1>0, <1>2 DEF Bounded
  <2> QED BY <1>0, <1>2, <2>1, OneCall
<1>3. ASSUME NEW o \in LinkOps, op' = [op EXCEPT ![o] = Turn(op[o])], peer'.version = peer.version
      PROVE  LocalBounds'
  BY <1>0, <1>3, OneCall
<1>4. ASSUME NEW o \in LinkOps, Proceed(o), peer'.version = peer.version
      PROVE  LocalBounds'
  <2>1. op' = [op EXCEPT ![o] = Ready(op[o])]
    BY <1>4 DEF Proceed
  <2>2. Ready(op[o]).left = op[o].left /\ Ready(op[o]).tries = op[o].tries /\ Ready(op[o]).since = op[o].since
    BY <1>0 DEF Ready, Calls
  <2> QED BY <1>2, <1>4, <2>1, <2>2
<1>5. ASSUME NEW o \in LinkOps, CheckSession(o) PROVE LocalBounds'
  <2> DEFINE c == [op[o] EXCEPT !.step = "connecting"]
  <2>1. CASE peer.connected
    BY <1>4, <1>5, <2>1 DEF CheckSession
  <2>2. CASE ~peer.connected
    <3>1. op' = [op EXCEPT ![o] = c] /\ peer' = peer
      BY <1>0, <1>5, <2>2 DEF CheckSession, LocalTyped
    <3>2. c.left = op[o].left /\ c.tries = op[o].tries /\ c.since = op[o].since
      BY <1>0 DEF Calls
    <3> HIDE DEF c
    <3> QED BY <1>2, <3>1, <3>2
  <2> QED BY <2>1, <2>2
<1>6. ASSUME NEW o \in LinkOps, NEW ok \in BOOLEAN, ConnectSession(o, ok) PROVE LocalBounds'
  <2>0. peer'.version = peer.version
    BY <1>0, <1>6 DEF ConnectSession
  <2>1. CASE ok
    BY <1>4, <1>6, <2>0, <2>1 DEF ConnectSession
  <2>2. CASE ~ok /\ op[o].tries + 1 = MaxRetries
    <3>1. op' = [op EXCEPT ![o] = Turn(op[o])]
      BY <1>6, <2>2 DEF ConnectSession
    <3> QED BY <1>3, <2>0, <3>1
  <2>3. CASE ~ok /\ op[o].tries + 1 # MaxRetries
    <3> DEFINE c == [op[o] EXCEPT !.tries = op[o].tries + 1]
    <3>1. op' = [op EXCEPT ![o] = c]
      BY <1>0, <1>6, <2>3 DEF ConnectSession, LocalTyped
    <3>2. c.left = op[o].left /\ c.tries = op[o].tries + 1 /\ c.since = op[o].since /\ op[o].tries \in Nat
      BY <1>0 DEF Calls
    <3>3. Bounded(c)
      BY <1>0, <2>3, <3>2 DEF Bounded
    <3> HIDE DEF c
    <3> QED BY <1>0, <2>0, <3>1, <3>3, OneCall
  <2> QED BY <2>1, <2>2, <2>3
<1>7. ASSUME NEW o \in LinkOps, NEW ok \in BOOLEAN, Elsewhere(o, ok) PROVE LocalBounds'
  <2> DEFINE c == [op[o] EXCEPT !.step = "done"]
  <2>1. op' = [op EXCEPT ![o] = IF ok THEN c ELSE Turn(op[o])] /\ peer' = peer
    BY <1>7 DEF Elsewhere
  <2>2. c.left = op[o].left /\ c.tries = op[o].tries /\ c.since = op[o].since
    BY <1>0 DEF Calls
  <2> HIDE DEF c
  <2> QED BY <1>2, <1>3, <2>1, <2>2
<1>8. ASSUME NEW o \in LinkOps, ReadTurn(o) PROVE LocalBounds'
  <2> DEFINE c == [op[o] EXCEPT !.step = "pulling"]
  <2>1. op' = [op EXCEPT ![o] = c] /\ peer' = peer
    BY <1>0, <1>8 DEF ReadTurn, LocalTyped
  <2>2. c.left = op[o].left /\ c.tries = op[o].tries /\ c.since = op[o].since
    BY <1>0 DEF Calls
  <2> HIDE DEF c
  <2> QED BY <1>2, <2>1, <2>2
<1>9. ASSUME NEW o \in LinkOps, NEW n \in 0..FragmentSize, NEW parses \in BOOLEAN, PullFragment(o, n, parses)
      PROVE  LocalBounds'
  <2> DEFINE cache == IF Len(op[o].got) = 0 THEN Document(op[o].what, peer.version) ELSE peer.cache
             got == op[o].got \o SubSeq(cache, Len(op[o].got) + 1, Len(op[o].got) + n)
             empty == [op[o] EXCEPT !.step = "done", !.odd = FALSE]
             more == [op[o] EXCEPT !.got = got, !.odd = ~op[o].odd]
             all == [op[o] EXCEPT !.step = "done", !.got = got, !.odd = FALSE]
  <2>1. peer'.version = peer.version
    BY <1>0, <1>9 DEF PullFragment
  <2>2. \/ op' = [op EXCEPT ![o] = empty]
        \/ op' = [op EXCEPT ![o] = Turn(op[o])]
        \/ op' = [op EXCEPT ![o].got = got, ![o].odd = ~@]
        \/ op' = [op EXCEPT ![o] = all]
    BY <1>9 DEF PullFragment, ReadEnds
  <2> HIDE DEF got
  <2>3. [op EXCEPT ![o].got = got, ![o].odd = ~@] = [op EXCEPT ![o] = more]
    BY <1>0 DEF LocalTyped, Calls
  <2>4. ASSUME NEW c \in {empty, more, all} PROVE c.left = op[o].left /\ c.tries = op[o].tries /\ c.since = op[o].since
    BY <1>0 DEF Calls
  <2> HIDE DEF empty, more, all
  <2> QED BY <1>2, <1>3, <2>1, <2>2, <2>3, <2>4
<1>10. ASSUME NEW o \in LinkOps, PullFails(o) PROVE LocalBounds'
  BY <1>3, <1>10 DEF PullFails, ReadEnds
<1>11. ASSUME NEW o \in LinkOps, NEW applied \in BOOLEAN, NEW acknowledged \in BOOLEAN, Write(o, applied, acknowledged)
       PROVE  LocalBounds'
  <2> DEFINE c == [op[o] EXCEPT !.step = "done"]
  <2>1. op' = [op EXCEPT ![o] = IF acknowledged THEN c ELSE Turn(op[o])] /\ peer'.version = peer.version
    BY <1>0, <1>11 DEF Write
  <2>2. c.left = op[o].left /\ c.tries = op[o].tries /\ c.since = op[o].since
    BY <1>0 DEF Calls
  <2> HIDE DEF c
  <2> QED BY <1>2, <1>3, <2>1, <2>2
<1>12. CASE DeviceChanges
  <2>1. peer'.version = peer.version + 1 /\ peer.version < MaxChanges /\ op' = op
    BY <1>0, <1>12 DEF DeviceChanges
  <2> QED BY <1>0, <2>1 DEF LocalBounds, Bounded
<1>13. CASE peer'.version = peer.version /\ op' = op
  BY <1>13 DEF LocalBounds, Bounded
<1>14. LinkDrops \/ UNCHANGED localVars => peer'.version = peer.version /\ op' = op
  BY <1>0 DEF LinkDrops, localVars
<1> QED
  BY <1>1, <1>5, <1>6, <1>7, <1>8, <1>9, <1>10, <1>11, <1>12, <1>13, <1>14 DEF LocalNext, OpStep

LEMMA LocalSoundAndBounded == LocalSpec => [](LocalInv /\ LocalBounds)
<1>1. LocalInit => LocalBounds
  BY LocalAssumption DEF LocalInit, LocalBounds, Bounded, Orders
<1> QED BY <1>1, LocalStarts, LocalStep, LocalBoundsStep, PTL DEF LocalSpec

LEMMA LocalTypes == LocalSpec => []LocalTypeOK
<1>1. ASSUME LocalInv, NEW o \in LinkOps PROVE Cardinality({i \in DOMAIN reads : reads[i] = o}) <= 1
  <2>1. DOMAIN reads = 1..Len(reads) /\ \A i, j \in DOMAIN reads : reads[i] = reads[j] => i = j
    BY <1>1 DEF LocalInv, LocalTyped, OnlyTheFirstPulls
  <2>2. CASE {i \in DOMAIN reads : reads[i] = o} = {}
    BY <2>2, FS_EmptySet
  <2>3. CASE {i \in DOMAIN reads : reads[i] = o} # {}
    <3>1. PICK k \in DOMAIN reads : reads[k] = o
      BY <2>3
    <3>2. {i \in DOMAIN reads : reads[i] = o} = {k}
      BY <2>1, <3>1
    <3> QED BY <3>2, FS_Singleton
  <2> QED BY <2>2, <2>3
<1>2. LocalInv /\ LocalBounds => LocalTypeOK
  <2> SUFFICES ASSUME LocalInv, LocalBounds PROVE LocalTypeOK
    OBVIOUS
  <2>1. \A o \in LinkOps : op[o] \in Calls /\ Bounded(op[o])
    BY DEF LocalInv, LocalTyped, LocalBounds
  <2>2. peer.version \in 0..MaxChanges /\ peer.written \subseteq LinkOps
    BY LocalAssumption DEF LocalInv, LocalTyped, LocalBounds
  <2>3. \A o \in LinkOps :
          /\ op[o].what \in Reading \cup {"write", "none"} /\ op[o].left \in Orders
          /\ op[o].step \in OpOver \cup {"idle", "elsewhere", "checking", "connecting", "queued", "pulling", "writing"}
          /\ op[o].via \in {"none", "local", "mqtt"} /\ op[o].tries \in 0..(MaxRetries - 1)
          /\ op[o].since \in 0..MaxChanges
    BY <2>1, LocalAssumption DEF Calls, Bounded
  <2> QED BY <1>1, <2>2, <2>3 DEF LocalTypeOK
<1> QED
  BY <1>2, LocalSoundAndBounded, PTL

-----------------------------------------------------------------------------
(* Operations over local control go forward, and settle once. *)

LEMMA TurnIsNearer ==
  ASSUME NEW c \in Calls, NEW total
  PROVE  Nearer(Turn(c), c, total) /\ Turn(c).step \notin {"idle", "queued", "pulling"}
<1>1. c.left \in Seq({"local", "mqtt"})
  BY DEF Calls
<1>2. CASE c.left = <<>>
  <2>1. Turn(c).step = "failed"
    BY <1>2 DEF Turn, Calls
  <2> QED BY <2>1 DEF Nearer, OpOver
<1>3. CASE c.left # <<>>
  <2>1. Turn(c).left = Tail(c.left) /\ Turn(c).step \in {"checking", "elsewhere"}
    BY <1>3 DEF Turn, Calls
  <2>2. Len(Tail(c.left)) < Len(c.left)
    BY <1>1, <1>3, HeadTailProperties
  <2> QED BY <2>1, <2>2 DEF Nearer
<1> QED BY <1>2, <1>3

\* What a step of an operation makes of it and of the reads.
Moves(o, c) ==
  /\ op' = [op EXCEPT ![o] = c]
  /\ Nearer(c, op[o], Len(peer'.cache)) /\ c.step # "idle"
  /\ \/ reads' = reads /\ c.step # "queued"
     \/ reads' = Append(reads, o) /\ c.step = "queued"
     \/ reads' = Tail(reads) /\ reads # <<>> /\ reads[1] = o /\ c.step # "queued"

LEMMA PullMoves ==
  ASSUME LocalInv, NEW o \in LinkOps, NEW n \in Nat, NEW parses \in BOOLEAN, PullFragment(o, n, parses)
  PROVE  \E c : Moves(o, c)
<1> DEFINE offset == Len(op[o].got)
           cache == IF offset = 0 THEN Document(op[o].what, peer.version) ELSE peer.cache
           total == Len(cache)
           got == op[o].got \o SubSeq(cache, offset + 1, offset + n)
<1>1. op \in [LinkOps -> Calls] /\ op[o] \in Calls /\ op[o].step = "pulling" /\ reads # <<>> /\ reads[1] = o
  BY DEF PullFragment, LocalInv, LocalTyped, OnlyTheFirstPulls
<1>2. cache \in Seq(Bytes) /\ total \in Nat /\ offset \in Nat /\ op[o].got \in Seq(Bytes)
  <2>1. op[o].got \in Seq(Bytes) /\ op[o].what \in Reading /\ peer.version \in Nat
    BY <1>1 DEF LocalInv, LocalTyped, Calls, PulledFromOne
  <2>2. offset # 0 => op[o].got # <<>>
    BY <2>1
  <2>3. \A v \in op[o].since..peer.version : v \in Nat
    BY <1>1, <2>1 DEF Calls
  <2>4. cache \in Seq(Bytes)
    BY <1>1, <2>1, <2>2, <2>3, DocumentType DEF LocalInv, PulledFromOne
  <2> QED BY <2>1, <2>4, LenProperties
<1>3. CASE ReadEnds(o, Turn(op[o]))
  <2>1. Moves(o, Turn(op[o]))
    BY <1>1, <1>3, TurnIsNearer DEF Moves, ReadEnds
  <2> QED BY <2>1
<1>4. ASSUME NEW d, d.step = "done", ReadEnds(o, d) PROVE \E c : Moves(o, c)
  <2>1. Nearer(d, op[o], Len(peer'.cache))
    BY <1>4 DEF Nearer, OpOver
  <2>2. Moves(o, d)
    BY <1>1, <1>4, <2>1 DEF Moves, ReadEnds
  <2> QED BY <2>2
<1>5. CASE total > 0 /\ ~NoProgress(n) /\ Len(got) < total
           /\ op' = [op EXCEPT ![o].got = got, ![o].odd = ~@] /\ UNCHANGED reads
  <2> DEFINE d == [op[o] EXCEPT !.got = got, !.odd = ~op[o].odd]
  <2>1. got \in Seq(Bytes) /\ Len(got) = offset + n /\ n > 0
    <3>1. offset + n <= total /\ n # 0
      BY <1>5 DEF PullFragment, NoProgress
    <3> HIDE DEF offset, cache, total
    <3> DEFINE more == SubSeq(cache, offset + 1, offset + n)
    <3>2. more \in Seq(Bytes) /\ Len(more) = n
      <4>1. offset + 1 \in 1..(Len(cache) + 1) /\ offset + n \in Nat /\ offset + n <= Len(cache)
        BY <1>2, <3>1 DEF total
      <4> QED BY <1>2, <4>1
    <3>3. got = op[o].got \o more /\ Len(op[o].got) = offset
      BY DEF offset
    <3> HIDE DEF more, got
    <3>4. Len(op[o].got \o more) = Len(op[o].got) + Len(more) /\ op[o].got \o more \in Seq(Bytes)
      BY <1>2, <3>2, ConcatProperties
    <3>5. Len(op[o].got \o more) = offset + n
      BY <3>2, <3>3, <3>4
    <3> QED BY <3>1, <3>3, <3>4, <3>5
  <2>2. offset + n < total
    BY <1>5, <2>1
  <2>3. peer'.cache = cache
    <3>1. peer' = [peer EXCEPT !.cache = IF offset + n >= total THEN NoCache ELSE cache]
      BY DEF PullFragment
    <3>2. ~(offset + n >= total)
      <4> HIDE DEF offset, total
      <4> QED BY <1>2, <2>2
    <3> HIDE DEF offset, cache, total
    <3> QED BY <3>1, <3>2 DEF LocalInv, LocalTyped
  <2>4. op' = [op EXCEPT ![o] = d]
    <3> HIDE DEF got
    <3> QED BY <1>1, <1>5
  <2>5. d.step = "pulling" /\ d.left = op[o].left /\ d.got = got
    <3> HIDE DEF got
    <3> QED BY <1>1 DEF Calls
  <2>6. Len(op[o].got) < Len(got) /\ Len(got) < Len(peer'.cache)
    <3>1. offset < offset + n
      <4> HIDE DEF offset
      <4> QED BY <1>2, <2>1
    <3> QED BY <1>5, <2>1, <2>3, <3>1
  <2> HIDE DEF d, got
  <2>7. Nearer(d, op[o], Len(peer'.cache))
    BY <1>1, <2>5, <2>6 DEF Nearer
  <2> QED BY <1>5, <2>4, <2>5, <2>7 DEF Moves
<1>6. \/ ReadEnds(o, [op[o] EXCEPT !.step = "done", !.odd = FALSE])
      \/ ReadEnds(o, Turn(op[o]))
      \/ total > 0 /\ ~NoProgress(n) /\ Len(got) < total
         /\ op' = [op EXCEPT ![o].got = got, ![o].odd = ~@] /\ UNCHANGED reads
      \/ ReadEnds(o, [op[o] EXCEPT !.step = "done", !.got = got, !.odd = FALSE])
  BY DEF PullFragment
<1>7. [op[o] EXCEPT !.step = "done", !.odd = FALSE].step = "done"
      /\ [op[o] EXCEPT !.step = "done", !.got = got, !.odd = FALSE].step = "done"
  <2> HIDE DEF got
  <2> QED BY <1>1 DEF Calls
<1> QED
  <2> HIDE DEF offset, cache, total, got
  <2> QED BY <1>3, <1>4, <1>5, <1>6, <1>7

LEMMA OpMoves ==
  ASSUME LocalInv, LocalBounds, NEW o \in LinkOps, OpStep(o)
  PROVE  op[o].step \notin {"idle"} \cup OpOver /\ \E c : Moves(o, c)
<1>1. op \in [LinkOps -> Calls] /\ op[o] \in Calls
  BY DEF LocalInv, LocalTyped
<1>2. ASSUME op' = [op EXCEPT ![o] = Turn(op[o])], UNCHANGED reads PROVE \E c : Moves(o, c)
  <2>1. Nearer(Turn(op[o]), op[o], Len(peer'.cache)) /\ Turn(op[o]).step \notin {"idle", "queued", "pulling"}
    BY <1>1, TurnIsNearer
  <2>2. Moves(o, Turn(op[o]))
    BY <1>2, <2>1 DEF Moves
  <2> QED BY <2>2
<1>3. ASSUME NEW i \in 1..6, NEW j \in 1..6, i < j, op[o].step = Stages[i], NEW c, c.step = Stages[j], c.left = op[o].left
      PROVE  Nearer(c, op[o], Len(peer'.cache))
  BY <1>3 DEF Nearer
<1>4. ASSUME op' = [op EXCEPT ![o] = [op[o] EXCEPT !.step = "done"]], UNCHANGED reads PROVE \E c : Moves(o, c)
  <2> DEFINE c == [op[o] EXCEPT !.step = "done"]
  <2>1. c.step = "done"
    BY <1>1 DEF Calls
  <2> HIDE DEF c
  <2> QED BY <1>4, <2>1 DEF Moves, Nearer, OpOver, c
<1>5. ASSUME Proceed(o), op[o].step \in {"checking", "connecting"} PROVE \E c : Moves(o, c)
  <2> DEFINE c == Ready(op[o])
  <2>1. c.left = op[o].left /\ c.step = IF op[o].what = "write" THEN "writing" ELSE "queued"
    BY <1>1 DEF Ready, Calls
  <2>2. op' = [op EXCEPT ![o] = c] /\ reads' = IF op[o].what = "write" THEN reads ELSE Append(reads, o)
    BY <1>5 DEF Proceed
  <2> HIDE DEF c
  <2>3. \E i, j \in 1..6 : i < j /\ op[o].step = Stages[i] /\ c.step = Stages[j]
    <3>1. 2 < 4 /\ 2 < 5 /\ 3 < 4 /\ 3 < 5 /\ {2, 3, 4, 5} \subseteq 1..6
      OBVIOUS
    <3>2. Stages[2] = "checking" /\ Stages[3] = "connecting" /\ Stages[4] = "queued" /\ Stages[5] = "writing"
      BY DEF Stages
    <3> QED BY <1>5, <2>1, <3>1, <3>2
  <2>4. Nearer(c, op[o], Len(peer'.cache))
    BY <1>3, <2>1, <2>3
  <2> QED BY <2>1, <2>2, <2>4 DEF Moves
<1>6. ASSUME NEW ok \in BOOLEAN, Elsewhere(o, ok) PROVE \E c : Moves(o, c)
  BY <1>2, <1>4, <1>6 DEF Elsewhere
<1>7. ASSUME CheckSession(o) PROVE \E c : Moves(o, c)
  <2>1. CASE peer.connected
    BY <1>5, <1>7, <2>1 DEF CheckSession
  <2>2. CASE ~peer.connected
    <3> DEFINE c == [op[o] EXCEPT !.step = "connecting"]
    <3>1. op' = [op EXCEPT ![o] = c] /\ reads' = reads /\ op[o].step = "checking"
      BY <1>1, <1>7, <2>2 DEF CheckSession
    <3>2. c.left = op[o].left /\ c.step = "connecting"
      BY <1>1 DEF Calls
    <3> HIDE DEF c
    <3>3. 2 < 3 /\ 2 \in 1..6 /\ 3 \in 1..6 /\ Stages[2] = "checking" /\ Stages[3] = "connecting"
      BY DEF Stages
    <3>4. Nearer(c, op[o], Len(peer'.cache))
      BY <1>3, <3>1, <3>2, <3>3
    <3> QED BY <3>1, <3>2, <3>4 DEF Moves
  <2> QED BY <2>1, <2>2
<1>8. ASSUME NEW ok \in BOOLEAN, ConnectSession(o, ok) PROVE \E c : Moves(o, c)
  <2>1. op[o].step = "connecting"
    BY <1>8 DEF ConnectSession
  <2>2. CASE ok
    BY <1>5, <1>8, <2>1, <2>2 DEF ConnectSession
  <2>3. CASE ~ok /\ op[o].tries + 1 = MaxRetries
    BY <1>2, <1>8, <2>3 DEF ConnectSession
  <2>4. CASE ~ok /\ op[o].tries + 1 # MaxRetries
    <3> DEFINE c == [op[o] EXCEPT !.tries = op[o].tries + 1]
    <3>1. op' = [op EXCEPT ![o] = c] /\ reads' = reads
      BY <1>1, <1>8, <2>4 DEF ConnectSession
    <3>2. c.left = op[o].left /\ c.step = "connecting" /\ c.tries = op[o].tries + 1
      BY <1>1, <2>1 DEF Calls
    <3>0. op[o].tries \in 0..(MaxRetries - 1) /\ MaxRetries \in Nat
      BY <1>1, LocalAssumption DEF LocalBounds, Bounded, Calls
    <3>3. op[o].tries < op[o].tries + 1 /\ op[o].tries + 1 < MaxRetries
      BY <3>0, <2>4
    <3> HIDE DEF c
    <3>4. Nearer(c, op[o], Len(peer'.cache))
      BY <2>1, <3>2, <3>3 DEF Nearer
    <3> QED BY <3>1, <3>2, <3>4 DEF Moves
  <2> QED BY <2>2, <2>3, <2>4
<1>9. ASSUME ReadTurn(o) PROVE \E c : Moves(o, c)
  <2> DEFINE c == [op[o] EXCEPT !.step = "pulling"]
  <2>1. op' = [op EXCEPT ![o] = c] /\ reads' = reads /\ op[o].step = "queued"
    BY <1>1, <1>9 DEF ReadTurn
  <2>2. c.left = op[o].left /\ c.step = "pulling"
    BY <1>1 DEF Calls
  <2> HIDE DEF c
  <2>3. 4 < 6 /\ 4 \in 1..6 /\ 6 \in 1..6 /\ Stages[4] = "queued" /\ Stages[6] = "pulling"
    BY DEF Stages
  <2>4. Nearer(c, op[o], Len(peer'.cache))
    BY <1>3, <2>1, <2>2, <2>3
  <2> QED BY <2>1, <2>2, <2>4 DEF Moves
<1>10. ASSUME PullFails(o) PROVE \E c : Moves(o, c)
  <2>1. reads # <<>> /\ reads[1] = o
    BY <1>10 DEF PullFails, LocalInv, OnlyTheFirstPulls
  <2> QED BY <1>1, <1>10, <2>1, TurnIsNearer DEF PullFails, ReadEnds, Moves
<1>11. ASSUME NEW applied \in BOOLEAN, NEW acknowledged \in BOOLEAN, Write(o, applied, acknowledged)
       PROVE  \E c : Moves(o, c)
  BY <1>2, <1>4, <1>11 DEF Write
<1>12. ASSUME NEW n \in 0..FragmentSize, NEW parses \in BOOLEAN, PullFragment(o, n, parses) PROVE \E c : Moves(o, c)
  BY <1>12, PullMoves
<1>13. op[o].step \notin {"idle"} \cup OpOver
  BY DEF OpStep, Elsewhere, CheckSession, ConnectSession, ReadTurn, PullFails, Write, PullFragment, OpOver
<1> QED BY <1>6, <1>7, <1>8, <1>9, <1>10, <1>11, <1>12, <1>13 DEF OpStep

\* Operations over local control never go round in circles, for any number of them, any
\* retries, fragment sizes, changes of the parameters and devices that answer as they like.
THEOREM LocalOpsGoForward == LocalSpec => OpsGoForward
<1> DEFINE Forward == \A o \in LinkOps : op[o].step # "idle" /\ op'[o] # op[o] =>
                        op[o].step \notin OpOver /\ Nearer(op'[o], op[o], Len(peer'.cache))
<1>1. LocalInv /\ LocalBounds /\ [LocalNext]_localVars => [Forward]_localVars
  <2> SUFFICES ASSUME LocalInv, LocalBounds, LocalNext, NEW o \in LinkOps, op[o].step # "idle", op'[o] # op[o]
               PROVE  op[o].step \notin OpOver /\ Nearer(op'[o], op[o], Len(peer'.cache))
    OBVIOUS
  <2>1. op \in [LinkOps -> Calls]
    BY DEF LocalInv, LocalTyped
  <2>2. ASSUME NEW p \in LinkOps, OpStep(p) PROVE op[o].step \notin OpOver /\ Nearer(op'[o], op[o], Len(peer'.cache))
    <3>1. PICK c : Moves(p, c)
      BY <2>2, OpMoves
    <3>2. p = o /\ op'[o] = c
      BY <2>1, <3>1 DEF Moves
    <3> QED BY <2>2, <3>1, <3>2, OpMoves DEF Moves
  <2>3. ASSUME NEW p \in LinkOps, NEW what, NEW order, Call(p, what, order) PROVE FALSE
    BY <2>1, <2>3 DEF Call
  <2>4. ~DeviceChanges /\ ~LinkDrops
    BY DEF DeviceChanges, LinkDrops
  <2> QED BY <2>2, <2>3, <2>4 DEF LocalNext
<1> QED BY <1>1, LocalSoundAndBounded, PTL DEF LocalSpec, OpsGoForward

StateOfOp(c) == IF c.step \in OpOver \cup {"idle"} THEN c.step ELSE "underway"
InReads(o) == \E i \in DOMAIN reads : reads[i] = o
PlaceOf(o) == IF InReads(o) THEN {"place"} ELSE {}

\* What changes one operation and the places of no other one is a step of that operation.
LEMMA OneOpSettles ==
  ASSUME LocalInv, LocalInv', NEW o \in LinkOps, NEW c, op' = [op EXCEPT ![o] = c], c.step # "idle",
         op[o].step \notin OpOver, \A p \in LinkOps \ {o} : InReads(p)' <=> InReads(p)
  PROVE  OpsSettling!Begin(o) \/ OpsSettling!Hold(o) \/ OpsSettling!Settle({o})
<1> DEFINE now == [p \in LinkOps |-> StateOfOp(op[p])]
           then == [p \in LinkOps |-> StateOfOp(op'[p])]
           has == [p \in LinkOps |-> PlaceOf(p)]
           had == [p \in LinkOps |-> PlaceOf(p)']
<1>1. op \in [LinkOps -> Calls] /\ op'[o] = c /\ \A p \in LinkOps \ {o} : op'[p] = op[p]
  BY DEF LocalInv, LocalTyped
<1>2. then = [now EXCEPT ![o] = StateOfOp(c)]
  BY <1>1
<1>3. had = [has EXCEPT ![o] = PlaceOf(o)'] /\ PlaceOf(o)' \in SUBSET {"place"}
  BY DEF PlaceOf
<1>4. /\ OpsSettling!Begin(o) <=> now[o] = "idle" /\ then = [now EXCEPT ![o] = "underway"]
                                  /\ \E some \in SUBSET {"place"} : had = [has EXCEPT ![o] = some]
      /\ OpsSettling!Hold(o) <=> now[o] = "underway" /\ then = now
                                 /\ \E some \in SUBSET {"place"} : had = [has EXCEPT ![o] = some]
      /\ OpsSettling!Settle({o}) <=>
           /\ \A p \in {o} : now[p] \in {"idle", "underway"}
           /\ \E outcome \in [{o} -> OpOver] :
                then = [p \in LinkOps |-> IF p \in {o} THEN outcome[p] ELSE now[p]]
           /\ had = [p \in LinkOps |-> IF p \in {o} THEN {} ELSE has[p]]
  BY DEF OpsSettling!Begin, OpsSettling!Hold, OpsSettling!Settle, StateOfOp, PlaceOf, InReads
<1>5. now[o] = StateOfOp(op[o]) /\ now[o] \in {"idle", "underway"}
  BY DEF StateOfOp
<1> HIDE DEF now, then, has, had
<1>6. CASE c.step \in OpOver
  <2>1. ~InReads(o)'
    <3>1. op'[o].step \notin {"queued", "pulling"}
      BY <1>1, <1>6 DEF OpOver
    <3>2. \A i \in 1..Len(reads') : op'[reads'[i]].step \in {"queued", "pulling"}
      BY DEF LocalInv, OnlyTheFirstPulls
    <3>3. DOMAIN reads' = 1..Len(reads')
      BY DEF LocalInv, LocalTyped
    <3> QED BY <3>1, <3>2, <3>3 DEF InReads
  <2>2. StateOfOp(c) = c.step /\ PlaceOf(o)' = {}
    BY <1>6, <2>1 DEF StateOfOp, PlaceOf
  <2>3. [p \in {o} |-> c.step] \in [{o} -> OpOver]
    BY <1>6
  <2>4. then = [p \in LinkOps |-> IF p \in {o} THEN [q \in {o} |-> c.step][p] ELSE now[p]]
    BY <1>2, <2>2 DEF now
  <2>5. had = [p \in LinkOps |-> IF p \in {o} THEN {} ELSE has[p]]
    BY <1>3, <2>2 DEF has
  <2> QED BY <1>4, <1>5, <2>3, <2>4, <2>5
<1>7. CASE c.step \notin OpOver
  <2>1. StateOfOp(c) = "underway"
    BY <1>7 DEF StateOfOp
  <2>2. now[o] = "underway" => then = now
    BY <1>2, <2>1 DEF now
  <2> QED BY <1>2, <1>3, <1>4, <1>5, <2>1, <2>2
<1> QED BY <1>6, <1>7

\* Nobody else's place comes or goes with a step of an operation.
LEMMA PlacesStay ==
  ASSUME LocalInv, NEW o \in LinkOps, NEW p \in LinkOps \ {o}, NEW c, Moves(o, c)
  PROVE  InReads(p)' <=> InReads(p)
<1>1. reads \in Seq(LinkOps) /\ DOMAIN reads = 1..Len(reads) /\ Len(reads) \in Nat
  BY DEF LocalInv, LocalTyped
<1>2. CASE reads' = reads
  BY <1>2 DEF InReads
<1>3. CASE reads' = Append(reads, o)
  <2>1. DOMAIN reads' = 1..(Len(reads) + 1) /\ \A i \in 1..(Len(reads) + 1) :
          reads'[i] = IF i = Len(reads) + 1 THEN o ELSE reads[i]
    BY <1>1, <1>3, AppendProperties
  <2> QED BY <1>1, <2>1 DEF InReads
<1>4. CASE reads' = Tail(reads) /\ reads # <<>> /\ reads[1] = o
  <2>1. Len(reads) >= 1 /\ DOMAIN reads' = 1..(Len(reads) - 1)
        /\ \A i \in 1..(Len(reads) - 1) : reads'[i] = reads[i + 1]
    BY <1>1, <1>4, HeadTailProperties
  <2>2. \A i \in 1..Len(reads) : reads[i] = p => i - 1 \in 1..(Len(reads) - 1) /\ reads[(i - 1) + 1] = p
    BY <1>1, <1>4
  <2>3. \A i \in 1..(Len(reads) - 1) : i + 1 \in 1..Len(reads)
    BY <1>1
  <2> QED BY <1>1, <2>1, <2>2, <2>3 DEF InReads
<1> QED BY <1>2, <1>3, <1>4 DEF Moves

LEMMA LocalStepSettles ==
  ASSUME LocalInv, LocalInv', LocalBounds, [LocalNext]_localVars
  PROVE  [OpsSettling!Next]_(OpsSettling!vars)
<1>1. op \in [LinkOps -> Calls]
  BY DEF LocalInv, LocalTyped
<1>2. ASSUME NEW o \in LinkOps,
             OpsSettling!Begin(o) \/ OpsSettling!Hold(o) \/ OpsSettling!Settle({o})
      PROVE  OpsSettling!Next
  <2>1. {o} \in SUBSET LinkOps
    OBVIOUS
  <2> QED BY <1>2, <2>1 DEF OpsSettling!Next
<1>3. ASSUME NEW o \in LinkOps, OpStep(o) PROVE OpsSettling!Next
  <2>1. PICK c : Moves(o, c)
    BY <1>3, OpMoves
  <2>2. \A p \in LinkOps \ {o} : InReads(p)' <=> InReads(p)
    BY <2>1, PlacesStay
  <2>3. op[o].step \notin OpOver /\ op' = [op EXCEPT ![o] = c] /\ c.step # "idle"
    BY <1>3, <2>1, OpMoves DEF Moves
  <2> QED BY <1>2, <2>2, <2>3, OneOpSettles
<1>4. ASSUME NEW o \in LinkOps, NEW what \in Reading \cup {"write"}, NEW order \in Orders, Call(o, what, order)
      PROVE  OpsSettling!Next
  <2> DEFINE b == [op[o] EXCEPT !.what = what, !.left = order, !.since = peer.version]
  <2>1. op' = [op EXCEPT ![o] = Turn(b)] /\ op[o].step = "idle" /\ reads' = reads
    BY <1>1, <1>4 DEF Call
  <2>2. b \in Calls
    <3>1. Orders \subseteq Seq({"local", "mqtt"})
      BY DEF Orders
    <3>2. op[o] \in Calls /\ order \in Seq({"local", "mqtt"}) /\ peer.version \in Nat
      BY <1>1, <3>1 DEF LocalInv, LocalTyped
    <3> QED BY <3>2 DEF Calls
  <2> HIDE DEF b
  <2>3. Turn(b).step # "idle"
    BY <2>2, TurnIsNearer
  <2>4. \A p \in LinkOps \ {o} : InReads(p)' <=> InReads(p)
    BY <2>1 DEF InReads
  <2>5. op[o].step \notin OpOver
    BY <2>1 DEF OpOver
  <2> QED BY <1>2, <2>1, <2>3, <2>4, <2>5, OneOpSettles
<1>5. ASSUME UNCHANGED <<op, reads>> PROVE UNCHANGED OpsSettling!vars
  BY <1>5 DEF OpsSettling!vars
<1> QED BY <1>3, <1>4, <1>5 DEF LocalNext, DeviceChanges, LinkDrops, localVars

\* An operation over the local link settles once and then has no place among the reads,
\* for any number of operations, retries and fragment sizes.
THEOREM LocalOpsSettleOnce == LocalSpec => OpsSettleOnce
<1>1. LocalInit => OpsSettling!Init
  BY DEF LocalInit, OpsSettling!Init
<1> QED
  BY <1>1, LocalSoundAndBounded, LocalStarts, LocalStep, LocalStepSettles, PTL DEF LocalSpec, OpsSettleOnce, OpsSettling!Spec


-----------------------------------------------------------------------------
(* What a group does for its nodes (GroupNodes) *)

Everyone == InGroup \cup Strangers
Values == {"node", "null", "none", "old", "new", "ok", "error"}
Schedules == {"none", "old", "new"}
WriteOps == {"createSchedule", "deleteAllSchedules"}
Distinct(s) == \A i, j \in DOMAIN s : s[i] = s[j] => i = j
CameBack == {pool.settled[k][1] : k \in DOMAIN pool.settled}

Jobs ==
  [op : JobOps \cup {"none"}, pass : {"nodes", "read", "write", "over"}, entries : Seq(Everyone), nodes : Seq(InGroup),
   failures : SUBSET InGroup, fresh : BOOLEAN, result : {"none", "resolved", "rejected"},
   answer : Seq(InGroup) \cup Seq(Everyone \X Values), before : [InGroup -> Schedules], count : Nat]

Pools == [items : Seq(Everyone), next : Nat, running : SUBSET Everyone, settled : Seq(Everyone \X Values), limit : Nat]

\* Whom the pool has started is under way or has settled, and nobody else is.
PoolSound ==
  /\ pool \in Pools /\ Distinct(pool.items) /\ pool.next \in 1..(Len(pool.items) + 1)
  /\ IsFiniteSet(pool.running) /\ Cardinality(pool.running) <= pool.limit
  /\ \A n \in pool.running \cup CameBack : \E i \in 1..(pool.next - 1) : pool.items[i] = n
  /\ \A i \in 1..(pool.next - 1) : pool.items[i] \in pool.running \cup CameBack
  /\ pool.running \cap CameBack = {}

JobTyped ==
  /\ job \in Jobs /\ Distinct(job.entries) /\ schedules \in [InGroup -> Schedules] /\ stored \subseteq InGroup

Written == IF job.op = "createSchedule" THEN "new" ELSE "none"

\* What the passes go over, and what they have done so far.
PassFits ==
  /\ job.pass # "over" => job.answer = <<>> /\ \A i \in DOMAIN pool.items : pool.items[i] \in InGroup
  /\ job.pass \in {"nodes", "read"} => pool.items = GroupOrder /\ schedules = job.before /\ job.failures = {}
  /\ job.pass = "nodes" => job.op \in {"getNodes"} \cup WriteOps
  /\ job.pass = "read" => job.op = "getSchedules"
  /\ job.pass = "write" =>
       /\ job.op \in WriteOps /\ {pool.items[i] : i \in DOMAIN pool.items} = Targeted
       /\ \A n \in InGroup : /\ n \notin CameBack => schedules[n] = job.before[n]
                             /\ n \in CameBack /\ n \notin job.failures => schedules[n] = Written

\* What has been told is so.
AnswerFits ==
  /\ job.pass = "over" /\ job.op \in WriteOps =>
       /\ Changed \subseteq Targeted
       /\ job.answer = <<>> => Changed = {}
       /\ job.answer # <<>> => \A n \in Targeted \ job.failures : schedules[n] = Written
       /\ job.result = "resolved" => job.failures = {}
  /\ job.op = "getNodes" => \A i, j \in DOMAIN job.answer : i < j =>
       \E p, q \in DOMAIN GroupOrder : p < q /\ GroupOrder[p] = job.answer[i] /\ GroupOrder[q] = job.answer[j]
  /\ job.op = "getSchedules" => \A i, j \in DOMAIN job.answer : i < j =>
       \E p, q \in DOMAIN GroupOrder : p < q /\ GroupOrder[p] = job.answer[i][1] /\ GroupOrder[q] = job.answer[j][1]

JobInv == JobTyped /\ PoolSound /\ PassFits /\ AnswerFits

-----------------------------------------------------------------------------
\* A set of naturals has a least one.
LEMMA LeastOf ==
  ASSUME NEW T \in SUBSET Nat, T # {}
  PROVE  \E i \in T : \A j \in T : i <= j
<1>1. IsWellFoundedOn(OpToRel(<, Nat), Nat)
  BY NatLessThanWellFounded
<1>2. PICK i \in T : \A j \in T : ~(<<j, i>> \in OpToRel(<, Nat))
  BY <1>1, WFMin
<1>3. \A j \in T : ~(j < i)
  BY <1>2, Zenon DEF OpToRel
<1> QED BY <1>3

\* What is kept of the first m results, in their order.
KeptUpTo(results, keep, m) ==
  \E k \in 0..m : \E ids \in [1..k -> InGroup] :
    /\ \A i \in 1..k : \E p \in 1..m : p \in keep /\ results[p][1] = ids[i]
    /\ \A p \in 1..m : p \in keep => \E i \in 1..k : ids[i] = results[p][1]
    /\ \A i, j \in 1..k : i < j => \E p, q \in 1..m : p < q /\ results[p][1] = ids[i] /\ results[q][1] = ids[j]

LEMMA KeepsOneMore ==
  ASSUME NEW results, NEW keep, NEW m \in Nat, KeptUpTo(results, keep, m), m + 1 \in keep => results[m + 1][1] \in InGroup
  PROVE  KeptUpTo(results, keep, m + 1)
<1>1. PICK k \in 0..m : \E ids \in [1..k -> InGroup] :
        /\ \A i \in 1..k : \E p \in 1..m : p \in keep /\ results[p][1] = ids[i]
        /\ \A p \in 1..m : p \in keep => \E i \in 1..k : ids[i] = results[p][1]
        /\ \A i, j \in 1..k : i < j => \E p, q \in 1..m : p < q /\ results[p][1] = ids[i] /\ results[q][1] = ids[j]
  BY DEF KeptUpTo
<1>2. PICK ids \in [1..k -> InGroup] :
        /\ \A i \in 1..k : \E p \in 1..m : p \in keep /\ results[p][1] = ids[i]
        /\ \A p \in 1..m : p \in keep => \E i \in 1..k : ids[i] = results[p][1]
        /\ \A i, j \in 1..k : i < j => \E p, q \in 1..m : p < q /\ results[p][1] = ids[i] /\ results[q][1] = ids[j]
  BY <1>1
<1>3. 1..m \subseteq 1..(m + 1) /\ \A p \in 1..(m + 1) : p \in 1..m \/ p = m + 1
  OBVIOUS
<1>4. CASE m + 1 \notin keep
  <2>1. k \in 0..(m + 1)
    OBVIOUS
  <2>2. \A i \in 1..k : \E p \in 1..(m + 1) : p \in keep /\ results[p][1] = ids[i]
    BY <1>2, <1>3
  <2>3. \A p \in 1..(m + 1) : p \in keep => \E i \in 1..k : ids[i] = results[p][1]
    BY <1>2, <1>3, <1>4
  <2>4. ASSUME NEW i \in 1..k, NEW j \in 1..k, i < j
        PROVE  \E p, q \in 1..(m + 1) : p < q /\ results[p][1] = ids[i] /\ results[q][1] = ids[j]
    <3>1. PICK p \in 1..m, q \in 1..m : p < q /\ results[p][1] = ids[i] /\ results[q][1] = ids[j]
      BY <1>2, <2>4
    <3>2. p \in 1..(m + 1) /\ q \in 1..(m + 1)
      BY <1>3
    <3> QED BY <3>1, <3>2
  <2> QED BY <2>1, <2>2, <2>3, <2>4 DEF KeptUpTo
<1>5. CASE m + 1 \in keep
  <2> DEFINE more == [i \in 1..(k + 1) |-> IF i = k + 1 THEN results[m + 1][1] ELSE ids[i]]
  <2>1. k + 1 \in 0..(m + 1) /\ 1..k \subseteq 1..(k + 1) /\ \A i \in 1..(k + 1) : i \in 1..k \/ i = k + 1
    OBVIOUS
  <2>2. more \in [1..(k + 1) -> InGroup]
    BY <1>5, <2>1
  <2>3. more[k + 1] = results[m + 1][1] /\ \A i \in 1..k : more[i] = ids[i]
    BY <2>1
  <2>4. k + 1 \in 1..(k + 1) /\ m + 1 \in 1..(m + 1)
    OBVIOUS
  <2> HIDE DEF more
  <2>5. \A i \in 1..(k + 1) : \E p \in 1..(m + 1) : p \in keep /\ results[p][1] = more[i]
    <3> SUFFICES ASSUME NEW i \in 1..(k + 1) PROVE \E p \in 1..(m + 1) : p \in keep /\ results[p][1] = more[i]
      OBVIOUS
    <3>1. CASE i = k + 1
      BY <1>5, <2>3, <2>4, <3>1
    <3>2. CASE i \in 1..k
      <4>1. PICK p \in 1..m : p \in keep /\ results[p][1] = ids[i]
        BY <1>2, <3>2
      <4>2. p \in 1..(m + 1) /\ more[i] = ids[i]
        BY <1>3, <2>3, <3>2
      <4> QED BY <4>1, <4>2
    <3> QED BY <2>1, <3>1, <3>2
  <2>6. \A p \in 1..(m + 1) : p \in keep => \E i \in 1..(k + 1) : more[i] = results[p][1]
    <3> SUFFICES ASSUME NEW p \in 1..(m + 1), p \in keep PROVE \E i \in 1..(k + 1) : more[i] = results[p][1]
      OBVIOUS
    <3>1. CASE p = m + 1
      BY <2>3, <2>4, <3>1
    <3>2. CASE p \in 1..m
      <4>1. PICK i \in 1..k : ids[i] = results[p][1]
        BY <1>2, <3>2
      <4>2. i \in 1..(k + 1) /\ more[i] = ids[i]
        BY <2>1, <2>3
      <4> QED BY <4>1, <4>2
    <3> QED BY <1>3, <3>1, <3>2
  <2>7. ASSUME NEW i \in 1..(k + 1), NEW j \in 1..(k + 1), i < j
        PROVE  \E p, q \in 1..(m + 1) : p < q /\ results[p][1] = more[i] /\ results[q][1] = more[j]
    <3>1. i \in 1..k
      BY <2>1, <2>7
    <3>2. CASE j \in 1..k
      <4>1. PICK p \in 1..m, q \in 1..m : p < q /\ results[p][1] = ids[i] /\ results[q][1] = ids[j]
        BY <1>2, <2>7, <3>1, <3>2
      <4>2. p \in 1..(m + 1) /\ q \in 1..(m + 1) /\ more[i] = ids[i] /\ more[j] = ids[j]
        BY <1>3, <2>3, <3>1, <3>2
      <4> QED BY <4>1, <4>2
    <3>3. CASE j = k + 1
      <4>1. PICK p \in 1..m : results[p][1] = ids[i]
        BY <1>2, <3>1
      <4>2. p < m + 1 /\ p \in 1..(m + 1)
        OBVIOUS
      <4> QED BY <2>3, <2>4, <3>1, <3>3, <4>1, <4>2
    <3> QED BY <2>1, <3>2, <3>3
  <2> QED BY <2>1, <2>2, <2>5, <2>6, <2>7 DEF KeptUpTo
<1> QED BY <1>4, <1>5

LEMMA AllAreKept ==
  ASSUME NEW results, NEW keep, NEW n \in Nat, \A p \in 1..n : p \in keep => results[p][1] \in InGroup
  PROVE  KeptUpTo(results, keep, n)
<1> DEFINE wrong == {m \in 0..n : ~KeptUpTo(results, keep, m)}
<1>1. KeptUpTo(results, keep, 0)
  <2>1. \A i \in 1..0 : FALSE
    OBVIOUS
  <2>2. [i \in 1..0 |-> i] \in [1..0 -> InGroup] /\ 0 \in 0..0
    BY <2>1
  <2>3. \E ids \in [1..0 -> InGroup] :
          /\ \A i \in 1..0 : \E p \in 1..0 : p \in keep /\ results[p][1] = ids[i]
          /\ \A p \in 1..0 : p \in keep => \E i \in 1..0 : ids[i] = results[p][1]
          /\ \A i, j \in 1..0 : i < j => \E p, q \in 1..0 : p < q /\ results[p][1] = ids[i] /\ results[q][1] = ids[j]
    BY <2>1, <2>2, Zenon
  <2> QED BY <2>2, <2>3 DEF KeptUpTo
<1>2. SUFFICES ASSUME wrong # {} PROVE FALSE
  <2>1. n \in 0..n
    OBVIOUS
  <2> QED BY <1>2, <2>1
<1>3. wrong \in SUBSET Nat
  OBVIOUS
<1>4. PICK m \in wrong : \A j \in wrong : m <= j
  <2> HIDE DEF wrong
  <2> QED BY <1>2, <1>3, LeastOf
<1>5. m # 0 /\ m \in 0..n /\ ~KeptUpTo(results, keep, m)
  BY <1>1, <1>4
<1>6. (m - 1) \in 0..n /\ (m - 1) \in Nat /\ (m - 1) + 1 = m /\ ~(m <= m - 1)
  BY <1>5
<1>7. KeptUpTo(results, keep, m - 1)
  BY <1>4, <1>6
<1>8. KeptUpTo(results, keep, (m - 1) + 1)
  <2>1. (m - 1) + 1 \in keep => results[(m - 1) + 1][1] \in InGroup
    BY <1>5, <1>6
  <2> QED BY <1>6, <1>7, <2>1, KeepsOneMore
<1> QED BY <1>5, <1>6, <1>8

\* What the filter gives.
LEMMA NodesAre ==
  ASSUME \A i \in DOMAIN Results : Results[i][1] \in InGroup, DOMAIN Results = 1..Len(GroupOrder)
  PROVE  /\ Nodes \in ListsOfNodes /\ {Nodes[i] : i \in DOMAIN Nodes} = Had /\ InOrderOf(Nodes, Results)
         /\ Nodes \in Seq(InGroup) /\ Had \subseteq InGroup
<1> DEFINE n == Len(GroupOrder)
           keep == {k \in DOMAIN Results : Results[k][2] = "node"}
<1>1. n \in Nat
  BY GroupAssumption
<1>2. KeptUpTo(Results, keep, n)
  BY <1>1, AllAreKept
<1> HIDE DEF keep
<1>3. PICK k \in 0..n : \E ids \in [1..k -> InGroup] :
        /\ \A i \in 1..k : \E p \in 1..n : p \in keep /\ Results[p][1] = ids[i]
        /\ \A p \in 1..n : p \in keep => \E i \in 1..k : ids[i] = Results[p][1]
        /\ \A i, j \in 1..k : i < j => \E p, q \in 1..n : p < q /\ Results[p][1] = ids[i] /\ Results[q][1] = ids[j]
  BY <1>2 DEF KeptUpTo
<1>4. PICK ids \in [1..k -> InGroup] :
        /\ \A i \in 1..k : \E p \in 1..n : p \in keep /\ Results[p][1] = ids[i]
        /\ \A p \in 1..n : p \in keep => \E i \in 1..k : ids[i] = Results[p][1]
        /\ \A i, j \in 1..k : i < j => \E p, q \in 1..n : p < q /\ Results[p][1] = ids[i] /\ Results[q][1] = ids[j]
  BY <1>3
<1>5. ids \in ListsOfNodes
  BY DEF ListsOfNodes
<1>6. keep \subseteq 1..n
  BY DEF keep
<1>7. {ids[i] : i \in DOMAIN ids} = Had
  <2>1. Had = {Results[i][1] : i \in keep}
    BY DEF Had, keep
  <2>2. DOMAIN ids = 1..k
    OBVIOUS
  <2>3. ASSUME NEW i \in 1..k PROVE ids[i] \in Had
    <3>1. PICK p \in 1..n : p \in keep /\ Results[p][1] = ids[i]
      BY <1>4, <2>3
    <3> QED BY <2>1, <3>1
  <2>4. ASSUME NEW p \in keep PROVE \E i \in 1..k : ids[i] = Results[p][1]
    BY <1>4, <1>6, <2>4
  <2>5. \A h \in Had : \E i \in 1..k : ids[i] = h
    BY <2>1, <2>4
  <2> QED BY <2>2, <2>3, <2>5
<1>8. InOrderOf(ids, Results)
  <2> SUFFICES ASSUME NEW i \in DOMAIN ids, NEW j \in DOMAIN ids, i < j
               PROVE  \E p, q \in DOMAIN Results : p < q /\ Results[p][1] = ids[i] /\ Results[q][1] = ids[j]
    BY DEF InOrderOf
  <2>1. i \in 1..k /\ j \in 1..k
    OBVIOUS
  <2>2. \E p, q \in 1..n : p < q /\ Results[p][1] = ids[i] /\ Results[q][1] = ids[j]
    BY <1>4, <2>1
  <2> QED BY <2>2
<1>9. Nodes \in ListsOfNodes /\ {Nodes[i] : i \in DOMAIN Nodes} = Had /\ InOrderOf(Nodes, Results)
  BY <1>5, <1>7, <1>8 DEF Nodes
<1>10. Nodes \in Seq(InGroup)
  <2>1. PICK l \in 0..n : Nodes \in [1..l -> InGroup]
    BY <1>9 DEF ListsOfNodes
  <2> QED BY <1>1, <2>1
<1>11. Had \subseteq InGroup
  BY DEF Had
<1> QED BY <1>9, <1>10, <1>11

-----------------------------------------------------------------------------
LEMMA PoolStartsSound ==
  ASSUME PoolSound, PoolStarts
  PROVE  PoolSound' /\ CameBack' = CameBack /\ pool'.items = pool.items
<1> DEFINE n == pool.items[pool.next]
<1>1. /\ pool.next <= Len(pool.items) /\ Cardinality(pool.running) < pool.limit
      /\ pool' = [pool EXCEPT !.running = @ \cup {n}, !.next = @ + 1]
  BY DEF PoolStarts, Room
<1>2. /\ pool \in Pools /\ Distinct(pool.items) /\ pool.next \in 1..(Len(pool.items) + 1)
      /\ IsFiniteSet(pool.running) /\ pool.items \in Seq(Everyone) /\ pool.limit \in Nat
  BY DEF PoolSound, Pools
<1>3. pool.next \in DOMAIN pool.items /\ n \in Everyone
  BY <1>1, <1>2
<1>4. n \notin pool.running \cup CameBack
  <2>1. ASSUME NEW i \in 1..(pool.next - 1) PROVE pool.items[i] # n
    <3>1. i \in DOMAIN pool.items /\ i # pool.next
      BY <1>1, <1>2
    <3> QED BY <1>2, <1>3, <3>1 DEF Distinct
  <2> QED BY <2>1 DEF PoolSound
<1> HIDE DEF n
<1>5. /\ pool'.items = pool.items /\ pool'.next = pool.next + 1 /\ pool'.running = pool.running \cup {n}
      /\ pool'.settled = pool.settled /\ pool'.limit = pool.limit
  BY <1>1, <1>2 DEF Pools
<1>6. pool' \in Pools
  <2>1. pool.next + 1 \in Nat
    BY <1>2
  <2> QED BY <1>1, <1>2, <1>3, <2>1 DEF Pools
<1>7. IsFiniteSet(pool'.running) /\ Cardinality(pool'.running) <= pool'.limit
  <2>1. Cardinality(pool.running) \in Nat /\ Cardinality(pool.running \cup {n}) = Cardinality(pool.running) + 1
    BY <1>2, <1>4, FS_CardinalityType, FS_AddElement
  <2>2. IsFiniteSet(pool.running \cup {n})
    BY <1>2, FS_AddElement
  <2> QED BY <1>1, <1>2, <1>5, <2>1, <2>2
<1>8. CameBack' = CameBack
  BY <1>5 DEF CameBack
<1>9. \A m \in pool'.running \cup CameBack' : \E i \in 1..(pool'.next - 1) : pool'.items[i] = m
  <2> SUFFICES ASSUME NEW m \in pool'.running \cup CameBack' PROVE \E i \in 1..(pool'.next - 1) : pool'.items[i] = m
    OBVIOUS
  <2>1. CASE m = n
    <3>1. pool.next \in 1..(pool'.next - 1)
      BY <1>2, <1>5
    <3> QED BY <1>5, <2>1, <3>1 DEF n
  <2>2. CASE m # n
    <3>1. PICK i \in 1..(pool.next - 1) : pool.items[i] = m
      BY <1>5, <1>8, <2>2 DEF PoolSound
    <3>2. i \in 1..(pool'.next - 1)
      BY <1>2, <1>5
    <3> QED BY <1>5, <3>1, <3>2
  <2> QED BY <2>1, <2>2
<1>10. \A i \in 1..(pool'.next - 1) : pool'.items[i] \in pool'.running \cup CameBack'
  <2> SUFFICES ASSUME NEW i \in 1..(pool'.next - 1) PROVE pool'.items[i] \in pool'.running \cup CameBack'
    OBVIOUS
  <2>1. i \in 1..(pool.next - 1) \/ i = pool.next
    BY <1>2, <1>5
  <2> QED BY <1>5, <1>8, <2>1 DEF PoolSound, n
<1>11. pool'.running \cap CameBack' = {}
  BY <1>4, <1>5, <1>8 DEF PoolSound
<1>12. Distinct(pool'.items) /\ pool'.next \in 1..(Len(pool'.items) + 1)
  BY <1>1, <1>2, <1>5 DEF Distinct
<1> QED BY <1>5, <1>6, <1>7, <1>8, <1>9, <1>10, <1>11, <1>12 DEF PoolSound

LEMMA PoolSettledSound ==
  ASSUME PoolSound, NEW n \in pool.running, NEW value \in Values, PoolSettled(n, value)
  PROVE  PoolSound' /\ CameBack' = CameBack \cup {n} /\ n \notin CameBack /\ pool'.items = pool.items
<1>1. pool' = [pool EXCEPT !.running = @ \ {n}, !.settled = Append(@, <<n, value>>)]
  BY DEF PoolSettled
<1>2. /\ pool \in Pools /\ Distinct(pool.items) /\ pool.next \in 1..(Len(pool.items) + 1) /\ pool.settled \in Seq(Everyone \X Values)
      /\ IsFiniteSet(pool.running) /\ n \in Everyone /\ n \notin CameBack /\ pool.limit \in Nat /\ Cardinality(pool.running) <= pool.limit
  BY DEF PoolSound, Pools
<1>3. <<n, value>> \in Everyone \X Values
  BY <1>2
<1>4. Append(pool.settled, <<n, value>>) \in Seq(Everyone \X Values)
  BY <1>2, <1>3
<1>5. /\ pool'.items = pool.items /\ pool'.next = pool.next /\ pool'.running = pool.running \ {n}
      /\ pool'.settled = Append(pool.settled, <<n, value>>) /\ pool'.limit = pool.limit
  BY <1>1, <1>2 DEF Pools
<1>6. pool' \in Pools
  BY <1>1, <1>2, <1>4 DEF Pools
<1>7. CameBack' = CameBack \cup {n}
  <2> DEFINE l == Len(pool.settled)
  <2>1. l \in Nat /\ DOMAIN pool'.settled = 1..(l + 1) /\ DOMAIN pool.settled = 1..l
    BY <1>2, <1>5
  <2>2. pool'.settled[l + 1] = <<n, value>> /\ \A k \in 1..l : pool'.settled[k] = pool.settled[k]
    BY <1>2, <1>3, <1>5
  <2>3. pool'.settled[l + 1][1] = n
    <3>1. <<n, value>>[1] = n
      OBVIOUS
    <3> QED BY <2>2, <3>1, Zenon
  <2> HIDE DEF l
  <2>4. 1..(l + 1) = 1..l \cup {l + 1}
    BY <2>1
  <2>5. ASSUME NEW k \in DOMAIN pool'.settled PROVE pool'.settled[k][1] \in CameBack \cup {n}
    <3>1. CASE k = l + 1
      BY <2>3, <3>1, Zenon
    <3>2. CASE k \in 1..l
      BY <2>1, <2>2, <3>2, Zenon DEF CameBack
    <3> QED BY <2>1, <2>4, <3>1, <3>2, Zenon
  <2>6. ASSUME NEW m \in CameBack PROVE m \in CameBack'
    <3>1. PICK k \in 1..l : pool.settled[k][1] = m
      BY <2>1, Zenon DEF CameBack
    <3>2. k \in DOMAIN pool'.settled /\ pool'.settled[k][1] = m
      BY <2>1, <2>2, <2>4, <3>1, Zenon
    <3> QED BY <3>2, Zenon DEF CameBack
  <2>7. n \in CameBack'
    <3>1. l + 1 \in DOMAIN pool'.settled
      BY <2>1, <2>4, Zenon
    <3> QED BY <2>3, <3>1, Zenon DEF CameBack
  <2>8. CameBack' \subseteq CameBack \cup {n}
    BY <2>5, Zenon DEF CameBack
  <2> QED BY <2>6, <2>7, <2>8, Zenon
<1>8. IsFiniteSet(pool'.running) /\ Cardinality(pool'.running) <= pool'.limit
  <2>1. pool.running \ {n} \subseteq pool.running
    OBVIOUS
  <2>2. IsFiniteSet(pool.running \ {n}) /\ Cardinality(pool.running \ {n}) <= Cardinality(pool.running)
    BY <1>2, <2>1, FS_Subset
  <2>3. Cardinality(pool.running \ {n}) \in Nat /\ Cardinality(pool.running) \in Nat
    BY <1>2, <2>2, FS_CardinalityType
  <2> QED BY <1>2, <1>5, <2>2, <2>3
<1>9. pool'.running \cup CameBack' = pool.running \cup CameBack
  BY <1>5, <1>7
<1>10. pool'.running \cap CameBack' = {}
  BY <1>5, <1>7 DEF PoolSound
<1> QED BY <1>2, <1>5, <1>6, <1>7, <1>8, <1>9, <1>10 DEF PoolSound, Distinct

LEMMA NewPoolSound ==
  ASSUME NEW items \in Seq(Everyone), Distinct(items), NEW limit \in Nat,
         pool' = [items |-> items, next |-> 1, running |-> {}, settled |-> <<>>, limit |-> limit]
  PROVE  PoolSound' /\ CameBack' = {} /\ pool'.items = items
<1>1. <<>> \in Seq(Everyone \X Values)
  OBVIOUS
<1>3. pool' \in Pools
  BY <1>1 DEF Pools
<1>4. IsFiniteSet({}) /\ Cardinality({}) = 0
  BY FS_EmptySet
<1>5. CameBack' = {}
  <2>1. pool'.settled = <<>>
    OBVIOUS
  <2> QED BY <2>1 DEF CameBack
<1>6. /\ pool'.items = items /\ pool'.next = 1 /\ pool'.running = {} /\ pool'.limit = limit
  OBVIOUS
<1>7. 1 \in 1..(Len(items) + 1) /\ \A i \in 1..(1 - 1) : FALSE
  <2>1. Len(items) \in Nat
    OBVIOUS
  <2> QED BY <2>1
<1> QED BY <1>3, <1>4, <1>5, <1>6, <1>7 DEF PoolSound, Distinct

LEMMA PoolBegins ==
  ASSUME NEW items \in Seq(Everyone), Distinct(items), NEW limit \in Nat, pool' = Pool(items, limit)
  PROVE  PoolSound' /\ CameBack' = {} /\ pool'.items = items
<1>1. pool' = [items |-> items, next |-> 1, running |-> {}, settled |-> <<>>, limit |-> limit]
  BY DEF Pool, NoPool
<1> QED BY <1>1, NewPoolSound

LEMMA NoPoolBegins ==
  ASSUME pool' = NoPool
  PROVE  PoolSound' /\ pool'.items = <<>>
<1>1. <<>> \in Seq(Everyone) /\ Distinct(<<>>) /\ PoolLimit \in Nat
  BY GroupAssumption DEF Distinct
<1>2. pool' = [items |-> <<>>, next |-> 1, running |-> {}, settled |-> <<>>, limit |-> PoolLimit]
  BY DEF NoPool
<1> QED BY <1>1, <1>2, NewPoolSound

\* When the pool is over every item has a result, in its place.
LEMMA ResultsAre ==
  ASSUME PoolSound, PoolIsOver
  PROVE  /\ Results \in Seq(Everyone \X Values) /\ Len(Results) = Len(pool.items) /\ DOMAIN Results = DOMAIN pool.items
         /\ \A i \in DOMAIN pool.items : Results[i][1] = pool.items[i] /\ pool.items[i] \in CameBack
<1>1. /\ pool.items \in Seq(Everyone) /\ pool.settled \in Seq(Everyone \X Values) /\ pool.running = {}
      /\ pool.next = Len(pool.items) + 1
  BY DEF PoolSound, PoolIsOver, Pools
<1>2. ASSUME NEW i \in DOMAIN pool.items PROVE pool.items[i] \in CameBack
  <2>1. i \in 1..(pool.next - 1)
    BY <1>1
  <2> QED BY <1>1, <2>1 DEF PoolSound
<1>3. ASSUME NEW i \in DOMAIN pool.items
      PROVE  /\ pool.settled[CHOOSE k \in DOMAIN pool.settled : pool.settled[k][1] = pool.items[i]] \in Everyone \X Values
             /\ pool.settled[CHOOSE k \in DOMAIN pool.settled : pool.settled[k][1] = pool.items[i]][1] = pool.items[i]
  <2>1. \E k \in DOMAIN pool.settled : pool.settled[k][1] = pool.items[i]
    BY <1>2 DEF CameBack
  <2> QED BY <1>1, <2>1
<1>4. \A i \in DOMAIN pool.items : Results[i] \in Everyone \X Values /\ Results[i][1] = pool.items[i]
  BY <1>3 DEF Results
<1>5. DOMAIN Results = 1..Len(pool.items) /\ Len(pool.items) \in Nat
  BY <1>1 DEF Results
<1>6. Results \in [1..Len(pool.items) -> Everyone \X Values]
  <2> DEFINE of(i) == pool.settled[CHOOSE k \in DOMAIN pool.settled : pool.settled[k][1] = pool.items[i]]
  <2>1. Results = [i \in DOMAIN pool.items |-> of(i)] /\ DOMAIN pool.items = 1..Len(pool.items)
    BY <1>1 DEF Results
  <2>2. \A i \in DOMAIN pool.items : of(i) \in Everyone \X Values
    BY <1>3
  <2> HIDE DEF of
  <2> QED BY <2>1, <2>2
<1>7. Results \in Seq(Everyone \X Values)
  BY <1>5, <1>6
<1> QED BY <1>1, <1>2, <1>4, <1>5, <1>7

-----------------------------------------------------------------------------
LEMMA GroupOrderIs == GroupOrder \in Seq(Everyone) /\ Distinct(GroupOrder) /\ \A i \in DOMAIN GroupOrder : GroupOrder[i] \in InGroup
BY GroupAssumption DEF Everyone, Distinct, InGroup

LEMMA JobStartsSound == JobInit => JobInv
<1> SUFFICES ASSUME JobInit PROVE JobInv
  OBVIOUS
<1>1. /\ job = [op |-> "none", pass |-> "over", entries |-> <<>>, nodes |-> <<>>, failures |-> {}, fresh |-> FALSE,
                result |-> "none", answer |-> <<>>, before |-> [n \in InGroup |-> "old"], count |-> 0]
      /\ schedules = [n \in InGroup |-> "old"] /\ stored \in SUBSET InGroup
      /\ pool = [items |-> <<>>, next |-> 1, running |-> {}, settled |-> <<>>, limit |-> PoolLimit]
  BY DEF JobInit, NoPool
<1>2. <<>> \in Seq(Everyone) /\ <<>> \in Seq(InGroup) /\ <<>> \in Seq(Everyone \X Values) /\ Distinct(<<>>)
  BY DEF Distinct
<1>3. [n \in InGroup |-> "old"] \in [InGroup -> Schedules]
  BY DEF Schedules
<1>4. JobTyped
  <2>1. job \in Jobs
    BY <1>1, <1>2, <1>3 DEF Jobs
  <2> QED BY <1>1, <1>2, <1>3, <2>1 DEF JobTyped
<1>5. PoolSound
  <2>1. pool \in Pools
    BY <1>1, <1>2, GroupAssumption DEF Pools
  <2>2. IsFiniteSet({}) /\ Cardinality({}) = 0
    BY FS_EmptySet
  <2>3. CameBack = {} /\ pool.running = {} /\ pool.items = <<>> /\ pool.next = 1 /\ pool.limit = PoolLimit
    BY <1>1 DEF CameBack
  <2> QED BY <1>2, <2>1, <2>2, <2>3, GroupAssumption DEF PoolSound
<1>6. PassFits /\ AnswerFits
  BY <1>1 DEF PassFits, AnswerFits, WriteOps
<1> QED BY <1>4, <1>5, <1>6 DEF JobInv

LEMMA StartJobSound ==
  ASSUME JobInv, NEW opn \in JobOps, NEW pass \in {"nodes", "read", "over"}, NEW entries \in Seq(Everyone), Distinct(entries),
         NEW fresh \in BOOLEAN, NEW items, StartJob(opn, pass, entries, fresh, items),
         items = IF pass = "over" THEN <<>> ELSE GroupOrder,
         pass = "nodes" => opn \in {"getNodes"} \cup WriteOps, pass = "read" => opn = "getSchedules"
  PROVE  JobInv'
<1>1. /\ job' = [op |-> opn, pass |-> pass, entries |-> entries, nodes |-> <<>>, failures |-> {}, fresh |-> fresh,
                 result |-> IF pass = "over" THEN "rejected" ELSE "none", answer |-> <<>>,
                 before |-> schedules, count |-> job.count + 1]
      /\ pool' = Pool(items, PoolLimit) /\ UNCHANGED <<schedules, stored>>
  BY DEF StartJob
<1>2. /\ job \in Jobs /\ schedules \in [InGroup -> Schedules] /\ stored \subseteq InGroup
      /\ job.count \in Nat /\ PoolLimit \in Nat
  BY GroupAssumption DEF JobInv, JobTyped, Jobs
<1>3. <<>> \in Seq(InGroup) /\ <<>> \in Seq(Everyone) /\ Distinct(<<>>) /\ job.count + 1 \in Nat
  BY <1>2 DEF Distinct
<1>4. items \in Seq(Everyone) /\ Distinct(items) /\ \A i \in DOMAIN items : items[i] \in InGroup
  BY <1>3, GroupOrderIs
<1>5. PoolSound' /\ pool'.items = items
  BY <1>1, <1>2, <1>4, PoolBegins
<1>6. JobTyped'
  <2>1. job' \in Jobs
    BY <1>1, <1>2, <1>3 DEF Jobs
  <2> QED BY <1>1, <1>2, <2>1 DEF JobTyped
<1>7. /\ job'.op = opn /\ job'.pass = pass /\ job'.answer = <<>> /\ job'.failures = {} /\ job'.before = schedules' /\ schedules' = schedules
      /\ job'.result = IF pass = "over" THEN "rejected" ELSE "none"
  BY <1>1
<1>8. PassFits'
  BY <1>4, <1>5, <1>7 DEF PassFits
<1>9. AnswerFits'
  BY <1>7 DEF AnswerFits, Changed
<1> QED BY <1>5, <1>6, <1>8, <1>9 DEF JobInv

LEMMA BatchesAre == \A entries \in Batches : entries \in Seq(Everyone) /\ Distinct(entries)
<1>1. ASSUME NEW n \in Everyone PROVE <<n>> \in Seq(Everyone) /\ Distinct(<<n>>)
  BY DEF Distinct
<1>2. ASSUME NEW i \in 1..(Len(GroupOrder) - 1)
      PROVE  <<GroupOrder[i + 1], GroupOrder[i]>> \in Seq(Everyone) /\ Distinct(<<GroupOrder[i + 1], GroupOrder[i]>>)
  <2>1. i \in DOMAIN GroupOrder /\ i + 1 \in DOMAIN GroupOrder /\ i # i + 1
    BY GroupAssumption
  <2>2. GroupOrder[i] # GroupOrder[i + 1] /\ GroupOrder[i] \in Everyone /\ GroupOrder[i + 1] \in Everyone
    BY <2>1, GroupOrderIs DEF Distinct, Everyone
  <2> QED BY <2>2 DEF Distinct
<1> QED BY <1>1, <1>2, GroupOrderIs DEF Batches, Everyone

\* A request that came back and wrote nothing.
LEMMA SettlesOnly ==
  ASSUME JobInv, NEW n \in pool.running, NEW value \in Values, PoolSettled(n, value), job.pass \in {"nodes", "read"},
         UNCHANGED <<job, schedules>>, stored' \subseteq InGroup
  PROVE  JobInv'
<1>1. PoolSound' /\ pool'.items = pool.items
  BY PoolSettledSound DEF JobInv
<1>2. JobTyped'
  BY DEF JobInv, JobTyped
<1>3. PassFits'
  BY <1>1 DEF JobInv, PassFits
<1>4. AnswerFits'
  BY DEF JobInv, AnswerFits, Changed, Targeted, Written
<1> QED BY <1>1, <1>2, <1>3, <1>4 DEF JobInv

LEMMA NodeIsWrittenSound ==
  ASSUME JobInv, NEW n \in InGroup, NEW applied \in BOOLEAN, NEW answered \in BOOLEAN, NodeIsWritten(n, applied, answered)
  PROVE  JobInv'
<1> DEFINE value == IF answered THEN "ok" ELSE "error"
<1>1. /\ job.pass = "write" /\ n \in pool.running /\ (answered => applied) /\ UNCHANGED stored
      /\ schedules' = IF applied THEN [schedules EXCEPT ![n] = Written] ELSE schedules
      /\ job' = IF answered THEN job ELSE [job EXCEPT !.failures = @ \cup {n}]
      /\ value \in Values /\ PoolSettled(n, value)
  BY DEF NodeIsWritten, Written, Values
<1> HIDE DEF value
<1>2. PoolSound' /\ CameBack' = CameBack \cup {n} /\ pool'.items = pool.items
  BY <1>1, PoolSettledSound DEF JobInv
<1>3. job \in Jobs /\ schedules \in [InGroup -> Schedules] /\ stored \subseteq InGroup /\ Distinct(job.entries) /\ Written \in Schedules
  BY DEF JobInv, JobTyped, Written, Schedules
<1>4. /\ job' \in Jobs /\ job'.op = job.op /\ job'.pass = job.pass /\ job'.entries = job.entries /\ job'.nodes = job.nodes
      /\ job'.answer = job.answer /\ job'.before = job.before /\ job'.failures = IF answered THEN job.failures ELSE job.failures \cup {n}
  <2>1. CASE answered
    BY <1>1, <1>3, <2>1
  <2>2. CASE ~answered
    BY <1>1, <1>3, <2>2 DEF Jobs
  <2> QED BY <2>1, <2>2
<1>5. /\ schedules' \in [InGroup -> Schedules] /\ \A m \in InGroup : m # n => schedules'[m] = schedules[m]
      /\ applied => schedules'[n] = Written
  <2>1. CASE applied
    BY <1>1, <1>3, <2>1
  <2>2. CASE ~applied
    BY <1>1, <1>3, <2>2
  <2> QED BY <2>1, <2>2
<1>6. JobTyped'
  BY <1>1, <1>3, <1>4, <1>5 DEF JobTyped
<1>7. PassFits /\ job.op \in WriteOps
  BY <1>1 DEF JobInv, PassFits
<1>8. Targeted' = Targeted /\ Written' = Written
  BY <1>4 DEF Targeted, Written
<1>9. PassFits'
  <2>1. ASSUME NEW m \in InGroup
        PROVE  /\ m \notin CameBack' => schedules'[m] = job'.before[m]
               /\ m \in CameBack' /\ m \notin job'.failures => schedules'[m] = Written'
    <3>1. CASE m = n
      BY <1>1, <1>2, <1>4, <1>5, <1>8, <3>1
    <3>2. CASE m # n
      BY <1>1, <1>2, <1>4, <1>5, <1>7, <1>8, <3>2 DEF PassFits
    <3> QED BY <3>1, <3>2
  <2> QED BY <1>1, <1>2, <1>4, <1>7, <1>8, <2>1 DEF PassFits
<1>10. AnswerFits'
  BY <1>1, <1>4, <1>7 DEF AnswerFits, WriteOps
<1> QED BY <1>2, <1>6, <1>9, <1>10 DEF JobInv

\* The nodes that were had are of the group, each once, in its order.
LEMMA HadInOrder ==
  ASSUME JobInv, job.pass \in {"nodes", "read"}, PoolIsOver
  PROVE  /\ Nodes \in Seq(InGroup) /\ Distinct(Nodes) /\ Had \subseteq InGroup
         /\ \A i, j \in DOMAIN Nodes : i < j =>
              \E p, q \in DOMAIN GroupOrder : p < q /\ GroupOrder[p] = Nodes[i] /\ GroupOrder[q] = Nodes[j]
<1>1. pool.items = GroupOrder /\ PoolSound
  BY DEF JobInv, PassFits
<1>2. DOMAIN Results = DOMAIN GroupOrder /\ \A i \in DOMAIN GroupOrder : Results[i][1] = GroupOrder[i] /\ GroupOrder[i] \in InGroup
  BY <1>1, ResultsAre, GroupOrderIs
<1>3. DOMAIN GroupOrder = 1..Len(GroupOrder)
  BY GroupOrderIs
<1>4. Nodes \in Seq(InGroup) /\ Had \subseteq InGroup /\ InOrderOf(Nodes, Results)
  BY <1>2, <1>3, NodesAre
<1> HIDE DEF Nodes, Results
<1>5. ASSUME NEW i \in DOMAIN Nodes, NEW j \in DOMAIN Nodes, i < j
      PROVE  \E p, q \in DOMAIN GroupOrder : p < q /\ GroupOrder[p] = Nodes[i] /\ GroupOrder[q] = Nodes[j]
  <2>1. PICK p \in DOMAIN Results, q \in DOMAIN Results : p < q /\ Results[p][1] = Nodes[i] /\ Results[q][1] = Nodes[j]
    BY <1>4, <1>5 DEF InOrderOf
  <2> QED BY <1>2, <2>1
<1>6. ASSUME NEW i \in DOMAIN Nodes, NEW j \in DOMAIN Nodes, i < j PROVE Nodes[i] # Nodes[j]
  <2>1. PICK p \in DOMAIN GroupOrder, q \in DOMAIN GroupOrder : p < q /\ GroupOrder[p] = Nodes[i] /\ GroupOrder[q] = Nodes[j]
    BY <1>5, <1>6
  <2>2. p # q
    BY <1>3, <2>1
  <2> QED BY <2>1, <2>2, GroupOrderIs DEF Distinct
<1>7. Distinct(Nodes)
  <2>1. \A i, j \in DOMAIN Nodes : i = j \/ i < j \/ j < i
    BY <1>4
  <2> QED BY <1>6, <2>1 DEF Distinct
<1> QED BY <1>4, <1>5, <1>7

LEMMA NodesDoneSound ==
  ASSUME JobInv, NodesDone
  PROVE  JobInv'
<1>1. job.pass = "nodes" /\ PoolIsOver /\ UNCHANGED <<schedules, stored>>
  BY DEF NodesDone
<1>2. /\ job \in Jobs /\ schedules \in [InGroup -> Schedules] /\ stored \subseteq InGroup /\ Distinct(job.entries) /\ job.entries \in Seq(Everyone)
      /\ job.op \in {"getNodes"} \cup WriteOps /\ schedules = job.before /\ job.failures = {} /\ job.answer = <<>>
  BY <1>1 DEF JobInv, JobTyped, PassFits, Jobs
<1>3. /\ Nodes \in Seq(InGroup) /\ Distinct(Nodes) /\ Had \subseteq InGroup
      /\ \A i, j \in DOMAIN Nodes : i < j =>
           \E p, q \in DOMAIN GroupOrder : p < q /\ GroupOrder[p] = Nodes[i] /\ GroupOrder[q] = Nodes[j]
  BY <1>1, HadInOrder
<1> DEFINE named == {job.entries[i] : i \in DOMAIN job.entries}
<1>4. \/ job.op = "getNodes" /\ job' = JobOver("resolved", Nodes) /\ pool' = NoPool
      \/ job.op = "createSchedule" /\ job' = JobOver("rejected", <<>>) /\ pool' = NoPool
      \/ job.op = "createSchedule" /\ named \subseteq Had /\ job' = [job EXCEPT !.pass = "write", !.nodes = Nodes] /\ pool' = Pool(job.entries, PoolLimit)
      \/ job.op = "deleteAllSchedules" /\ job' = [job EXCEPT !.pass = "write", !.nodes = Nodes] /\ pool' = Pool(Nodes, Len(GroupOrder) + 1)
  <2>1. job.op = "getNodes" \/ (job.op = "createSchedule" /\ ~(named \subseteq Had)) \/ (job.op = "createSchedule" /\ named \subseteq Had) \/ job.op = "deleteAllSchedules"
    BY <1>2 DEF WriteOps
  <2> HIDE DEF named
  <2> QED BY <2>1 DEF NodesDone, named
<1> HIDE DEF Nodes, Had
<1>5. CASE job.op = "getNodes" /\ job' = JobOver("resolved", Nodes) /\ pool' = NoPool
  <2>1. PoolSound'
    BY <1>5, NoPoolBegins
  <2>2. job' \in Jobs /\ job'.op = "getNodes" /\ job'.pass = "over" /\ job'.answer = Nodes /\ job'.entries = job.entries
    BY <1>2, <1>3, <1>5 DEF Jobs, JobOver
  <2>3. JobTyped' /\ PassFits'
    BY <1>1, <1>2, <2>2 DEF JobTyped, PassFits
  <2>4. AnswerFits'
    BY <1>3, <2>2 DEF AnswerFits, WriteOps
  <2> QED BY <2>1, <2>3, <2>4 DEF JobInv
<1>6. CASE job.op = "createSchedule" /\ job' = JobOver("rejected", <<>>) /\ pool' = NoPool
  <2>1. PoolSound'
    BY <1>6, NoPoolBegins
  <2>2. /\ job' \in Jobs /\ job'.op = "createSchedule" /\ job'.pass = "over" /\ job'.answer = <<>> /\ job'.entries = job.entries
        /\ job'.before = job.before /\ job'.result = "rejected"
    <3>1. <<>> \in Seq(InGroup)
      OBVIOUS
    <3> QED BY <1>2, <1>6, <3>1 DEF Jobs, JobOver
  <2>3. JobTyped' /\ PassFits'
    BY <1>1, <1>2, <2>2 DEF JobTyped, PassFits
  <2>4. Changed' = {}
    BY <1>1, <1>2, <2>2 DEF Changed
  <2>5. AnswerFits'
    BY <2>2, <2>4 DEF AnswerFits
  <2> QED BY <2>1, <2>3, <2>5 DEF JobInv
<1>7. ASSUME NEW items \in Seq(InGroup), Distinct(items), NEW limit \in Nat, job.op \in WriteOps, pool' = Pool(items, limit),
             job' = [job EXCEPT !.pass = "write", !.nodes = Nodes],
             {items[i] : i \in DOMAIN items} = IF job.op = "createSchedule" THEN named ELSE {Nodes[i] : i \in DOMAIN Nodes}
      PROVE  JobInv'
  <2>1. items \in Seq(Everyone)
    BY DEF Everyone
  <2>2. PoolSound' /\ CameBack' = {} /\ pool'.items = items
    BY <1>7, <2>1, PoolBegins
  <2>3. /\ job' \in Jobs /\ job'.op = job.op /\ job'.pass = "write" /\ job'.answer = <<>> /\ job'.entries = job.entries
        /\ job'.before = job.before /\ job'.nodes = Nodes
    BY <1>2, <1>3, <1>7 DEF Jobs
  <2>4. JobTyped'
    BY <1>1, <1>2, <2>3 DEF JobTyped
  <2>5. Targeted' = {items[i] : i \in DOMAIN items}
    BY <1>7, <2>3 DEF Targeted
  <2>6. \A i \in DOMAIN items : items[i] \in InGroup
    OBVIOUS
  <2>7. PassFits'
    BY <1>1, <1>2, <1>7, <2>2, <2>3, <2>5, <2>6 DEF PassFits
  <2>8. AnswerFits'
    BY <1>7, <2>3 DEF AnswerFits, WriteOps
  <2> QED BY <2>2, <2>4, <2>7, <2>8 DEF JobInv
<1>8. CASE job.op = "createSchedule" /\ named \subseteq Had /\ job' = [job EXCEPT !.pass = "write", !.nodes = Nodes] /\ pool' = Pool(job.entries, PoolLimit)
  <2>1. job.entries \in Seq(InGroup)
    <3>1. \A i \in DOMAIN job.entries : job.entries[i] \in InGroup
      BY <1>3, <1>8
    <3>2. Len(job.entries) \in Nat /\ job.entries \in [1..Len(job.entries) -> Everyone]
      BY <1>2
    <3>3. job.entries \in [1..Len(job.entries) -> InGroup]
      BY <3>1, <3>2
    <3> QED BY <3>2, <3>3
  <2> QED BY <1>2, <1>7, <1>8, <2>1, GroupAssumption DEF WriteOps
<1>9. CASE job.op = "deleteAllSchedules" /\ job' = [job EXCEPT !.pass = "write", !.nodes = Nodes] /\ pool' = Pool(Nodes, Len(GroupOrder) + 1)
  <2>1. Len(GroupOrder) + 1 \in Nat
    BY GroupAssumption
  <2> QED BY <1>3, <1>7, <1>9, <2>1 DEF WriteOps
<1> QED BY <1>4, <1>5, <1>6, <1>8, <1>9

LEMMA WritesDoneSound ==
  ASSUME JobInv, WritesDone
  PROVE  JobInv'
<1> DEFINE result == IF job.failures = {} THEN "resolved" ELSE "rejected"
<1>1. /\ job.pass = "write" /\ PoolIsOver /\ UNCHANGED <<schedules, stored>> /\ pool' = NoPool
      /\ job' = JobOver(result, Results)
  BY DEF WritesDone
<1>2. /\ job \in Jobs /\ schedules \in [InGroup -> Schedules] /\ stored \subseteq InGroup /\ Distinct(job.entries) /\ PassFits
      /\ PoolSound /\ pool.items \in Seq(Everyone)
  BY <1>1 DEF JobInv, JobTyped, PoolSound, Pools
<1>3. /\ Results \in Seq(Everyone \X Values) /\ Len(Results) = Len(pool.items)
      /\ \A i \in DOMAIN pool.items : pool.items[i] \in CameBack
  BY <1>1, <1>2, ResultsAre
<1> HIDE DEF Results
<1>4. /\ job' \in Jobs /\ job'.op = job.op /\ job'.pass = "over" /\ job'.answer = Results /\ job'.entries = job.entries /\ job'.nodes = job.nodes
      /\ job'.before = job.before /\ job'.failures = job.failures /\ job'.result = result
  BY <1>1, <1>2, <1>3 DEF Jobs, JobOver
<1>5. PoolSound'
  BY <1>1, NoPoolBegins
<1>6. JobTyped' /\ PassFits'
  BY <1>1, <1>2, <1>4 DEF JobTyped, PassFits
<1>7. Targeted' = Targeted /\ Changed' = Changed /\ Written' = Written
  BY <1>1, <1>4 DEF Targeted, Changed, Written
<1>8. Targeted = {pool.items[i] : i \in DOMAIN pool.items} /\ job.op \in WriteOps
  BY <1>1, <1>2 DEF PassFits
<1>9. Changed \subseteq CameBack /\ CameBack \subseteq Targeted /\ Targeted \subseteq CameBack /\ Targeted \subseteq InGroup
  <2>1. Changed \subseteq CameBack
    BY <1>1, <1>2 DEF Changed, PassFits
  <2>2. ASSUME NEW n \in CameBack PROVE n \in Targeted
    <3>1. PICK i \in 1..(pool.next - 1) : pool.items[i] = n
      BY <1>2 DEF PoolSound
    <3>2. i \in DOMAIN pool.items
      BY <1>2 DEF PoolSound
    <3> QED BY <1>8, <3>1, <3>2
  <2>3. Targeted \subseteq CameBack /\ Targeted \subseteq InGroup
    BY <1>1, <1>2, <1>3, <1>8 DEF PassFits
  <2> QED BY <2>1, <2>2, <2>3
<1>10. Results = <<>> => Targeted = {}
  BY <1>2, <1>3, <1>8
<1>11. \A n \in Targeted \ job.failures : schedules[n] = Written
  BY <1>1, <1>2, <1>9 DEF PassFits
<1>12. AnswerFits'
  BY <1>1, <1>4, <1>7, <1>8, <1>9, <1>10, <1>11 DEF AnswerFits, WriteOps
<1> QED BY <1>5, <1>6, <1>12 DEF JobInv

LEMMA ReadsDoneSound ==
  ASSUME JobInv, ReadsDone
  PROVE  JobInv'
<1>1. /\ job.pass = "read" /\ PoolIsOver /\ UNCHANGED <<schedules, stored>> /\ pool' = NoPool
      /\ job' = JobOver("resolved", Results)
  BY DEF ReadsDone
<1>2. /\ job \in Jobs /\ schedules \in [InGroup -> Schedules] /\ stored \subseteq InGroup /\ Distinct(job.entries)
      /\ PoolSound /\ pool.items = GroupOrder /\ job.op = "getSchedules"
  BY <1>1 DEF JobInv, JobTyped, PassFits
<1>3. /\ Results \in Seq(Everyone \X Values) /\ DOMAIN Results = DOMAIN GroupOrder
      /\ \A i \in DOMAIN GroupOrder : Results[i][1] = GroupOrder[i]
  BY <1>1, <1>2, ResultsAre
<1> HIDE DEF Results
<1>4. /\ job' \in Jobs /\ job'.op = "getSchedules" /\ job'.pass = "over" /\ job'.answer = Results /\ job'.entries = job.entries
  BY <1>1, <1>2, <1>3 DEF Jobs, JobOver
<1>5. PoolSound'
  BY <1>1, NoPoolBegins
<1>6. JobTyped' /\ PassFits'
  BY <1>1, <1>2, <1>4 DEF JobTyped, PassFits
<1>7. AnswerFits'
  BY <1>3, <1>4 DEF AnswerFits, WriteOps
<1> QED BY <1>5, <1>6, <1>7 DEF JobInv

LEMMA JobStep == JobInv /\ [JobNext]_jobVars => JobInv'
<1> SUFFICES ASSUME JobInv, [JobNext]_jobVars PROVE JobInv'
  OBVIOUS
<1>a. <<>> \in Seq(Everyone) /\ Distinct(<<>>)
  BY DEF Distinct
<1>1. ASSUME GetSchedules PROVE JobInv'
  <2>1. StartJob("getSchedules", "read", <<>>, FALSE, GroupOrder)
    BY <1>1 DEF GetSchedules
  <2> QED BY <1>a, <2>1, StartJobSound DEF JobOps
<1>2. ASSUME DeleteAllSchedules PROVE JobInv'
  <2>1. StartJob("deleteAllSchedules", "nodes", <<>>, TRUE, GroupOrder)
    BY <1>2 DEF DeleteAllSchedules
  <2> QED BY <1>a, <2>1, StartJobSound DEF JobOps, WriteOps
<1>3. ASSUME NEW fresh \in BOOLEAN, GetNodes(fresh) PROVE JobInv'
  <2>1. StartJob("getNodes", "nodes", <<>>, fresh, GroupOrder)
    BY <1>3 DEF GetNodes
  <2> QED BY <1>a, <2>1, StartJobSound DEF JobOps
<1>4. ASSUME NEW entries \in Batches, NEW valid \in BOOLEAN, CreateSchedule(entries, valid) PROVE JobInv'
  <2>1. \/ StartJob("createSchedule", "nodes", entries, FALSE, GroupOrder)
        \/ StartJob("createSchedule", "over", entries, FALSE, <<>>)
    BY <1>4 DEF CreateSchedule
  <2> QED BY <2>1, BatchesAre, StartJobSound DEF JobOps, WriteOps
<1>5. ASSUME PoolStarts PROVE JobInv'
  <2>1. PoolSound' /\ CameBack' = CameBack /\ pool'.items = pool.items /\ UNCHANGED <<job, schedules, stored>>
    BY <1>5, PoolStartsSound DEF JobInv, PoolStarts
  <2>2. JobTyped'
    BY <2>1 DEF JobInv, JobTyped
  <2>3. PassFits'
    <3>1. Targeted' = Targeted /\ Written' = Written
      BY <2>1 DEF Targeted, Written
    <3> QED BY <2>1, <3>1 DEF JobInv, PassFits
  <2>4. AnswerFits'
    BY <2>1 DEF JobInv, AnswerFits, Changed, Targeted, Written
  <2> QED BY <2>1, <2>2, <2>3, <2>4 DEF JobInv
<1>6. ASSUME NEW n \in InGroup, NEW ok \in BOOLEAN, NodeIsHad(n, ok) PROVE JobInv'
  <2> DEFINE value == IF ok THEN "node" ELSE "null"
  <2>1. /\ job.pass = "nodes" /\ n \in pool.running /\ PoolSettled(n, value) /\ UNCHANGED <<job, schedules>> /\ value \in Values
        /\ stored' = IF ok THEN stored \cup {n} ELSE stored
    BY <1>6 DEF NodeIsHad, Values
  <2> HIDE DEF value
  <2>2. stored' \subseteq InGroup
    BY <2>1 DEF JobInv, JobTyped
  <2> QED BY <2>1, <2>2, SettlesOnly
<1>7. ASSUME NEW n \in InGroup, NEW ok \in BOOLEAN, NodeIsRead(n, ok) PROVE JobInv'
  <2> DEFINE value == IF ok THEN schedules[n] ELSE "none"
  <2>1. job.pass = "read" /\ n \in pool.running /\ PoolSettled(n, value) /\ UNCHANGED <<job, schedules, stored>>
    BY <1>7 DEF NodeIsRead
  <2>2. value \in Values /\ stored' \subseteq InGroup
    <3>1. schedules[n] \in Schedules
      BY DEF JobInv, JobTyped
    <3> QED BY <2>1, <3>1 DEF Values, Schedules, JobInv, JobTyped
  <2> HIDE DEF value
  <2> QED BY <2>1, <2>2, SettlesOnly
<1>8. ASSUME NEW n \in InGroup, NEW applied \in BOOLEAN, NEW answered \in BOOLEAN, NodeIsWritten(n, applied, answered) PROVE JobInv'
  BY <1>8, NodeIsWrittenSound
<1>9. CASE UNCHANGED jobVars
  <2>1. UNCHANGED <<job, schedules, stored, pool>>
    BY <1>9 DEF jobVars
  <2>2. JobTyped' /\ PoolSound'
    BY <2>1 DEF JobInv, JobTyped, PoolSound, CameBack
  <2>3. PassFits'
    <3>1. Targeted' = Targeted /\ Written' = Written /\ CameBack' = CameBack
      BY <2>1 DEF Targeted, Written, CameBack
    <3> QED BY <2>1, <3>1 DEF JobInv, PassFits
  <2>4. AnswerFits'
    BY <2>1 DEF JobInv, AnswerFits, Changed, Targeted, Written
  <2> QED BY <2>2, <2>3, <2>4 DEF JobInv
<1>10. JobProgress => JobInv'
  BY <1>5, <1>6, <1>7, <1>8, NodesDoneSound, WritesDoneSound, ReadsDoneSound DEF JobProgress
<1> QED BY <1>1, <1>2, <1>3, <1>4, <1>9, <1>10 DEF JobNext

\* Whatever fails, answers late or never at any of a group's nodes, in a group of any
\* size (getNodes, getSchedules, createSchedule, deleteAllSchedules): the pool keeps its
\* limit and its order, and a batch has done what it says.
THEOREM JobsAreHonest == JobSpec => []GroupJobsAreHonest
<1>1. JobInv => GroupJobsAreHonest
  <2> SUFFICES ASSUME JobInv PROVE GroupJobsAreHonest
    OBVIOUS
  <2>1. Cardinality(pool.running) <= pool.limit
    BY DEF JobInv, PoolSound
  <2>2. job.pass = "over" /\ job.op \in {"createSchedule", "deleteAllSchedules"} =>
          /\ Changed \subseteq Targeted
          /\ job.answer = <<>> => Changed = {}
          /\ job.answer # <<>> => \A n \in Targeted \ job.failures :
                                    schedules[n] = IF job.op = "createSchedule" THEN "new" ELSE "none"
          /\ job.result = "resolved" => job.failures = {}
    BY DEF JobInv, AnswerFits, WriteOps, Written
  <2>3. ASSUME job.op \in {"getNodes", "getSchedules"}, NEW i \in DOMAIN job.answer, NEW j \in DOMAIN job.answer, i < j
        PROVE  LET at(k) == CHOOSE p \in DOMAIN GroupOrder :
                              GroupOrder[p] = IF job.op = "getNodes" THEN job.answer[k] ELSE job.answer[k][1]
               IN at(i) < at(j)
    <3> DEFINE id(k) == IF job.op = "getNodes" THEN job.answer[k] ELSE job.answer[k][1]
               at(k) == CHOOSE p \in DOMAIN GroupOrder : GroupOrder[p] = id(k)
    <3>1. PICK p \in DOMAIN GroupOrder, q \in DOMAIN GroupOrder : p < q /\ GroupOrder[p] = id(i) /\ GroupOrder[q] = id(j)
      BY <2>3 DEF JobInv, AnswerFits
    <3> HIDE DEF id
    <3>2. at(i) = p /\ at(j) = q
      BY <3>1, GroupOrderIs DEF Distinct
    <3>3. at(i) < at(j)
      BY <3>1, <3>2
    <3> QED BY <3>3 DEF id
  <2> QED BY <2>1, <2>2, <2>3 DEF GroupJobsAreHonest
<1> QED BY <1>1, JobStartsSound, JobStep, PTL DEF JobSpec

\* Whom the pool has started is under way or has settled, and is counted once.
JobBounds ==
  /\ job.count <= MaxJobs /\ (job.pass = "over" => pool.items = <<>>)
  /\ Len(pool.settled) + Cardinality(pool.running) = pool.next - 1

LEMMA PoolIs ==
  ASSUME PoolSound
  PROVE  /\ pool \in Pools /\ pool.next \in Nat /\ Len(pool.items) \in Nat /\ Len(pool.settled) \in Nat
         /\ IsFiniteSet(pool.running) /\ Cardinality(pool.running) \in Nat
         /\ pool.settled \in Seq(Everyone \X Values)
<1>1. pool \in Pools /\ IsFiniteSet(pool.running)
  BY DEF PoolSound
<1>2. pool.next \in Nat /\ Len(pool.items) \in Nat /\ Len(pool.settled) \in Nat /\ pool.settled \in Seq(Everyone \X Values)
  BY <1>1 DEF Pools
<1> QED BY <1>1, <1>2, FS_CardinalityType

LEMMA StartCounted ==
  ASSUME PoolSound, JobBounds, PoolStarts
  PROVE  JobBounds'
<1> DEFINE n == pool.items[pool.next]
<1>1. /\ pool.next <= Len(pool.items) /\ UNCHANGED job
      /\ pool' = [pool EXCEPT !.running = @ \cup {n}, !.next = @ + 1]
  BY DEF PoolStarts
<1>2. n \notin pool.running
  <2>1. ASSUME NEW i \in 1..(pool.next - 1) PROVE pool.items[i] # n
    <3>1. i \in DOMAIN pool.items /\ i # pool.next /\ pool.next \in DOMAIN pool.items
      BY <1>1, PoolIs DEF PoolSound, Pools
    <3> QED BY <3>1 DEF PoolSound, Distinct
  <2> QED BY <2>1 DEF PoolSound
<1> HIDE DEF n
<1>3. /\ pool'.items = pool.items /\ pool'.next = pool.next + 1
      /\ pool'.running = pool.running \cup {n} /\ pool'.settled = pool.settled
  BY <1>1, PoolIs DEF Pools
<1>4. Cardinality(pool.running \cup {n}) = Cardinality(pool.running) + 1
  BY <1>2, PoolIs, FS_AddElement
<1>5. Len(pool'.settled) + Cardinality(pool'.running) = pool'.next - 1
  <2>1. Len(pool'.settled) = Len(pool.settled) /\ Cardinality(pool'.running) = Cardinality(pool.running) + 1
    BY <1>3, <1>4, Zenon
  <2>2. Len(pool.settled) \in Nat /\ Cardinality(pool.running) \in Nat /\ pool.next \in Nat
    BY PoolIs
  <2>3. Len(pool.settled) + Cardinality(pool.running) = pool.next - 1 /\ pool'.next = pool.next + 1
    BY <1>3, Zenon DEF JobBounds
  <2> QED BY <2>1, <2>2, <2>3
<1> QED BY <1>1, <1>3, <1>5 DEF JobBounds

LEMMA SettledCounted ==
  ASSUME PoolSound, JobBounds, NEW n \in pool.running, NEW value \in Values, PoolSettled(n, value),
         job'.count = job.count, job'.pass = job.pass
  PROVE  JobBounds'
<1>1. pool' = [pool EXCEPT !.running = @ \ {n}, !.settled = Append(@, <<n, value>>)]
  BY DEF PoolSettled
<1>2. /\ pool'.items = pool.items /\ pool'.next = pool.next /\ pool'.running = pool.running \ {n}
      /\ pool'.settled = Append(pool.settled, <<n, value>>)
  BY <1>1, PoolIs DEF Pools
<1>3. Cardinality(pool.running \ {n}) = Cardinality(pool.running) - 1
  BY PoolIs, FS_RemoveElement
<1>4. n \in Everyone
  BY DEF PoolSound, Pools
<1>5. <<n, value>> \in Everyone \X Values
  BY <1>4
<1>6. Len(Append(pool.settled, <<n, value>>)) = Len(pool.settled) + 1
  BY <1>5, PoolIs
<1>7. Len(pool'.settled) + Cardinality(pool'.running) = pool'.next - 1
  <2>1. Len(pool'.settled) = Len(pool.settled) + 1 /\ Cardinality(pool'.running) = Cardinality(pool.running) - 1
    BY <1>2, <1>3, <1>6, Zenon
  <2>2. Len(pool.settled) \in Nat /\ Cardinality(pool.running) \in Nat /\ pool.next \in Nat
    BY PoolIs
  <2>3. Len(pool.settled) + Cardinality(pool.running) = pool.next - 1 /\ pool'.next = pool.next
    BY <1>2, Zenon DEF JobBounds
  <2> QED BY <2>1, <2>2, <2>3
<1> QED BY <1>2, <1>7 DEF JobBounds

LEMMA EmptyPoolCounted ==
  ASSUME NEW items, NEW limit, pool' = Pool(items, limit)
  PROVE  pool'.items = items /\ Len(pool'.settled) + Cardinality(pool'.running) = pool'.next - 1
<1>1. pool' = [items |-> items, next |-> 1, running |-> {}, settled |-> <<>>, limit |-> limit]
  BY DEF Pool, NoPool
<1>2. Cardinality({}) = 0 /\ Len(<<>>) = 0
  BY FS_EmptySet
<1> QED BY <1>1, <1>2

LEMMA JobBoundsStep == JobInv /\ JobBounds /\ [JobNext]_jobVars => JobBounds'
<1> SUFFICES ASSUME JobInv, JobBounds, [JobNext]_jobVars PROVE JobBounds'
  OBVIOUS
<1>0. job \in Jobs /\ job.count \in Nat /\ PoolSound /\ MaxJobs \in Nat
  BY GroupAssumption DEF JobInv, JobTyped, Jobs
<1>1. ASSUME NEW opn, NEW pass, NEW entries, NEW fresh, NEW items, StartJob(opn, pass, entries, fresh, items),
             pass = "over" => items = <<>>
      PROVE  JobBounds'
  <2>1. job'.count = job.count + 1 /\ job.count < MaxJobs /\ job'.pass = pass
    BY <1>1 DEF StartJob
  <2>2. pool' = Pool(items, PoolLimit)
    BY <1>1 DEF StartJob
  <2> QED BY <1>0, <1>1, <2>1, <2>2, EmptyPoolCounted DEF JobBounds
<1>2. GetSchedules \/ DeleteAllSchedules \/ (\E fresh \in BOOLEAN : GetNodes(fresh)) => JobBounds'
  BY <1>1 DEF GetSchedules, DeleteAllSchedules, GetNodes
<1>3. ASSUME NEW entries \in Batches, NEW valid \in BOOLEAN, CreateSchedule(entries, valid) PROVE JobBounds'
  BY <1>1, <1>3 DEF CreateSchedule
<1>4. CASE PoolStarts
  BY <1>0, <1>4, StartCounted
<1>5. ASSUME NEW n \in InGroup, NEW ok \in BOOLEAN, NodeIsHad(n, ok) PROVE JobBounds'
  <2> DEFINE value == IF ok THEN "node" ELSE "null"
  <2>1. n \in pool.running /\ PoolSettled(n, value) /\ job' = job /\ value \in Values
    BY <1>5 DEF NodeIsHad, Values
  <2> HIDE DEF value
  <2> QED BY <1>0, <2>1, SettledCounted
<1>6. ASSUME NEW n \in InGroup, NEW ok \in BOOLEAN, NodeIsRead(n, ok) PROVE JobBounds'
  <2> DEFINE value == IF ok THEN schedules[n] ELSE "none"
  <2>1. n \in pool.running /\ PoolSettled(n, value) /\ job' = job
    BY <1>6 DEF NodeIsRead
  <2>2. value \in Values
    <3>1. schedules[n] \in Schedules
      BY DEF JobInv, JobTyped
    <3> QED BY <3>1 DEF Values, Schedules
  <2> HIDE DEF value
  <2> QED BY <1>0, <2>1, <2>2, SettledCounted
<1>7. ASSUME NEW n \in InGroup, NEW applied \in BOOLEAN, NEW answered \in BOOLEAN, NodeIsWritten(n, applied, answered)
      PROVE  JobBounds'
  <2> DEFINE value == IF answered THEN "ok" ELSE "error"
  <2>1. n \in pool.running /\ PoolSettled(n, value) /\ value \in Values
        /\ job' = IF answered THEN job ELSE [job EXCEPT !.failures = @ \cup {n}]
    BY <1>7 DEF NodeIsWritten, Values
  <2>2. job'.count = job.count /\ job'.pass = job.pass
    BY <1>0, <2>1 DEF Jobs
  <2> HIDE DEF value
  <2> QED BY <1>0, <2>1, <2>2, SettledCounted
\* A pass is over: the job is too, or goes on with another.
<1>8. ASSUME job'.count = job.count, NEW items, NEW limit, pool' = Pool(items, limit), job'.pass = "over" => items = <<>>
      PROVE  JobBounds'
  BY <1>8, EmptyPoolCounted DEF JobBounds
<1>10. ASSUME NEW result, NEW answer, job' = JobOver(result, answer), pool' = NoPool PROVE JobBounds'
  <2>1. job'.count = job.count
    BY <1>0, <1>10 DEF JobOver, Jobs
  <2>2. pool'.items = <<>> /\ Len(pool'.settled) + Cardinality(pool'.running) = pool'.next - 1
    <3>1. Cardinality({}) = 0 /\ Len(<<>>) = 0
      BY FS_EmptySet
    <3> QED BY <1>10, <3>1 DEF NoPool
  <2> QED BY <2>1, <2>2 DEF JobBounds
<1>11. ASSUME NodesDone PROVE JobBounds'
  <2>1. job.op \in {"getNodes", "createSchedule", "deleteAllSchedules"}
    BY <1>11 DEF NodesDone, JobInv, PassFits, WriteOps
  <2> DEFINE named == {job.entries[i] : i \in DOMAIN job.entries} \subseteq Had
  <2>2. \/ \E result, answer : job' = JobOver(result, answer) /\ pool' = NoPool
        \/ job' = [job EXCEPT !.pass = "write", !.nodes = Nodes] /\ \E items, limit : pool' = Pool(items, limit)
    <3>1. CASE job.op = "getNodes"
      BY <1>11, <3>1 DEF NodesDone
    <3>2. CASE job.op = "createSchedule" /\ ~named
      BY <1>11, <3>2 DEF NodesDone
    <3>3. CASE job.op = "createSchedule" /\ named
      BY <1>11, <3>3 DEF NodesDone
    <3>4. CASE job.op = "deleteAllSchedules"
      BY <1>11, <3>4 DEF NodesDone
    <3> QED BY <2>1, <3>1, <3>2, <3>3, <3>4
  <2> HIDE DEF named
  <2>3. ASSUME job' = [job EXCEPT !.pass = "write", !.nodes = Nodes] PROVE job'.count = job.count /\ job'.pass = "write"
    BY <1>0, <2>3 DEF Jobs
  <2> QED BY <1>8, <1>10, <2>2, <2>3
<1>12. WritesDone \/ ReadsDone => JobBounds'
  BY <1>10 DEF WritesDone, ReadsDone
<1>13. CASE UNCHANGED jobVars
  BY <1>13 DEF jobVars, JobBounds
<1> QED
  BY <1>2, <1>3, <1>4, <1>5, <1>6, <1>7, <1>11, <1>12, <1>13 DEF JobNext, JobProgress

LEMMA JobTypes == JobSpec => []JobTypeOK
<1>1. JobInit => JobBounds
  <2> SUFFICES ASSUME JobInit PROVE JobBounds
    OBVIOUS
  <2>1. Cardinality({}) = 0 /\ Len(<<>>) = 0 /\ MaxJobs \in Nat
    BY FS_EmptySet, GroupAssumption
  <2>2. pool.items = <<>> /\ pool.settled = <<>> /\ pool.running = {} /\ pool.next = 1 /\ job.count = 0
    BY DEF JobInit, NoPool
  <2> QED BY <2>1, <2>2 DEF JobBounds
<1>2. JobInv /\ JobBounds => JobTypeOK
  <2> SUFFICES ASSUME JobInv, JobBounds PROVE JobTypeOK
    OBVIOUS
  <2>1. PoolSound /\ MaxJobs \in Nat
    BY GroupAssumption DEF JobInv
  <2>2. /\ job.op \in JobOps \cup {"none"} /\ job.pass \in {"nodes", "read", "write", "over"}
        /\ job.failures \subseteq InGroup /\ job.count \in 0..MaxJobs
        /\ schedules \in [InGroup -> {"none", "old", "new"}] /\ stored \subseteq InGroup
    BY <2>1 DEF JobInv, JobTyped, Jobs, Schedules, JobBounds
  <2>3. \A i \in DOMAIN pool.items : pool.items[i] \in InGroup
    BY DEF JobInv, PassFits, JobBounds
  <2>4. pool.running \subseteq InGroup
    <3> SUFFICES ASSUME NEW n \in pool.running PROVE n \in InGroup
      OBVIOUS
    <3>1. PICK i \in 1..(pool.next - 1) : pool.items[i] = n
      BY <2>1 DEF PoolSound
    <3>2. i \in DOMAIN pool.items
      BY <2>1, PoolIs DEF PoolSound, Pools
    <3> QED BY <2>3, <3>1, <3>2
  <2>5. Len(pool.settled) <= Len(pool.items)
    <3>1. pool.next \in 1..(Len(pool.items) + 1)
      BY <2>1 DEF PoolSound
    <3> QED BY <2>1, <3>1, PoolIs DEF JobBounds
  <2> QED BY <2>2, <2>4, <2>5 DEF JobTypeOK
<1> QED
  BY <1>1, <1>2, JobBoundsStep, JobStartsSound, JobStep, PTL DEF JobSpec

-----------------------------------------------------------------------------
(* All of them together (MCDevice) *)

\* Following one flow and letting the others rest, the system is a behaviour of every
\* flow's own specification, so what holds of one by itself holds here.
LEMMA FlowsAreSeparate ==
  DeviceSpec => WaitSpec /\ ClaimSpec /\ ProvSpec /\ LocalSpec /\ JobSpec /\ Spec
<1>1. DeviceInit => WaitInit /\ ClaimInit /\ ProvInit /\ LocalInit /\ JobInit /\ Init
  BY DEF DeviceInit
<1> USE DEF deviceVars, WaitRests, ClaimRests, ProvRests, LocalRests, JobRests, QueueRests
<1>2. [DeviceNext]_deviceVars => [WaitNext]_waitVars
  BY DEF DeviceNext, waitVars
<1>3. [DeviceNext]_deviceVars => [ClaimNext]_claimVars
  BY DEF DeviceNext, claimVars
<1>4. [DeviceNext]_deviceVars => [ProvNext]_provVars
  BY DEF DeviceNext, provVars
<1>5. [DeviceNext]_deviceVars => [LocalNext]_localVars
  BY DEF DeviceNext, localVars
<1>6. [DeviceNext]_deviceVars => [JobNext]_jobVars
  BY DEF DeviceNext, jobVars
<1>7. [DeviceNext]_deviceVars => [Next]_vars
  BY DEF DeviceNext, vars
<1> QED
  BY <1>1, <1>2, <1>3, <1>4, <1>5, <1>6, <1>7, PTL
  DEF DeviceSpec, WaitSpec, ClaimSpec, ProvSpec, LocalSpec, JobSpec, Spec

\* Every flow keeps its variables in their types and its counters in their bounds: a
\* pull stays in its retries, a claim in its budget of chunks, a pool in its items.
THEOREM DeviceTypes == DeviceSpec => []DeviceTypeOK
<1>1. WaitTypeOK /\ ClaimTypeOK /\ ProvTypeOK /\ LocalTypeOK /\ JobTypeOK /\ TypeOK => DeviceTypeOK
  BY DEF DeviceTypeOK
<1> QED
  BY <1>1, FlowsAreSeparate, WaitTypes, ClaimTypes, ProvTypes, LocalTypes, JobTypes, TypeCorrect, PTL

\* The promises of the single flows, kept by the system of them all.
THEOREM FlowsKeepTheirPromises ==
  DeviceSpec =>
    /\ [](WaitLeavesNothing /\ ProvisionedIsAssociated /\ ClaimedAsIssued /\ LocalAnswersAreTrue /\ GroupJobsAreHonest)
    /\ AppKeepsItsListener /\ RefinesFifo
<1> QED
  BY FlowsAreSeparate, WaitIsTidy, ProvisionedMeansSo, ClaimedIsAsIssued, LocalAnswersAreHonest, JobsAreHonest,
     AppIsLeftAlone, Refinement, PTL
================================================================================
