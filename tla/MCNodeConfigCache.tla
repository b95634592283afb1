-------------------------- MODULE MCNodeConfigCache --------------------------
(* The configuration cache for model checking: constants, symmetry, and the    *)
(* history that tells which updates and removals met.                          *)
EXTENDS NodeConfigCache, TLC

CONSTANTS n1, n2, h1, h2

MCNodes == {n1, n2}
MCHandlers == {h1, h2}

Symmetry == Permutations(Nodes) \cup Permutations(Handlers)

VARIABLE met   \* whom work under way has met: nobody, work of other nodes, of the same

MCInit == Init /\ met = "nobody"

Work(n) == {<<h>> : h \in {h \in Handlers : handler[h].node = n}} \cup (IF removing.node = n THEN {<<>>} ELSE {})
Met == IF \E n \in Nodes : \E w, x \in Work(n) : w # x THEN "same"
       ELSE IF \E m, n \in Nodes : m # n /\ Work(m) # {} /\ Work(n) # {} THEN "other" ELSE "nobody"

MCNext == Next /\ met' = IF "same" \in {met, Met'} THEN "same" ELSE IF met = "other" THEN met ELSE Met'

MCSpec == MCInit /\ [][MCNext]_<<vars, met>>

\* As long as updates and removals follow one another, a marker never runs ahead
\* of the configuration it stands for (see MarkerVouches).
UnmetMarkerVouches == met = "nobody" => MarkerVouches

\* The same, once nothing is under way, when only updates and removals of
\* different nodes have met: a node's schema change is fetched, whatever the other
\* nodes report meanwhile (the header of nodeNcfgVersionHandler).
OthersDoNotMatter == met # "same" => ChangeIsFetched
=============================================================================
