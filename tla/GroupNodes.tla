------------------------------- MODULE GroupNodes -------------------------------
(* What a group does for all of its nodes: getNodes, getSchedules, createSchedule  *)
(* and deleteAllSchedules. Each is a pass, or two, over the nodes: through          *)
(* concurrentFetchPool, which keeps at most a limit of them under way, or all at     *)
(* once. Every node may fail by itself.                                               *)
(*                                                                                    *)
(* A node's schedules are one value, none, old or new; NodeLists has their insides.   *)
EXTENDS Naturals, Sequences, FiniteSets

CONSTANTS
  GroupOrder,   \* the group's nodeIds, a sequence
  Strangers,    \* nodes outside the group a batch may name
  PoolLimit,    \* CREATE_SCHEDULE_CONCURRENCY and the like
  MaxJobs       \* bound: calls made

VARIABLES
  job,        \* the call under way: its passes and local variables
  schedules,  \* the cloud: the nodes' schedules
  stored,     \* the nodes whose configuration is in local storage
  pool        \* the pass under way: items, position, under way, settled in order

jobVars == <<job, schedules, stored, pool>>

InGroup == {GroupOrder[i] : i \in DOMAIN GroupOrder}

\* A group has every node once.
ASSUME GroupAssumption ==
  /\ GroupOrder \in Seq(InGroup) /\ {PoolLimit, MaxJobs} \subseteq Nat
  /\ \A i, j \in DOMAIN GroupOrder : GroupOrder[i] = GroupOrder[j] => i = j

NoPool == [items |-> <<>>, next |-> 1, running |-> {}, settled |-> <<>>, limit |-> PoolLimit]
JobOps == {"getNodes", "getSchedules", "createSchedule", "deleteAllSchedules"}

JobInit ==
  /\ job = [op |-> "none", pass |-> "over", entries |-> <<>>, nodes |-> <<>>, failures |-> {}, fresh |-> FALSE,
            result |-> "none", answer |-> <<>>, before |-> [n \in InGroup |-> "old"], count |-> 0]
  /\ schedules = [n \in InGroup |-> "old"]
  /\ stored \in SUBSET InGroup
  /\ pool = NoPool

(* --- concurrentFetchPool ----------------------------------------------------------- *)

Pool(items, limit) == [NoPool EXCEPT !.items = items, !.limit = limit]

\* Mutation: the slot is counted after the race.
RoomTight(p) == Cardinality(p.running) <= p.limit

\* The race over the executing slots: the next item starts once one is free.
Room(p) == Cardinality(p.running) < p.limit

PoolStarts ==
  /\ pool.next <= Len(pool.items) /\ Room(pool)
  /\ pool' = [pool EXCEPT !.running = @ \cup {pool.items[pool.next]}, !.next = @ + 1]
  /\ UNCHANGED <<job, schedules, stored>>

\* A slot is freed by success and failure alike.
PoolSettled(n, value) == pool' = [pool EXCEPT !.running = @ \ {n}, !.settled = Append(@, <<n, value>>)]
PoolIsOver == pool.next > Len(pool.items) /\ pool.running = {}

\* Promise.all: the values by the order of the items, whenever they came.
Results == [i \in DOMAIN pool.items |-> pool.settled[CHOOSE k \in DOMAIN pool.settled : pool.settled[k][1] = pool.items[i]]]

(* --- The calls ---------------------------------------------------------------------- *)

StartJob(op, pass, entries, fresh, items) ==
  /\ job.pass = "over" /\ job.count < MaxJobs
  /\ job' = [op |-> op, pass |-> pass, entries |-> entries, nodes |-> <<>>, failures |-> {}, fresh |-> fresh,
             result |-> IF pass = "over" THEN "rejected" ELSE "none", answer |-> <<>>,
             before |-> schedules, count |-> job.count + 1]
  /\ pool' = Pool(items, PoolLimit)
  /\ UNCHANGED <<schedules, stored>>

GetNodes(fresh) == StartJob("getNodes", "nodes", <<>>, fresh, GroupOrder)
GetSchedules == StartJob("getSchedules", "read", <<>>, FALSE, GroupOrder)
DeleteAllSchedules == StartJob("deleteAllSchedules", "nodes", <<>>, TRUE, GroupOrder)

\* A batch that is no batch is refused before anything else (ScheduleValidator).
CreateSchedule(entries, valid) ==
  IF valid THEN StartJob("createSchedule", "nodes", entries, FALSE, GroupOrder)
  ELSE StartJob("createSchedule", "over", entries, FALSE, <<>>)

\* getNode: from storage if it may, else from the cloud, and then stored; a node that
\* cannot be had is left out (catch(() => null)).
NodeIsHad(n, ok) ==
  /\ job.pass = "nodes" /\ n \in pool.running
  /\ LET cached == ~job.fresh /\ n \in stored IN
       /\ cached => ok
       /\ stored' = IF ok THEN stored \cup {n} ELSE stored
       /\ PoolSettled(n, IF ok THEN "node" ELSE "null")
  /\ UNCHANGED <<job, schedules>>

\* A GET for getSchedules: a node that fails counts as one without schedules.
NodeIsRead(n, ok) ==
  /\ job.pass = "read" /\ n \in pool.running
  /\ PoolSettled(n, IF ok THEN schedules[n] ELSE "none")
  /\ UNCHANGED <<job, schedules, stored>>

\* A PUT of the batch, a DELETE of deleteAllSchedules: refused, done, or done and the
\* answer lost. A failure is noted, the others go on.
NodeIsWritten(n, applied, answered) ==
  /\ job.pass = "write" /\ n \in pool.running /\ (answered => applied)
  /\ schedules' = IF applied THEN [schedules EXCEPT ![n] = IF job.op = "createSchedule" THEN "new" ELSE "none"]
                  ELSE schedules
  /\ PoolSettled(n, IF answered THEN "ok" ELSE "error")
  /\ job' = IF answered THEN job ELSE [job EXCEPT !.failures = @ \cup {n}]
  /\ UNCHANGED stored

JobOver(result, answer) == [job EXCEPT !.pass = "over", !.result = result, !.answer = answer]

\* The nodes that were had, in the order of their results (filter).
ListsOfNodes == UNION {[1..k -> InGroup] : k \in 0..Len(GroupOrder)}
InOrderOf(ids, results) ==
  \A i, j \in DOMAIN ids : i < j =>
    \E p, q \in DOMAIN results : p < q /\ results[p][1] = ids[i] /\ results[q][1] = ids[j]
Had == {Results[i][1] : i \in {k \in DOMAIN Results : Results[k][2] = "node"}}
Nodes == CHOOSE ids \in ListsOfNodes : {ids[i] : i \in DOMAIN ids} = Had /\ InOrderOf(ids, Results)

\* The end of getNodes: for a batch, a node it names and the group has not stops it
\* before anything is written; deleting goes for all the nodes there are, at once.
NodesDone ==
  /\ job.pass = "nodes" /\ PoolIsOver
  /\ LET named == {job.entries[i] : i \in DOMAIN job.entries}
     IN CASE job.op = "getNodes" -> job' = JobOver("resolved", Nodes) /\ pool' = NoPool
          [] job.op = "createSchedule" /\ ~(named \subseteq Had) -> job' = JobOver("rejected", <<>>) /\ pool' = NoPool
          [] job.op = "createSchedule" /\ named \subseteq Had ->
               job' = [job EXCEPT !.pass = "write", !.nodes = Nodes] /\ pool' = Pool(job.entries, PoolLimit)
          [] job.op = "deleteAllSchedules" ->
               job' = [job EXCEPT !.pass = "write", !.nodes = Nodes] /\ pool' = Pool(Nodes, Len(GroupOrder) + 1)
  /\ UNCHANGED <<schedules, stored>>

\* The end of the second pass: any failure makes an error that names them.
WritesDone ==
  /\ job.pass = "write" /\ PoolIsOver
  /\ job' = JobOver(IF job.failures = {} THEN "resolved" ELSE "rejected", Results)
  /\ pool' = NoPool
  /\ UNCHANGED <<schedules, stored>>

ReadsDone ==
  /\ job.pass = "read" /\ PoolIsOver
  /\ job' = JobOver("resolved", Results) /\ pool' = NoPool
  /\ UNCHANGED <<schedules, stored>>

Batches == {<<n>> : n \in InGroup \cup Strangers} \cup {<<GroupOrder[i + 1], GroupOrder[i]>> : i \in 1..(Len(GroupOrder) - 1)} \cup {GroupOrder}

JobProgress ==
  \/ PoolStarts \/ NodesDone \/ WritesDone \/ ReadsDone
  \/ \E n \in InGroup, ok \in BOOLEAN : NodeIsHad(n, ok) \/ NodeIsRead(n, ok)
  \/ \E n \in InGroup, applied, answered \in BOOLEAN : NodeIsWritten(n, applied, answered)

JobNext ==
  \/ GetSchedules \/ DeleteAllSchedules \/ JobProgress
  \/ \E fresh \in BOOLEAN : GetNodes(fresh)
  \/ \E entries \in Batches, valid \in BOOLEAN : CreateSchedule(entries, valid)

JobSpec == JobInit /\ [][JobNext]_jobVars

(* --- Properties ------------------------------------------------------------------------ *)

JobTypeOK ==
  /\ job.op \in JobOps \cup {"none"} /\ job.pass \in {"nodes", "read", "write", "over"}
  /\ job.failures \subseteq InGroup /\ job.count \in 0..MaxJobs
  /\ schedules \in [InGroup -> {"none", "old", "new"}] /\ stored \subseteq InGroup
  /\ pool.running \subseteq InGroup /\ Len(pool.settled) <= Len(pool.items)

Changed == {n \in InGroup : schedules[n] # job.before[n]}
Targeted == IF job.op = "createSchedule" THEN {job.entries[i] : i \in DOMAIN job.entries}
            ELSE {job.nodes[i] : i \in DOMAIN job.nodes}

\* However the nodes' requests interleave and fail: no more than the limit are under
\* way ("keeping at most poolLimit in flight"); results come in the order of the
\* nodes ("Results match the order of items"); a batch with a bad entry has written
\* nothing ("Input validation should stop the batch before any writes happen"); one
\* that resolved has written every node it names and no other, and one that was
\* rejected has done the same for all but the nodes its error names. Deleting
\* resolves without the nodes whose configuration could not be had.
GroupJobsAreHonest ==
  /\ Cardinality(pool.running) <= pool.limit
  /\ job.pass = "over" /\ job.op \in {"createSchedule", "deleteAllSchedules"} =>
       /\ Changed \subseteq Targeted
       /\ job.answer = <<>> => Changed = {}
       /\ job.answer # <<>> => \A n \in Targeted \ job.failures :
                                 schedules[n] = IF job.op = "createSchedule" THEN "new" ELSE "none"
       /\ job.result = "resolved" => job.failures = {}
  /\ job.op \in {"getNodes", "getSchedules"} =>
       \A i, j \in DOMAIN job.answer : i < j =>
         LET at(k) == CHOOSE p \in DOMAIN GroupOrder :
                        GroupOrder[p] = IF job.op = "getNodes" THEN job.answer[k] ELSE job.answer[k][1]
         IN at(i) < at(j)

\* Under way, and to end (EveryFlowEnds of MCDevice).
JobUnderWay == job.pass # "over"
=============================================================================
