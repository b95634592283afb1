----------------------------- MODULE LocalControl -----------------------------
(* Reading and writing a node over the best transport: delegatedTransportHandler  *)
(* tries the node's transports in order; the local one sets up a session with the  *)
(* device (LocalControlSession) and speaks rmaker_local_ctrl, in which documents    *)
(* are pulled fragment by fragment (ESPLocalControlTransport).                       *)
(*                                                                                   *)
(* One node. The device is external: it keeps ONE transfer cache, filled by a        *)
(* request at offset 0 and freed with the last fragment. The per-node queue of       *)
(* reads is what SerialQueue implements, first come first served. MQTT and custom    *)
(* transports settle as they like (their insides: ShadowRequest, NodeWrites).        *)
EXTENDS Naturals, Sequences, FiniteSets

CONSTANTS
  LinkOps,           \* calls of setParams, getParams and getConfig
  FragmentSize,  \* most a device sends at once
  MaxRetries,    \* maxRetries of ensureLocalControlSession
  MaxChanges     \* bound: versions of the parameters

\* A session is tried at least once (DEFAULT_CONNECT_RETRIES).
ASSUME LocalAssumption == MaxRetries \in Nat \ {0} /\ {FragmentSize, MaxChanges} \subseteq Nat

VARIABLES
  op,     \* the calls: what is asked, transports left, step, local variables, and
          \* the parity of the exchanges (an exchange that achieves nothing is a step)
  reads,  \* nodeReadQueues: the reads of the node, first the one that pulls
  peer    \* adapter and device: session, security, transfer cache, parameters

localVars == <<op, reads, peer>>

Reading == {"params", "config"}
OpOver == {"done", "failed"}

\* A document as its bytes; the parameters differ in length from version to version,
\* and there are none before the first.
Document(what, version) ==
  [i \in 1..(IF what = "config" THEN 2 ELSE IF version = 0 THEN 0 ELSE 1 + version) |-> <<what, version, i>>]
NoCache == <<"free">>

LocalInit ==
  /\ op = [o \in LinkOps |-> [what |-> "none", left |-> <<>>, step |-> "idle", via |-> "none", tries |-> 0,
                          got |-> <<>>, odd |-> FALSE, since |-> 0]]
  /\ reads = <<>>
  /\ peer \in [connected : {FALSE}, security : 0..2, known : BOOLEAN, cache : {NoCache}, version : {0},
               written : {{}}]

(* --- Which transport ---------------------------------------------------------- *)

\* readLocalControlCreds and buildLocalControlConfig: what the node's service says,
\* none when the node has no such service; a proof for 1 and 2, a user name for 2.
Creds == IF peer.known THEN peer.security ELSE 0
Metadata == [securityType |-> Creds, pop |-> Creds \in {1, 2}, username |-> Creds = 2]
Accepts(metadata) ==
  metadata = [securityType |-> peer.security, pop |-> peer.security \in {1, 2}, username |-> peer.security = 2]

\* The loop's next turn: the next transport of the order that is there, or the end.
Turn(c) ==
  IF c.left = <<>> THEN [c EXCEPT !.step = "failed", !.via = "none", !.got = <<>>, !.odd = FALSE]
  ELSE [c EXCEPT !.step = IF Head(c.left) = "local" THEN "checking" ELSE "elsewhere",
                 !.via = Head(c.left), !.left = Tail(@), !.tries = 0, !.got = <<>>, !.odd = FALSE]

\* A mode without a configuration, or local without a baseUrl, is passed over;
\* getConfig asks the local transport alone.
Orders == {<<"local", "mqtt">>, <<"mqtt", "local">>, <<"local">>, <<"mqtt">>, <<>>}
Call(o, what, order) ==
  /\ op[o].step = "idle" /\ (what = "config" => order = <<"local">>)
  /\ op' = [op EXCEPT ![o] = Turn([@ EXCEPT !.what = what, !.left = order, !.since = peer.version])]
  /\ UNCHANGED <<reads, peer>>

Elsewhere(o, ok) ==
  /\ op[o].step = "elsewhere"
  /\ op' = [op EXCEPT ![o] = IF ok THEN [@ EXCEPT !.step = "done"] ELSE Turn(@)]
  /\ UNCHANGED <<reads, peer>>

(* --- The session --------------------------------------------------------------- *)

Ready(c) == [c EXCEPT !.step = IF c.what = "write" THEN "writing" ELSE "queued"]

\* Past ensureConnected: a write goes out, a read queues up (enqueueNodeRead).
Proceed(o) ==
  /\ op' = [op EXCEPT ![o] = Ready(@)]
  /\ reads' = IF op[o].what = "write" THEN reads ELSE Append(reads, o)

CheckSession(o) ==
  /\ op[o].step = "checking"
  /\ IF peer.connected THEN Proceed(o)
     ELSE op' = [op EXCEPT ![o].step = "connecting"] /\ UNCHANGED reads
  /\ UNCHANGED peer

\* One connect; after maxRetries failures the transport has failed.
ConnectSession(o, ok) ==
  /\ op[o].step = "connecting" /\ (ok => Accepts(Metadata))
  /\ peer' = [peer EXCEPT !.connected = @ \/ ok]
  /\ IF ok THEN Proceed(o)
     ELSE /\ op' = IF op[o].tries + 1 = MaxRetries THEN [op EXCEPT ![o] = Turn(@)] ELSE [op EXCEPT ![o].tries = @ + 1]
          /\ UNCHANGED reads

(* --- Reads and writes ------------------------------------------------------------ *)

\* Mutation: a read pulls whatever other read is under way.
ReadTurnAtOnce(o) ==
  /\ op[o].step = "queued"
  /\ op' = [op EXCEPT ![o].step = "pulling"]
  /\ UNCHANGED <<reads, peer>>

ReadTurn(o) ==
  /\ op[o].step = "queued" /\ reads # <<>> /\ Head(reads) = o
  /\ op' = [op EXCEPT ![o].step = "pulling"]
  /\ UNCHANGED <<reads, peer>>

\* The read at the head is over, well or not, and the queue moves on.
ReadEnds(o, c) ==
  /\ op' = [op EXCEPT ![o] = c]
  /\ reads' = Tail(reads)

\* Mutation: without the check for empty fragments.
NoProgressUnchecked(n) == FALSE

\* The check for forward progress.
NoProgress(n) == n = 0

\* pullJsonDocument, one round: the device answers up to n bytes at the offset asked
\* for. Nothing to read is an empty document, no progress and an overrun are errors;
\* bytes of different documents may or may not parse.
PullFragment(o, n, parses) ==
  LET c == op[o]
      offset == Len(c.got)
      cache == IF offset = 0 THEN Document(c.what, peer.version) ELSE peer.cache
      total == Len(cache)
      got == c.got \o SubSeq(cache, offset + 1, offset + n)
      whole == \A i, j \in DOMAIN got : got[i][1] = got[j][1] /\ got[i][2] = got[j][2]
  IN /\ c.step = "pulling" /\ peer.connected
     /\ cache # NoCache /\ offset + n <= total /\ (whole => parses)
     /\ peer' = [peer EXCEPT !.cache = IF offset + n >= total THEN NoCache ELSE cache]
     /\ \/ total = 0 /\ ReadEnds(o, [c EXCEPT !.step = "done", !.odd = FALSE])
        \/ total > 0 /\ NoProgress(n) /\ ReadEnds(o, Turn(c))
        \/ /\ total > 0 /\ ~NoProgress(n) /\ Len(got) < total
           /\ op' = [op EXCEPT ![o].got = got, ![o].odd = ~@] /\ UNCHANGED reads
        \/ /\ total > 0 /\ ~NoProgress(n) /\ Len(got) >= total
           /\ ReadEnds(o, IF parses THEN [c EXCEPT !.step = "done", !.got = got, !.odd = FALSE] ELSE Turn(c))

\* The device refuses, answers another offset, or the link breaks.
PullFails(o) ==
  /\ op[o].step = "pulling"
  /\ ReadEnds(o, Turn(op[o])) /\ UNCHANGED peer

\* set_params: applied and acknowledged, applied and the answer lost, or refused
\* (assertSetParamsAccepted).
Write(o, applied, acknowledged) ==
  /\ op[o].step = "writing" /\ (applied => peer.connected) /\ (acknowledged => applied)
  /\ peer' = IF applied THEN [peer EXCEPT !.written = @ \cup {o}] ELSE peer
  /\ op' = [op EXCEPT ![o] = IF acknowledged THEN [@ EXCEPT !.step = "done"] ELSE Turn(@)]
  /\ UNCHANGED reads

(* --- The device --------------------------------------------------------------------- *)

DeviceChanges == /\ peer.version < MaxChanges /\ peer' = [peer EXCEPT !.version = @ + 1]
                 /\ UNCHANGED <<op, reads>>
LinkDrops == /\ peer.connected /\ peer' = [peer EXCEPT !.connected = FALSE]
             /\ UNCHANGED <<op, reads>>

OpStep(o) ==
  \/ CheckSession(o) \/ ReadTurn(o) \/ PullFails(o)
  \/ \E ok \in BOOLEAN : Elsewhere(o, ok) \/ ConnectSession(o, ok)
  \/ \E n \in 0..FragmentSize, parses \in BOOLEAN : PullFragment(o, n, parses)
  \/ \E applied, acknowledged \in BOOLEAN : Write(o, applied, acknowledged)

LocalNext ==
  \/ \E o \in LinkOps, what \in Reading \cup {"write"}, order \in Orders : Call(o, what, order)
  \/ \E o \in LinkOps : OpStep(o)
  \/ DeviceChanges \/ LinkDrops

LocalSpec == LocalInit /\ [][LocalNext]_localVars

(* --- Properties ------------------------------------------------------------------- *)

LocalTypeOK ==
  /\ \A o \in LinkOps :
       /\ op[o].what \in Reading \cup {"write", "none"} /\ op[o].left \in Orders
       /\ op[o].step \in OpOver \cup {"idle", "elsewhere", "checking", "connecting", "queued", "pulling", "writing"}
       /\ op[o].via \in {"none", "local", "mqtt"} /\ op[o].tries \in 0..(MaxRetries - 1)
       /\ op[o].since \in 0..MaxChanges
  /\ \A o \in LinkOps : Cardinality({i \in DOMAIN reads : reads[i] = o}) <= 1
  /\ peer.version \in 0..MaxChanges /\ peer.written \subseteq LinkOps

\* A read over local control that resolves returns one whole document, of the kind
\* asked for, as the device had it at some time during the call; a write over it
\* that resolves has been applied. ("a getParams() racing a getConfig() on the same
\* node would clobber the other": enqueueNodeRead, pullJsonDocument.)
LocalAnswersAreTrue ==
  \A o \in LinkOps : op[o].step = "done" /\ op[o].via = "local" =>
    IF op[o].what = "write" THEN o \in peer.written
    ELSE \E v \in op[o].since..peer.version : op[o].got = Document(op[o].what, v)

\* An operation settles once, and one that is over has no place among the reads: what
\* fails to send, to pull or to parse never leaves the node's queue blocked.
OpsSettling == INSTANCE OneShot WITH
  Calls <- LinkOps, Outcomes <- OpOver, Things <- {"place"},
  state <- [o \in LinkOps |-> IF op[o].step \in OpOver \cup {"idle"} THEN op[o].step ELSE "underway"],
  held <- [o \in LinkOps |-> IF \E i \in DOMAIN reads : reads[i] = o THEN {"place"} ELSE {}]
OpsSettleOnce == OpsSettling!Spec

\* Whether c is nearer to its end than d: over, on a later transport, further on the
\* same, or with one more attempt or byte spent of those there are.
Stages == <<"elsewhere", "checking", "connecting", "queued", "writing", "pulling">>
Nearer(c, d, total) ==
  \/ c.step \in OpOver
  \/ Len(c.left) < Len(d.left)
  \/ c.left = d.left /\ \E i, j \in 1..6 : i < j /\ d.step = Stages[i] /\ c.step = Stages[j]
  \/ c.left = d.left /\ {c.step, d.step} = {"connecting"} /\ d.tries < c.tries /\ c.tries < MaxRetries
  \/ c.left = d.left /\ {c.step, d.step} = {"pulling"} /\ Len(d.got) < Len(c.got) /\ Len(c.got) < total

\* No operation goes round in circles: every step of one that is under way brings it
\* nearer to its end, and what is over stays as it is ("Without forward progress the
\* pull loop would never terminate"; maxRetries; the order of the transports).
OpsGoForward ==
  [][\A o \in LinkOps : op[o].step # "idle" /\ op'[o] # op[o] =>
       op[o].step \notin OpOver /\ Nearer(op'[o], op[o], Len(peer'.cache))]_localVars

\* Under way; EveryFlowEnds of MCDevice says that it ends, also with a device that sends empty fragments ("Without
\* forward progress the pull loop would never terminate").
OpsUnderWay == \E o \in LinkOps : op[o].step \notin {"idle"} \cup OpOver
=============================================================================
