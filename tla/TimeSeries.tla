------------------------------- MODULE TimeSeries -------------------------------
(* Time-series data of a parameter (services/ESPRMNeoHelpers/FetchTSData.ts and the   *)
(* methods on parameters and nodes): pages of raw samples or of aggregates, newest     *)
(* first, of which each but the last holds the way to the next, and the latest sample. *)
(* The app may follow a page again, or two results by turns, and the device goes on     *)
(* reporting meanwhile.                                                                  *)
(*                                                                                       *)
(* Time is the number of samples taken, and stands for the dates of aggregates too.       *)
EXTENDS Naturals, Sequences, SequencesExt

CONSTANTS
  MaxSamples,  \* bound: samples of the parameter
  MaxPages     \* bound: pages the app has got

ASSUME TsAssumption == MaxSamples \in Nat \ {0} /\ MaxPages \in Nat

VARIABLES
  newest,  \* the cloud: samples 1..newest
  pages    \* the results the app holds, in the order it got them

tsVars == <<newest, pages>>

Kinds == {"raw", "latest", "aggregates"}
NoKey == 0

\* The node's configuration: the parameter has a data type or none.
TsInit == newest \in 0..1 /\ pages = <<>>

(* --- What is asked -------------------------------------------------------------------- *)

\* tsParamIdentityFromOptions: an explicit key needs its data type.
FromOptions(o) == IF o.key = "" THEN "lookup" ELSE IF o.dataType = "" THEN "MISSING_TS_CUSTOM_KEY_DATA_TYPE" ELSE "ok"

\* tsParamIdentityFromParam: the parameter's data type unless it is overridden.
FromParam(p, o) ==
  IF FromOptions(o) # "lookup" THEN FromOptions(o)
  ELSE IF o.dataType = "" /\ p.dataType = "" THEN "MISSING_TS_DATA_TYPE" ELSE "ok"

\* resolveTSParamIdentity: by the names of a device and a parameter of the node.
ResolveIdentity(p, o) ==
  IF FromOptions(o) # "lookup" THEN FromOptions(o) ELSE IF ~p.found THEN "TS_PARAM_NOT_FOUND" ELSE FromParam(p, o)

\* What the cloud is asked for: a mismatch of data types yields nothing.
DataType(p, o) == IF o.dataType # "" THEN o.dataType ELSE p.dataType

\* buildTSQueryString: what is undefined is left out; of a page's key and the
\* options' the page's counts.
\* Mutation: the options' key counts.
StartKeyOfOptions(o, key) == IF o.startKey # NoKey THEN o.startKey ELSE key

StartKey(o, key) == IF key # NoKey THEN key ELSE o.startKey

Window(o) == IF o.window \in {"hourly", "daily", "weekly", "monthly"} THEN "ok" ELSE "INVALID_TS_WINDOW"

Refusal(kind, via, p, o) ==
  LET identity == IF via = "node" THEN ResolveIdentity(p, o) ELSE IF p.node THEN FromParam(p, o) ELSE "MISSING_NODE_REF"
  IN CASE identity # "ok" -> identity
       [] identity = "ok" /\ kind = "raw" /\ o.startTs = 0 -> "MISSING_TS_START_TIME"
       [] identity = "ok" /\ kind = "aggregates" -> Window(o)
       [] OTHER -> "ok"

(* --- The cloud -------------------------------------------------------------------------- *)

\* Aggregates may be asked for from the first on.
Start(o) == IF o.startTs = 0 THEN 1 ELSE o.startTs

\* The samples from a time on, newest first and no newer than the key, a page of
\* them, and the key of the next.
Within(p, o, key) ==
  LET from == IF key = NoKey \/ key > newest THEN newest ELSE key
  IN IF DataType(p, o) # "int" THEN <<>>
     ELSE [i \in 1..(IF from >= Start(o) THEN from - Start(o) + 1 ELSE 0) |-> from + 1 - i]
CloudPage(p, o, key) ==
  LET all == Within(p, o, key)
      n == IF Len(all) < o.pageSize THEN Len(all) ELSE o.pageSize
  IN [data |-> SubSeq(all, 1, n), nextKey |-> IF n < Len(all) THEN all[n + 1] ELSE NoKey]

(* --- The calls --------------------------------------------------------------------------- *)

\* The result: data, the next key and, if there is one, fetchNext, which has the
\* call's own options and that key. of is the page it was fetched from, all the
\* samples of the pages from the first one to this as they were followed (history).
Page(kind, p, o, key, of) ==
  LET cloud == CloudPage(p, o, StartKey(o, key))
  IN [kind |-> kind, param |-> p, options |-> o, data |-> cloud.data, nextKey |-> cloud.nextKey, of |-> of,
      all |-> IF of = 0 THEN cloud.data ELSE pages[of].all \o cloud.data]

LatestPage(p, o) ==
  LET data == IF newest > 0 /\ DataType(p, o) = "int" THEN <<newest>> ELSE <<>>
  IN [kind |-> "latest", param |-> p, options |-> o, data |-> data, nextKey |-> NoKey, of |-> 0, all |-> data]

Got(page) == Len(pages) < MaxPages /\ pages' = Append(pages, page) /\ UNCHANGED newest

\* getRawTSData, getLatestTSData and getTSData, of a parameter or by names. A call
\* that is refused, or whose request fails, gets nothing and changes nothing.
Fetch(kind, via, p, o) ==
  /\ Refusal(kind, via, p, o) = "ok"
  /\ Got(IF kind = "latest" THEN LatestPage(p, o) ELSE Page(kind, p, o, NoKey, 0))

\* fetchNext of a page the app has, which may have been called before.
FetchNext(i) ==
  /\ pages[i].nextKey # NoKey
  /\ Got(Page(pages[i].kind, pages[i].param, pages[i].options, pages[i].nextKey, i))

\* The device reports.
Reports == newest < MaxSamples /\ newest' = newest + 1 /\ UNCHANGED pages

TsParams == [node : {TRUE}, found : {TRUE}, dataType : {"int"}] \cup {[node |-> FALSE, found |-> FALSE, dataType |-> ""]}
Plain == [key |-> "", dataType |-> "", startTs |-> 1, startKey |-> NoKey, pageSize |-> 1, window |-> "hourly"]
TsOptions ==
  {Plain, [Plain EXCEPT !.pageSize = 2], [Plain EXCEPT !.startTs = 2, !.startKey = 3], [Plain EXCEPT !.dataType = "float"],
   [Plain EXCEPT !.key = "key"], [Plain EXCEPT !.startTs = 0, !.window = ""]}

TsNext ==
  \/ Reports
  \/ \E kind \in Kinds, via \in {"node", "param"}, p \in TsParams, o \in TsOptions : Fetch(kind, via, p, o)
  \/ \E i \in DOMAIN pages : FetchNext(i)

TsSpec == TsInit /\ [][TsNext]_tsVars

(* --- Properties ---------------------------------------------------------------------------- *)

TsTypeOK ==
  /\ newest \in 0..MaxSamples /\ Len(pages) <= MaxPages
  /\ \A i \in DOMAIN pages : pages[i].of < i /\ pages[i].kind \in Kinds /\ pages[i].nextKey <= MaxSamples

\* Whoever follows the pages to the end, in whatever order with others and however
\* often, has had every sample since the start once and newest first, down from the
\* newest there was at the start, though more have come since.
PagesAreWhole ==
  \A i \in DOMAIN pages :
    LET all == pages[i].all IN
      /\ \A j \in 1..(Len(all) - 1) : all[j + 1] = all[j] - 1
      /\ pages[i].kind # "latest" /\ pages[i].nextKey = NoKey /\ all # <<>> => Last(all) = Start(pages[i].options)
      /\ pages[i].nextKey # NoKey => all # <<>> /\ pages[i].nextKey = Last(all) - 1
=============================================================================
