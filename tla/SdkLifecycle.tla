----------------------------- MODULE SdkLifecycle -----------------------------
(* Configuring and disposing of the SDK (ESPRMNeoBase, utils/baseUtils.ts), and   *)
(* connecting a user to the MQTT adapter it is configured with (connectMQTT,      *)
(* disconnectMQTT) and what logout does to the connection. Configuring makes a     *)
(* handful of process-wide singletons, each of which refuses to be made twice;     *)
(* connecting awaits between reading the session and using it, logging out between  *)
(* disconnecting and clearing the session, and any of them may run in between.     *)
(* The storage adapters stand for one store.                                       *)
EXTENDS Naturals, Sequences

CONSTANTS
  MqttAdapters,   \* MQTT adapters of the app
  Accounts,       \* who may sign in
  MaxConnects,    \* bound: connections attempted, numbered as they start
  MaxConfigures,  \* bound: configurations attempted
  None            \* absent

VARIABLES
  sdk,         \* the static fields and singletons
  runtime,     \* [localStorage]: the runtime has one
  configures,  \* configurations attempted
  signed,      \* the account whose tokens are in storage
  link,        \* per adapter: [by, identity], which call connected it and as whom, or None
  conn,        \* the calls of connectMQTT
  logout,      \* the call of logout: [step, on]
  excused      \* calls whose connection logout could not, or need not, end (history)

sdkVars == <<sdk, runtime, configures, signed, link, conn, logout, excused>>

(* --- Configurations ---------------------------------------------------------------- *)

\* The adapters for provisioning, local control and discovery are treated alike and
\* stand as one.
Optional == {"customStorageAdapter", "mqttAdapter", "deviceAdapters"}

\* What validateConfig looks at, in its order.
Checks == <<"config", "baseUrl", "userApiBase", "awsRegion", "iotEndpoint", "customStorageAdapter", "mqttAdapter", "deviceAdapters">>

\* A configuration: what is wrong in it (no object, a blank or malformed URL, a blank
\* field, an adapter that lacks a method), the adapters it brings, its MQTT adapter.
Config == {c \in [wrong : {{}} \cup {{f} : f \in {"baseUrl", "mqttAdapter"}},
                  has : {Optional, Optional \ {"customStorageAdapter"}, {}},
                  mqtt : MqttAdapters \cup {None}] :
             /\ (c.mqtt = None) = ("mqttAdapter" \notin c.has)
             /\ "mqttAdapter" \in c.wrong => "mqttAdapter" \in c.has}

\* validateConfig: the first check that fails; an adapter that is absent passes.
ConfigError(c) ==
  LET failing == {i \in 1..Len(Checks) : Checks[i] \in c.wrong /\ (Checks[i] \in Optional => Checks[i] \in c.has)}
  IN IF failing = {} THEN "none" ELSE Checks[CHOOSE i \in failing : \A j \in failing : i <= j]

(* --- The SDK, as functions of its state ---------------------------------------------- *)

Bare == [config |-> None, auth |-> None, manager |-> None, adapters |-> {}, order |-> "default",
         mqtt |-> None, orchestrator |-> None, api |-> None, sigv4 |-> None, storage |-> None, thrown |-> FALSE]

Throws(s) == [s EXCEPT !.thrown = TRUE]

\* extractAdaptersFromConfig: the adapters the SDK holds itself.
Held(c) == c.has \ {"mqttAdapter"}

\* disposePeerSingletons and dispose: every singleton and field goes. (The manager's
\* dispose is not awaited; the adapter stays connected.)
DisposePeers(s) == [s EXCEPT !.mqtt = None, !.orchestrator = None, !.api = None, !.sigv4 = None, !.storage = None]
DisposeIn(s) ==
  [DisposePeers(s) EXCEPT !.manager = None, !.config = None, !.auth = None, !.adapters = {}, !.order = "default"]

\* initializeMqttIfConfigured: ESPRMNeoMqtt, then the orchestrator on it.
InitializeMqtt(c, s) ==
  IF c.mqtt = None THEN s
  ELSE IF s.mqtt # None THEN Throws(s)
  ELSE IF s.orchestrator # None THEN Throws([s EXCEPT !.mqtt = c.mqtt])
  ELSE [s EXCEPT !.mqtt = c.mqtt, !.orchestrator = c.mqtt]

\* ESPRMNeoStorage.initialize: without an adapter, the runtime's localStorage.
InitializeStorage(s, hasAdapter) ==
  IF hasAdapter THEN [s EXCEPT !.storage = "custom"]
  ELSE IF runtime.localStorage THEN [s EXCEPT !.storage = "default"]
  ELSE Throws(s)

\* initializeApiStack: storage, then the two API managers.
InitializeApiStack(c, s) ==
  LET stored == InitializeStorage(s, "customStorageAdapter" \in s.adapters)
      users == IF s.api # None THEN Throws(stored) ELSE [stored EXCEPT !.api = c]
  IN IF stored.thrown THEN stored ELSE IF users.thrown THEN users
     ELSE IF s.sigv4 # None THEN Throws(users) ELSE [users EXCEPT !.sigv4 = c]

\* createSubscriptionManager: with the MQTT channel if there is an MQTT adapter.
CreateManager(c, s) == [s EXCEPT !.manager = IF c.mqtt # None THEN "mqtt" ELSE "empty"]

\* Mutation: the configuration is recorded when all else is done.
ConfigureInLate(s, c) ==
  LET fresh == [(IF s.config # None THEN DisposeIn(s) ELSE s) EXCEPT !.adapters = Held(c)]
      linked == InitializeMqtt(c, fresh)
      stacked == IF linked.thrown THEN linked ELSE InitializeApiStack(c, [linked EXCEPT !.auth = c])
  IN IF ConfigError(c) # "none" THEN Throws(s) ELSE IF stacked.thrown THEN stacked
     ELSE CreateManager(c, [stacked EXCEPT !.config = c])

\* configure: what is invalid changes nothing; what was configured is disposed of.
\* The parts are made in order, and what is made stays when a later one throws.
ConfigureIn(s, c) ==
  LET fresh == [(IF s.config # None THEN DisposeIn(s) ELSE s) EXCEPT !.adapters = Held(c)]
      linked == InitializeMqtt(c, fresh)
      stacked == IF linked.thrown THEN linked ELSE InitializeApiStack(c, [linked EXCEPT !.auth = c, !.config = c])
  IN IF ConfigError(c) # "none" THEN Throws(s) ELSE IF stacked.thrown THEN stacked ELSE CreateManager(c, stacked)

\* What is absent is none of what is there.
ASSUME SdkAssumption == None \notin Config \cup MqttAdapters \cup {"default", "custom", "mqtt", "empty"}

NoConn == [step |-> "idle", on |-> None, creds |-> None, identity |-> None]

SdkInit ==
  /\ sdk = Bare /\ runtime \in [localStorage : BOOLEAN] /\ configures = 0
  /\ signed = None /\ link = [a \in MqttAdapters |-> None]
  /\ conn = [k \in 1..MaxConnects |-> NoConn]
  /\ logout = [step |-> "idle", on |-> None] /\ excused = {}

(* --- Operations ------------------------------------------------------------------------ *)

Connecting == {k \in 1..MaxConnects : conn[k].step \notin {"idle", "done", "failed"}}
LinksRest == UNCHANGED <<runtime, signed, link, conn, logout, excused>>

\* ESPRMNeoBase.configure, which init is another name of.
Configure(c) ==
  /\ configures < MaxConfigures /\ configures' = configures + 1
  /\ sdk' = [ConfigureIn(sdk, c) EXCEPT !.thrown = FALSE] /\ LinksRest

\* dispose, which resetForTests is another name of.
DisposeSdk == sdk' = DisposeIn(sdk) /\ LinksRest /\ UNCHANGED configures

\* setProvisioningAdapter, setLocalControlAdapter, setLocalDiscoveryAdapter.
SetDeviceAdapters ==
  /\ sdk.config # None
  /\ sdk' = [sdk EXCEPT !.adapters = @ \cup {"deviceAdapters"}] /\ LinksRest /\ UNCHANGED configures

\* setStorageAdapter, and the property, which does not ask for a configuration.
SetStorageAdapter ==
  /\ sdk' = InitializeStorage([sdk EXCEPT !.adapters = @ \cup {"customStorageAdapter"}], TRUE)
  /\ LinksRest /\ UNCHANGED configures

\* setTransportOrder: a copy of a list that is not empty.
SetTransportOrder == sdk' = [sdk EXCEPT !.order = "own"] /\ LinksRest /\ UNCHANGED configures

(* --- Login and logout, as far as the connection goes --------------------------------------- *)

\* The calls by which the adapters in A are connected, and those that are connecting.
LinkedBy(A) == {link[a].by : a \in {x \in A : link[x] # None}}
AtConnect == {k \in 1..MaxConnects : conn[k].step = "connecting"}
SessionRests == UNCHANGED <<sdk, runtime, configures, conn>>

\* login: the tokens are stored. Over another account's that did not log out, nobody
\* disconnects.
SignIn(who) ==
  /\ sdk.storage # None /\ signed # who
  /\ signed' = who
  /\ excused' = IF signed = None THEN excused ELSE excused \cup LinkedBy(MqttAdapters) \cup AtConnect
  /\ UNCHANGED <<link, logout>> /\ SessionRests

\* logout, after the request that ends the session at the server: disconnectMQTT
\* asks the adapter there is now, which leaves the others connected.
LogoutAsks ==
  /\ logout.step = "idle"
  /\ logout' = [step |-> IF sdk.mqtt = None THEN "clearing" ELSE "asking", on |-> sdk.mqtt]
  /\ excused' = excused \cup LinkedBy(MqttAdapters \ {sdk.mqtt})
  /\ UNCHANGED <<signed, link>> /\ SessionRests

\* isConnected answers.
LogoutIsConnected ==
  /\ logout.step = "asking"
  /\ logout' = [logout EXCEPT !.step = IF link[logout.on] # None THEN "leaving" ELSE "clearing"]
  /\ UNCHANGED <<signed, link, excused>> /\ SessionRests

LogoutDisconnects ==
  /\ logout.step = "leaving" /\ logout' = [logout EXCEPT !.step = "clearing"]
  /\ link' = [link EXCEPT ![logout.on] = None]
  /\ UNCHANGED <<signed, excused>> /\ SessionRests

\* Either is refused, which logout passes over.
LogoutStaysConnected ==
  /\ logout.step \in {"asking", "leaving"} /\ logout' = [logout EXCEPT !.step = "clearing"]
  /\ excused' = excused \cup LinkedBy({logout.on})
  /\ UNCHANGED <<signed, link>> /\ SessionRests

\* The tokens are removed, if there is a storage. A call that has its name already
\* goes on to connect.
LogoutClears ==
  /\ logout.step = "clearing" /\ logout' = [step |-> "idle", on |-> None]
  /\ signed' = IF sdk.storage = None THEN signed ELSE None
  /\ excused' = excused \cup AtConnect
  /\ UNCHANGED link /\ SessionRests

Logout == LogoutAsks \/ LogoutIsConnected \/ LogoutDisconnects \/ LogoutStaysConnected \/ LogoutClears

(* --- connectMQTT ------------------------------------------------------------------------ *)

To(k, record) == conn' = [conn EXCEPT ![k] = record]
Step(k, step) == To(k, [conn[k] EXCEPT !.step = step])
Over(k, how) == To(k, [NoConn EXCEPT !.step = how])
Rests == UNCHANGED <<sdk, runtime, configures, signed, logout>>

\* disconnectMQTT first: nothing if there is no MQTT or no connection.
ConnectMQTT(k) ==
  /\ conn[k].step = "idle" /\ \A j \in 1..(k - 1) : conn[j].step # "idle"
  /\ To(k, [conn[k] EXCEPT !.step = IF sdk.mqtt # None THEN "asking" ELSE "configuring", !.on = sdk.mqtt])
  /\ Rests /\ UNCHANGED <<link, excused>>

IsConnected(k) ==
  /\ conn[k].step = "asking" /\ Step(k, IF link[conn[k].on] # None THEN "leaving" ELSE "configuring")
  /\ Rests /\ UNCHANGED <<link, excused>>

Disconnected(k) ==
  /\ conn[k].step = "leaving" /\ Step(k, "configuring") /\ link' = [link EXCEPT ![conn[k].on] = None]
  /\ Rests /\ UNCHANGED excused

\* getConfig, then the credentials, which are those of the account there is.
GetsCredentials(k) ==
  /\ conn[k].step = "configuring" /\ sdk.config # None /\ sdk.storage # None /\ signed # None
  /\ To(k, [conn[k] EXCEPT !.step = "assuming", !.creds = signed]) /\ Rests /\ UNCHANGED <<link, excused>>

\* assumeRole with them, for as many services as are asked for and a node.
AssumesRole(k) ==
  /\ conn[k].step = "assuming" /\ sdk.sigv4 # None /\ Step(k, "naming") /\ Rests /\ UNCHANGED <<link, excused>>

\* Mutation: the name is that of the token the credentials were got with.
ResolvesEarlierIdentity(k) ==
  /\ conn[k].step = "naming" /\ sdk.mqtt # None
  /\ To(k, [conn[k] EXCEPT !.step = "connecting", !.identity = conn[k].creds, !.on = sdk.mqtt]) /\ Rests /\ UNCHANGED <<link, excused>>

\* resolveMqttUserIdentity of the id token in storage now; the adapter there is now
\* is told to connect.
ResolvesIdentity(k) ==
  /\ conn[k].step = "naming" /\ sdk.storage # None /\ signed # None /\ sdk.mqtt # None
  /\ To(k, [conn[k] EXCEPT !.step = "connecting", !.identity = signed, !.on = sdk.mqtt]) /\ Rests /\ UNCHANGED <<link, excused>>

\* A logout is past disconnecting the adapter, or is disconnecting another.
LogoutLeaves(a) == logout.step # "idle" /\ (logout.step = "clearing" \/ logout.on # a)

Connects(k) ==
  /\ conn[k].step = "connecting"
  /\ Over(k, "done") /\ link' = [link EXCEPT ![conn[k].on] = [by |-> k, identity |-> conn[k].identity]]
  /\ excused' = IF LogoutLeaves(conn[k].on) THEN excused \cup {k} ELSE excused
  /\ Rests

\* Any of it is refused or throws for what is missing.
ConnectFails(k) ==
  /\ k \in Connecting /\ Over(k, "failed") /\ Rests /\ UNCHANGED <<link, excused>>

ConnectProgress(k) ==
  IsConnected(k) \/ Disconnected(k) \/ GetsCredentials(k) \/ AssumesRole(k) \/ ResolvesIdentity(k) \/ Connects(k) \/ ConnectFails(k)

SdkNext ==
  \/ \E c \in Config : Configure(c)
  \/ DisposeSdk \/ SetDeviceAdapters \/ SetStorageAdapter \/ SetTransportOrder
  \/ Logout \/ \E who \in Accounts : SignIn(who)
  \/ \E k \in 1..MaxConnects : ConnectMQTT(k) \/ ConnectProgress(k)

SdkSpec == SdkInit /\ [][SdkNext]_sdkVars

(* --- Properties --------------------------------------------------------------------------- *)

SdkTypeOK ==
  /\ sdk.config \in Config \cup {None} /\ sdk.mqtt \in MqttAdapters \cup {None} /\ sdk.orchestrator \in MqttAdapters \cup {None}
  /\ sdk.adapters \subseteq Optional /\ sdk.storage \in {None, "default", "custom"} /\ signed \in Accounts \cup {None}
  /\ logout.step \in {"idle", "asking", "leaving", "clearing"} /\ excused \subseteq 1..MaxConnects
  /\ \A k \in 1..MaxConnects : conn[k].step \in {"idle", "asking", "leaving", "configuring", "assuming", "naming", "connecting", "done", "failed"}

\* However configuring failed before, a complete configuration is accepted: no
\* singleton is left that refuses to be made again. What is configured is of one
\* configuration, and what is not has no singleton.
SdkIsWhole ==
  /\ \A c \in Config : ConfigError(c) = "none" /\ "customStorageAdapter" \in c.has => ~ConfigureIn(sdk, c).thrown
  /\ sdk.mqtt = sdk.orchestrator
  /\ sdk.config = None => sdk.mqtt = None /\ sdk.api = None /\ sdk.manager = None
  /\ sdk.manager # None => sdk.config # None /\ sdk.api = sdk.config /\ sdk.sigv4 = sdk.config /\ sdk.auth = sdk.config
                           /\ sdk.mqtt = sdk.config.mqtt /\ sdk.storage # None /\ (sdk.manager = "mqtt") = (sdk.mqtt # None)

\* Who is connected is who is signed in, by the name the connection was made under:
\* once logged out nobody is, and the next to sign in is not connected as the one
\* before. Excused are connections that were being made when the tokens went, that
\* the adapter refused to end, that are on an adapter no longer configured, or were
\* there when somebody signed in over another account (logout, connectMQTT).
ConnectedIsSignedIn ==
  \A a \in MqttAdapters :
    link[a] # None => link[a].by \in excused \/ (signed # None /\ link[a].identity = signed)
===============================================================================
