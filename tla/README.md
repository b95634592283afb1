# Verification of the ESP RainMaker Neo app SDK (TypeScript)

TLA+ models of the stateful parts of the SDK, TLC runs that check them on small
instances, and TLAPS proofs of the results that matter most for every size.
The SDK is single-threaded; what makes it hard is that almost every operation
awaits something (a transport, storage, `fetch`) and that other operations run in
between. The models therefore have one action per stretch of code between two
awaits, and everything else (a logout, a second call, an MQTT message, the end of
the process) may run between any two of them.

## 1. The system

State, operations, interactions and what makes each part correct. "Modelled in"
names the module; a dash means that there is none (section 9).

| Part (under `src/src/`) | State it keeps | Operations | Interacts with | What is hard | Correct when | Modelled in |
|---|---|---|---|---|---|---|
| `runSerial` / `enqueueNodeRead` (three copies of one idea) | map key -> tail of a promise chain | call; the map is emptied by `resetSession`/`clear` | used by orchestrator, channel, local control | a failed op, deletion of a tail, emptying while running | one op per key at a time, in order, each answered | `SerialQueue`, `FifoExclusion` |
| `services/NodeMQTTOrchestrator.ts`, subscriptions | singleton, `nodeMap`, `shadowSubs` (listeners, handler, subscribed), `shadowOps`, generation | initialize, clear, resetSession, (un)registerNode, (un)subscribeToNode, message routing | MQTT transport; channel, node, `waitForNodeOnline`, logout | session end under running ops; failure on the k-th topic | subscribed exactly while somebody listens; each listener called once; no session inherits another's callbacks | `NodeMQTTOrchestrator` |
| the same, requests and writes | `pendingRequests` by topic, handlers on the wire, timers | getParams, getShadow; setParams, setGroupParams, updateShadow | MQTT transport | answer, refusal, failed subscribe, timeout and session end race; a write waits for the connection while registration and session change | each request settles once, leaves nothing behind, misses no answer; a write goes where it was meant | `ShadowRequest`, `NodeWrites` |
| `services/MQTTSubscriptionChannel.ts` | `nodeCallbacks`, `orchestratorListeners`, `nodeGeneration`, `nodeOps` | subscribe, unsubscribe | orchestrator; manager; app callbacks | the orchestrator may drop the listener without telling | who subscribed is served, who unsubscribed is not called | `MQTTSubscriptionChannel` |
| `services/ESPRMNeoSubscriptionManager.ts`, `NodeUpdatesBus.ts` | channels in order of registration, orders per node | register, unregister, subscribe with fallback, unsubscribe, initialize, dispose, purge | channels, orchestrator | other calls run at every channel awaited | who was told subscribed is served, who was told unsubscribed by none; all channels initialized | `SubscriptionManager`; purge in `MQTTSubscriptionChannel` |
| tokens and credentials: `ESPSigV4APIManager.ts`, `awsUtils.ts`, `ESPRMNeoUser.ts`, `methods/ESPRMNeoUser/{Logout,GetTemporaryAWSCredentials}.ts`, `methods/ESPRMNeoAuth/{Login,GetLoggedInUser}.ts` | three tokens and the AWS credentials in storage; `refreshInFlight` | signed request with retry, credentials fetch, token refresh, login, restore, logout | cloud, storage | refreshes overlap each other, sign-out and sign-in; crash between two removals | one refresh at a time; requests signed as the user; nothing left after logout; no retry without end | `SessionCredentials` |
| node cache: `ESPRMNeoNode.ts`, `nodeUtils.ts`, `nodeNcfgVersionHandler.ts`, `Sync.ts`, `GetNode.ts`, `RemoveNode.ts` | cached configurations; one blob of `ncfg_ver` markers; the node objects | getNode, live update, sync, removeNode, logout | storage, cloud, channel | read-modify-write of one blob over awaits; crash between fetch and marker | a marker never vouches for an older configuration; object and cache agree | `NodeConfigCache` |
| node objects: `ESPRMNeoNode.ts`, `paramValues.ts`, `GetParams.ts` of devices and services | values in the object, in its configuration, in storage; connectivity | live update, sync, cached and live reads, delete | storage, orchestrator, local control | a read of storage answers after an update; writes to storage fail unseen | the three agree | `NodeView` |
| `utils/waitForNodeOnline.ts` | listener, poll, timer of one wait | wait | orchestrator, app's own listener | callback, poll, timeout race; borrowed registration | settles once, restores what it borrowed | `NodeOnlineWait` |
| local control: `ESPLocalControlTransport.ts`, `LocalControlSession.ts`, `DelegatedTransportHandler.ts` | session per node, read queue; order of transports | connect, read in fragments, write, fall back | native adapter, MQTT | two first uses; writes beside a fragmented read; a loop that makes no progress | a read returns one whole document, a write was applied, else the next transport or an error | `LocalControl`, queue in `SerialQueue` |
| provisioning: `methods/ESPDevice/Provision.ts` and helpers | progress of one flow, what a retry resumes | provision, retryNetworkCredentials | device, cloud, wait | failure between device and cloud step, resume | success means associated, configured, online | `Provisioning` |
| assisted claiming: `StartAssistedClaiming.ts`, `ClaimingHelper.ts` | fragments, offsets | claim, abort | device, cloud | fragments out of step, abort, repetition | whole request and certificate, or error | `AssistedClaiming` |
| schedules and triggers: `methods/ESPRMNeoNode/`, `ESPRMNeoSchedule/`, `ESPRMNeoTrigger/` | the app's objects; the list is the cloud's | create, update, enable, remove, replace | cloud | every change replaces the whole list; lost answers | one call touches its own item; the object never shows what was refused | `NodeLists` |
| groups and automations: `methods/ESPRMNeoGroup/`, `ESPRMNeoAutomation/` | the app's objects | members, name, subgroups, leave; actions, conditions, status | cloud | overlapping calls, answers lost | object = cloud once quiet | `CloudObjects` |
| work on all nodes of a group: `GetNodes.ts`, `GetSchedules.ts`, `CreateSchedule.ts`, `DeleteAllSchedules.ts`, `utils/mapLimit.ts` | pool of requests under way | four jobs | cloud, node cache | nodes fail one by one | limit and order kept; the answer names exactly the failed | `GroupNodes` |
| events: `EventSubscription.ts`, `ESPDiscoveryManager.ts` | callback and teardown per event, one discovery per adapter, bus | subscribe, unsubscribe, remove all | native adapter, bus | several events share one discovery; the adapter is removed or replaced under it | nothing runs that cannot be stopped | `UserEvents` |
| configuration: `ESPRMNeoBase.ts`, `baseUtils.ts`; connection: `methods/ESPRMNeoUser/MQTT/` | singletons; the adapter's connection | configure, dispose, connect, disconnect, logout's part of it | all | a configuration that fails halfway; account and configuration change under a connect | can always be configured anew; connected as the signed-in user, or not at all | `SdkLifecycle` |
| time series: `FetchTSData.ts` | ways from page to page | fetch, next page, latest | cloud | the device reports meanwhile | every sample once, newest first | `TimeSeries` |
| values and messages: classes of node, device, service, parameter; `nodeTransform.ts`, `shadowUtils.ts`; `awsSigv4Utils.ts`; `proto/`; encoding; sign-up and password calls | none | pure | | edge cases of the data | what is written is read as meant | `NodeValues`, `SignedRequests`, `ProtoCodec`, `Encoding`, `AccountCalls` |
| sharing, integrations, profile, listings; the adapters' pass-through methods; types, errors, logging | none | one request each | | | | - |

`PROJECT.json` lists the same components with their files, and under "hazards" the
places in the code where something hard to test can go wrong, each with the
properties that watch it.

## 2. Modules

| Module | Models | Built on |
|---|---|---|
| `FifoExclusion` | what a per-key queue promises its callers | |
| `OneShot` | a call settles once and then has nothing left in the world | |
| `SingleFlight` | who comes while a flight is in the air boards it | |
| `SerialQueue` | the promise chain that keeps only tails | implements `FifoExclusion` |
| `NodeMQTTOrchestrator` | sessions, registrations, subscriptions, routing | `SerialQueue` per shadow |
| `MQTTSubscriptionChannel` | the channel, the manager's purge, foreign registrations | `SerialQueue` per node and the *whole* orchestrator module |
| `ShadowRequest`, `NodeWrites` | requests and writes over the orchestrator | `ShadowRequest` implements `OneShot` |
| `SessionCredentials` | tokens, credentials, sign-in to logout | implements `SingleFlight` |
| `NodeConfigCache`, `NodeView` | configuration cache and markers; values and connectivity | |
| `NodeOnlineWait`, `Provisioning`, `AssistedClaiming`, `LocalControl` | flows with one device | the first and the last implement `OneShot` |
| `GroupNodes`, `NodeLists`, `CloudObjects` | jobs over a group; lists and objects beside the cloud's | |
| `SubscriptionManager`, `UserEvents`, `SdkLifecycle`, `TimeSeries` | what the SDK keeps for the app | |
| `NodeValues`, `ProtoCodec`, `Encoding`, `SignedRequests`, `AccountCalls` | values: operators with the samples they are checked on | |
| `MCDevice`, `CloudParts` | sums of modules with disjoint state, one followed at a time | the modules of their runs |
| `MCCloud` | `CloudParts`, the samples of the values, the bounds of the run | `CloudParts`, the value modules |
| other `MC...` | constants, symmetry and history variables for TLC | |
| `..._proofs` | theorems and proofs | |

Definitions headed "Mutation:" are wrong versions of the definition that follows.
No specification uses them; substituted for the right one, TLC finds the property
violated that they are meant for (`PROJECT.json`, "mutants").

### How state and actions correspond to the code

*SerialQueue.* `tail` is the map (`shadowOps`, `nodeOps`, `nodeReadQueue`); `prev` is
the promise an operation was chained to with `prev.then(op, op)`; `ahead`, the unsettled
part of the chain, is history that the refinement needs. `Enqueue` is the call, `Start`
the moment the chain releases the operation, `Settle` its end with the `finally` that
removes the tail if it is still its own; `RunAtOnce` is an operation without an await.
`Forget` is `shadowOps.clear()`.

*NodeMQTTOrchestrator.* `Call` is the synchronous part of (un)subscribeToNode.
`BeginSubscribe` runs up to `await isConnected`; `NotConnected`, `JoinSubscription`,
`StartWiring` are its answers; `WireNext`, `WireLast`, `WireRefused` the awaits of the
loop over the topics. `RunUnsubscribe` has no await the SDK acts upon (the transport's
unsubscribe is fire-and-forget; that it may be rejected unseen is not modelled).
`session` counts ends of sessions; `handler[s]` names the call whose closure is
`shadowSub.topicHandler`; `wired[c]` says on how many topics, in the order of the loop,
the handler of call c is installed. `Routes` is `handleShadowLiveMessage`.

*MQTTSubscriptionChannel.* An operation is a subscribe, the removal of one callback,
the detachment of a node, or the manager's purge. `installed[n]` is the entry in
`nodeCallbacks` and `orchestratorListeners`, which always move together; `audience`
is the callback set a listener closes over. `Join`, `Install`, `Installed`, `RollBack`
are the branches of `installSubscriber`, `RemoveOne`, `Detach...` those of
`removeSubscriber` and `detachNode`. `unsubscribe()` of all nodes is a series of detach
operations. `Others` is what the rest of the SDK does to the orchestrator:
ESPRMNeoNode's constructor registers; its unsubscribeFromMqttUpdates, and
`waitForNodeOnline`, unregister.

*ShadowRequest.* A request reads the registration (`Fetch`), awaits the connection,
then sends: two subscribes, the entry in `pendingRequests`, the timer (`Send`).
`PublishWhenSubscribed` is the `Promise.all(...).then(publish)`; `Deliver` an answer on
a topic, its own or another client's; `Timeout`, `SubscribeFailed`, `EndSession` the other
ways out. `active` is the wire, as MQTT client and service see it.

*SessionCredentials.* A token or set of credentials is the number of the sign-in it
comes from. A *run* is one execution of `fetchTemporaryAWSCredentials` (coalesced by
`refreshInFlight`, or direct) or of `getLoggedInUser`; `at` is the await it is in. A
*request* is one signed REST call with its one retry after a 403. Whether something has
expired is a free choice at every check.

*NodeConfigCache.* A configuration is its version. `Compare`, `SaveBaseline`, `Sync`,
`PersistMarker`, `SaveMarker` are `refreshConfigIfNcfgChanged` await by await; a handler
carries the copy of the blob it read. `base` is history: the version first sighted since
the marker was last cleared, which the code takes on trust by design.

*NodeWrites.* A write takes what it needs when it is called (`WriteNode`, `WriteGroup`),
awaits `isConnected` (`WriteConnected`, `WriteNotConnected`) and then the publish
(`PublishSettles`); `BindNode`, `EndWriteSession`, `ClearOrchestrator` run in between.

*NodeView.* `node` is the object: `values` of its parameters, `params` the copy in its
configuration, `connected`; `entry` is what storage has. `HandleNodeUpdate` is
`processNodeUpdate` with the write it does not await; `StartCachedRead` and
`CachedReadEnds` a device's getParams on either side of the storage's answer. A write to
storage may fail; in `NodeConfigCache` it does not, there the crash is the subject.

*NodeOnlineWait.* `wait` holds the local variables of the one call; `bound` and `attached` what it
and the app share in the orchestrator. *Provisioning.* `prov` is the flow, `resume` what the
device object remembers for a retry, `station` the device, `cloud` the association.
*AssistedClaiming.* `claim` is the flow, `device` and `service` its two peers, as the code uses
them. *LocalControl.* `op` are calls of delegatedTransportHandler with the transports still
to try; `reads` is the node's queue, `peer` the device with its one transfer cache.

*GroupNodes.* `pool` is `concurrentFetchPool`; a job is one or two passes through it.
*NodeLists.* A call is a GET (`ReadList`) and a PUT (`WriteList`) that may be refused, applied,
or applied with the answer lost. *CloudObjects.* `Send`, `Taken` by the cloud, `Answered` or
`Fails` per request; `Answered` is what the method does to the object.

*SubscriptionManager.* A call goes through the channels in order, one await each
(`scall.at`). *UserEvents.* All synchronous; what a source brings changes nothing and is an
operator (`Discovered`, `EmitNodeUpdate`). `adapter` says whether there is one, what it discovers
for, and what replaced ones still do; `RemoveAdapter` is dispose, which touches neither users nor
the bus, `SetAdapter` the setter or a new configuration. *SdkLifecycle.* `ConfigureIn` is configure as a function
of the singletons, so that "would a configuration be accepted now" can be asked of a state;
`conn` are connects await by await, and `logout` the awaits of logout that matter to the
connection: `LogoutAsks`, `LogoutIsConnected`, `LogoutDisconnects` are its disconnectMQTT,
`LogoutStaysConnected` the refusal that `failSafe` passes over, `LogoutClears` the removal of the
tokens. `excused` is history. *TimeSeries.* Time is the number of samples taken.

*Value modules.* Pure functions, translated one for one, with sets of samples that enumerate
every combination of the cases the code tells apart; the run holds one initial state per
sample. Hashes are terms, bytes and characters numbers, names and times ordered numbers. What a
request's path and query say and how it is spelled are kept apart (`AwsUriEncode`, `Pathname`):
signing spells the query anew and the path as `new URL` does. A request's headers are its own and
the caller's, which win; no method of the SDK passes any.

## 3. What is assumed of the outside

* MQTT client and shadow service (external): subscribe and unsubscribe take effect in the
  order they are called; either promise may be rejected; a message goes to every handler
  installed on its topic; messages may be lost or late.
* The storage adapter carries out calls in the order they were issued. It may reject
  them in `SessionCredentials` (`StorageMayFail`); in `NodeConfigCache` it does not.
* `fetch` answers with any status or fails. Clocks and expiry dates: any outcome.
* API Gateway (external): canonicalizes the query, as `awsSigv4Utils.ts:179-181` says, and takes
  path, body and headers as they came. Header names are lower case, so that the two orders the
  code puts them into (`localeCompare` and code points) are one.
* `SessionCredentials`: the storing of tokens that ESPRMNeoUser's constructor starts and does not
  await succeeds. `LocalControl`: `isConnected` answers; a rejection of it is not modelled.
  `AssistedClaiming`: peers send fragments whose offsets are contiguous. `GroupNodes`: a group
  lists each node once.
* `SdkLifecycle`: one logout at a time; the storage adapters of successive configurations are one
  store. `UserEvents`: a discovery adapter that was replaced is not set again.
* `NodeConfigCache`: one ESPRMNeoNode object per node; getNode is one step; a logout
  waits for updates and removals under way (that it does not is the subject of
  `SessionCredentials`). Shadow updates may arrive late and out of order.

## 4. What the runs check

Nine runs pass. Their bounds:

| Run | Instance | States | Shows |
|---|---|---|---|
| `orchestrator` | 2 calls, 2 nodes, 2 shadows, 2 callbacks, 3 topics (2 routed), 1 session end | 270k | see below |
| `channel` | 3 operations, 1 node, 1 shadow, 2 app callbacks, 2 topics, 1 session end | 462k | see below |
| `channel_live` | 2 operations, 1 app callback, otherwise as `channel` | 25k | every operation is answered |
| `request` | 2 requests, 1 node, 2 shadows, 1 session end | 41k | a request settles once and no entry, handler or timer outlives it (`SettlesOnce`: it implements `OneShot`), no answer is missed, each request settles |
| `session_quiet` | 2 requests, 2 runs, 2 sign-ins, 2 retries; sign-in, restore and logout while nothing else is under way | 216k | storage follows the user; requests are signed as the user |
| `session_live` | 2 requests, 2 runs, 1 sign-in, failing storage, restarts | 83k | one refresh at a time, shared by who needs it (`SharesOneFlight`: implements `SingleFlight`), each request settles |
| `config` | 2 nodes, 2 versions, 2 updates and a removal at once, logout, restarts | 2.1M | see below |
| `device` | six flows, one at a time: see below | 264k | see below |
| `cloud` | eight parts, one at a time, and the samples: see below | 0.86M | see below |

*device.* One flow is chosen in the initial state, the others rest; they share no state, so
their sum is their union and not their product. Wait: 2 shadows, 1 interval poll, 2 moves of the
app. Claiming: requests and certificates of 3 bytes in fragments of at most 2, 3 chunks, 2
claims. Provisioning: 2 groups, 3 attempts. Local control: 2 operations, every order of
transports, fragments of 1, 2 connects, one change of the device. Group: 3 nodes and a
stranger, pool of 2, 2 jobs in a row. Queue: 3 calls, 2 keys, 1 emptying of the map
(`RefinesFifo`: the chain implements `FifoExclusion`, whence exclusion per key and session).
Two of anything that overlaps is the least that can go wrong; three positions give a
first, a middle and a last fragment, node or place in the queue.

*cloud.* Lists: 2 ids, 1 object, 3 calls. Objects: 2 nodes, 2 names, 2 targets, 3 calls. Node:
2 slots of one device, 2 values. Writes: 1 (writes share nothing but what they meet), 2 shadows, 3
sessions. Manager: 2 channels, 1 node, 4 calls. Events: 2 users, 3 events, 1 callback, 1 discovery left behind on a replaced adapter (`MaxFormer`).
SDK: 2 configurations of every shape, 2 connects, 2 accounts. Time series: 3 samples, 3 pages.
Lists and objects are followed until two calls about the same thing have met or an object's
answer was lost: the SDK documents that overlapping calls lose each other's changes, and nothing
is promised after. For automations `ObjectsMirrorCloud` excepts refused requests, too (section 7). `NodeMirrorsStore` names its exceptions
slot by slot. What `PagesAreWhole` says of
the samples followed so far is kept in each page as it is got. `ConnectedIsSignedIn` holds
however connecting, logging in and out and configuring interleave; excused are single connections that logout
does not end (`excused`, section 7): made by a call that already had its name, on an adapter that
refused to disconnect or is no longer configured, or there when somebody signed in over another
account. `ValuesAgree` holds of every sample: replies, messages, requests,
base64, canonical requests, URLs, credentials, answers, configurations, parameters,
shadow names, updates, account calls.

*orchestrator.* `SubscribedIffListened` holds whatever overlaps, sessions ending at any moment,
and `ImplementsQueue` says that the chains are used as `SerialQueue` specifies. `Uncut...` properties are asserted as long as no session
has ended *with calls pending* (the history variable `cut` of the MC module): each
listener is given a message once, unless an earlier subscribe broke off half-way; every
handler on the wire has an owner. With `cut` they fail: section 7 says how.
`ListenersHaveTheirCall` holds in every interleaving: who is attached has a call that asked, in this
session and for the shadow its node is registered with now, and resolved. Only a call that
was itself pending when its session ended or its node left that shadow (history `caught`) may have attached
its listener elsewhere; that such a call does is section 7's first entry.
Two calls are enough for every pair of operations to meet; queues of three are the matter
of the `device` run. Three topics give a first, a middle and a last await; the loop treats
all six alike. Nodes, shadows, callbacks and calls are symmetric.

*channel.* `InstallFindsItsSet` holds with everything allowed. `ServedWhileRegistered` and
`ResolvesServed` hold as long as the node keeps its shadow within a session: nobody unregisters
it or moves it to another (history variable `unregistered`), sessions ending at any moment. `UncutOnlyCurrentSetReached` and
`UncutNoStrayListener` need both histories clean. There is one shadow, so the node is never
moved from one shadow to another: moving it loses the channel's listener (section 7). One
node suffices because the channel keeps everything per node; that nodes sharing a shadow
do not disturb each other is checked in `orchestrator`.

*config.* `CacheIsApplied` and `LogoutClearsTracked` hold in every interleaving.
`UnmetMarkerVouches` is asserted as long as no two pieces of work have met (`met` of the MC
module): it says that failing fetches, late updates, removals, logouts and a process
killed between any two steps never leave a marker ahead of the configuration. Two versions
are a baseline and a change.

*session.* `session_quiet` excludes overlap (`Overlap = FALSE`) and restarts: with either the
properties fail (sections 5 and 7). `SharesOneFlight` is
checked in `session_live` without sign-in or logout under way and proved with them (section 8).

Deadlock checking is off: a finite set of calls, sessions and sign-ins runs out.

### Fairness

`device` (`DeviceFairness` of MCDevice): in the flow that is followed a connection, a subscribe, an
adapter's call and a request succeed or fail, a timer fires, a settled promise is heard, and
what the queue has released starts and settles. A wait's later polls need not answer: the
timer alone must do. An adapter that never answers would hang the SDK; no code guards against it.
`channel_live`: each
operation's next step is weakly fair; this is the event loop running ready continuations
and the transport settling its promises. `request`: `isConnected()` settles, timers fire and
continuations run; no subscribe, publish or answer of the network is assumed, so the timeout
alone must do. `session_live`: network calls
answer or fail, storage calls settle. The app need not call anything.

## 5. What the code does not keep

Three runs show a disagreement between the code and what its comments say; `PROJECT.json`
quotes the lines under "findings".

| Run | What happens |
|---|---|
| `channel_unregister` | A first subscribe attaches its listener; the node is unregistered behind the channel's back; a second subscribe registers it again, joins the first one's callback set, which no listener feeds, and resolves. (The property is about joining subscribes. A first one can resolve unserved, too: section 7.) |
| `session_leftover` | A token refresh, restore or credentials fetch in flight writes tokens or credentials of the signed-out user back after logout has returned `true`. |
| `config_lost` | Two nodes first sighted together: both read the marker blob, the second write drops the first's entry, and that node's next schema change passes for a first sighting. |

## 6. Plan

Built so far, in this order: the queue and the orchestrator, its requests, the channel, sessions
and credentials, the configuration cache; then the flows with devices, what the SDK keeps with
the cloud and for the app, and the values; then the proofs of section 8. What is left:

1. Two more promises worth stating abstractly, with the refinement proved: delivery to current
   subscribers (channel and manager) and the one discovery all events share.
2. `Encoding` and `ProtoCodec` recurse over their data and stay with TLC.
3. The parts of section 9.

## 7. Known divergences without a run

Found with TLC while the models were built, in variants of the runs above.

*Orchestrator, channel, sessions, cache*

* `NodeMQTTOrchestrator.ts:298`: a subscribe queued, or waiting for `isConnected`, when logout
  calls `resetSession` goes on in the next session and attaches the old callback to its
  shadow; the comment at `:163-166` says resetting clears shadow listeners.
* `:632`: a write that waits for `isConnected` across a logout and a login goes out over the
  next user's connection; one whose node is moved meanwhile goes to the shadow it had. Two
  writes may go out in either order.
* `NodeMQTTOrchestrator.ts:188`: `resetSession` empties `shadowOps` under running chains,
  so an operation of the next session runs together with an old one of the same shadow.
* `:311`: a subscribe rejected on a later topic leaves its handler on the earlier ones; the
  retry adds a second and those messages are routed twice.
* `:318`: a node unregistered, or moved to another shadow, while its subscribe is in flight gets
  its listener afterwards, on the shadow it had.
* `MQTTSubscriptionChannel.ts:207`: a node unregistered between the orchestrator's attaching
  (`NodeMQTTOrchestrator.ts:316-322`) and the channel's continuation takes the new listener with it,
  and that very subscribe resolves unserved.
* `:503`: two requests for one topic share one entry of `pendingRequests`; the one without
  entry is not rejected when the session ends (it settles by its timeout).
* `:201`: registering a node with another shadow drops the channel's listener.
* `ESPRMNeoSubscriptionManager.ts:363`: a subscribe queued behind a purge's detach registers
  the node before the purge unregisters it.
* `Logout.ts:52`: a rejected token removal skips the other two and logout still returns true.
* `awsUtils.ts:158`: a refresh that spans logout and login posts an access token of one
  sign-in with the ID token of another.
* `Logout.ts:53`: an app killed between the removal of the tokens and of the credentials
  leaves credentials the next user's requests are signed with.
* `ESPRMNeoNode.ts:324`: two updates of one node handled together can make the newer version
  the baseline of the older configuration.
* `userUtils.ts:65`: a cached node without a marker survives logout.
* `RemoveNode.ts:48`: the removed node's object stays subscribed and writes back.

*Flows with devices*

* `waitForNodeOnline.ts:193`: an app that attaches during the wait is unregistered by its clean-up
  when the node was not registered before; a timer that fires during the first poll
  rejects a promise nobody awaits yet.
* `Provision.ts:65`: setNetworkCredentials' answer `failure` is ignored by provision and by the
  retry. What a retry resumes is not cleared by a new provision() that fails before verification.
* A local write whose answer is lost is sent again over MQTT. Another client reading the same
  device clobbers its one transfer cache. setParam does not take the read queue, and need not.

*Lists, groups, automations*

* Overlapping updates of a list leave object and cloud apart, and the update of a stale object
  reverts other fields; the SDK documents this for appends.
* `Automation/Update.ts:31`: the instance is changed before the request, while `AddAction.ts:19-20`,
  `RemoveAction.ts:18` and `AddCondition.ts:22` say it is updated only after the call succeeds.
* Deleting all schedules of a group silently skips nodes whose configuration cannot be fetched
  (`DeleteAllSchedules.ts:20` says every node); getSchedules swallows failures of single
  nodes. Schedules and automations of a child group are asked for by its own id, without the
  parent's path that other methods use.

*Node objects*

* sync drops live values, which the cloud's configuration does not have, until the next update.
  `Sync.ts` speaks of the subgroup's path, the code uses the root group's.
* A live read changes the object only; a cached read or a restart afterwards shows the older
  stored value. A write to storage that fails is not repeated.
* getNode from the cloud keeps the stored connectivity but the object starts offline. A
  deleted node's object stays subscribed and the next update stores it again.
* A service with a device's name never gets its values. Reported state without `params` gives the
  app's callback every reported key, and the object none.

*Manager, events, configuration*

* A subscription that meets unregisterChannel can land on the channel given up; dispose during
  initialize leaves a manager that says it is initialized and has no channels.
* Stopping one event's discovery stops another's: the adapter has one. Disposing of the SDK
  removes the adapter without stopping its discovery, and unsubscribing afterwards throws. An
  adapter that is replaced goes on discovering, and unsubscribing stops the new one instead. A
  subscribe that throws leaves a callback without a source.
* dispose (`ESPRMNeoBase.ts:128`) leaves the node-updates bus as it is: the listener of a user object of
  before stays on it and its callback is still called. `clearNodeUpdateListeners` has no caller
  in the SDK.
* configure can fail after it has set its configuration only without localStorage and without a
  storage of the app's; the next configure disposes of the half. dispose does not
  disconnect the adapter.
* Connected after logout has returned: a connect that had its name already (`ConnectMQTT.ts:89`), an
  adapter that refused isConnected or disconnect (`Logout.ts:48`), an adapter that another
  configuration has replaced. A login without a logout before leaves the
  connection of the account before. A connection made while the account changes can mix one
  account's credentials with the other's name.

*Values*

* Protobuf tags are read as one byte; a fixed-width field skips one byte; a known field of
  another wire type is not skipped by the claiming parser; truncated input parses. Without
  Buffer, non-canonical base64 is accepted.
* A sign-up whose attributes override the username's own kind cannot be confirmed by the
  username. sendSignUpCode and forgotPassword have no fallback message.

## 8. Proofs

All for any constants that satisfy the named ASSUMEs. Finiteness is assumed only where a set is
counted or put into order, and in `QueueGoesOn`, `ShadowsGoOn` and `NodesGoOn`, which say that
somebody of those who wait is first: an infinite queue need not have a first.

| Module | Theorems | Argument |
|---|---|---|
| `SerialQueue_proofs` | `TypeCorrect`, `ChainCorrect`, `Exclusion`, `Refinement`, `QueueGoesOn`, `NoOvertaking` | `ChainInv`: the operations of one key and session are totally ordered by `ahead`, each waits for exactly the unsettled ones before it, and the map holds the last of them. Exclusion is not inductive without it: what keeps a new call behind *all* others is that the one tail it finds waits for the rest. Under `ChainInv` a step of the queue is a step of `FifoExclusion`. The chain never stands still: `ahead` is transitive and nobody is ahead of himself, so among finitely many who wait one has nobody unsettled before him (a shortest `ahead`, by cardinality). |
| `NodeMQTTOrchestrator_proofs` | `TypeCorrect`, `Subscriptions`, `QueueImplemented`, `Exclusion`, `ShadowsGoOn`, `UncutWire`, `ListenersAsked` | Each step is a step of the queue or leaves it alone; the queue's theorems follow by instantiation. `SubscribedIffListened` needs `CallsAreTyped` (a running call has a request and a shadow) and `HandlersAreOver` (the handler of a shadow belongs to a subscribe that has resolved, so no later step of that call changes its topics). `UncutWire` adds who owns each handler on the wire. For `ListenersAsked`: a call that is pending and was never caught is of this session and its node is where it looks for it (`PendingAreHere`); every step says of each listener whether it was kept, with its node where it was, or attached by a call that resolves in that step (`StepTraced`); and what a resolved call has asked for does not change (`CallsStay`). |
| `ShadowRequest_proofs` | `TypeCorrect`, `EntriesWait`, `Silence`, `Answers`, `RequestsSettleOnce` | For `AnswerIsHeard`: before publishing, both subscribes are answered, and as long as a request waits and its instance lives, what is answered is active. `RequestsSettleOnce` is a refinement: a step begins a request, changes what one under way holds, or settles some (a session's end all that have an entry at once) and takes everything from them; that a settled one has nothing (`Silence`) is what makes the end final. |
| `SessionCredentials_proofs` | `TypeCorrect`, `Coalescing`, `LiveWaits`, `RefreshIsShared`, `StorageStaysUsers`, `SignedByUser` | `refreshInFlight` names the one coalesced run from its first step to its last; a request that joins it is released with it. With that every step boards, lands or leaves the flight alone, which is `RefreshIsShared`. Holds with overlap, restarts and failing storage. The last two: while something is under way the user stays, storage holds only the user's tokens less what a logout has cleared, and runs carry the user's. |
| `MQTTSubscriptionChannel_proofs` | `InstallsFindTheirSets`, `QueueImplemented`, `Exclusion`, `NodesGoOn`, `RegisteredAreServed`, `ResolvingServes`, `RemovedIsNotReached`, `NothingStrays` | The channel runs over the whole orchestrator. Its entry survives because operations of a node do not interleave (the queue's exclusion, through the refinement) and because an entry of an ended session cannot be the one installed (generations only grow). The last four speak of the histories of the MC module; their invariant follows one listener from the call that orders it to the orchestrator's `listeners`, in every step of either module. |
| `NodeConfigCache_proofs` | `CacheIsSound`, `StorageFollowsMemory`, `LogoutForgets`, `MarkersVouchAlone` | Work under way is about a live node and a version it has published, and a logout finds and leaves nothing under way. `MarkersVouchAlone` adds that a piece of work which is alone has read the markers as they still are, and is about to save a version the configuration lives up to. |
| `DeviceFlows_proofs` | `WaitIsTidy`, `AppIsLeftAlone`, `WaitIsOver`, `ProvisionedMeansSo`, `ClaimedIsAsIssued`, `LocalAnswersAreHonest`, `LocalOpsGoForward`, `LocalOpsSettleOnce`, `JobsAreHonest`, `DeviceTypes`, `FlowsKeepTheirPromises` | Wait: timers by the step, and where listeners may be while the app leaves the wait alone. Provisioning: what may be resumed is associated. Claiming: what has been read (sent) is exactly what has been sent (received), a prefix of one document, so nothing is missing at the end. Local control: reads queue, only the first pulls, and what it has is the beginning of one version. Each of its steps takes an operation nearer its end in a fixed order (a transport less to try, a later step with it, a retry less, more read), which is what there is to prove of its termination without fairness; `WaitIsOver` and `LocalOpsSettleOnce` are refinements of `OneShot`. Jobs: the pool has settled the nodes that came back and no others, and what a pass did is told by who came back. The last two are about `MCDevice`: a behaviour of it is one of every part (`FlowsAreSeparate`), and bounds on the counters complete the parts' types (a claim still to ask has one certificate fewer than claims; what a pool has started is under way or settled, and counted once). |
| `CloudFlows_proofs` | `WritesAreTrue`, `ListsStayKept`, `ViewIsKept`, `EventsTidy`, `SubscriptionsStayKept`, `ObjectsMirror`, `PagesStayWhole`, `SdkIsAlwaysWhole`, `ConnectedStaysSignedIn`, `CloudTypes`, `PartsKeepTheirPromises`, `OnlyWhatWasSigned`, `ValuesAreAlwaysMeant`, `ParamsAreAlwaysKept` | Writes: the client is never connected as the user of a session to come, and an older write has met its session's end. Lists: what a call has read is the list, as long as it is alone. View: slot by slot, what each crossing may have disturbed. Events: a teardown for each source that runs in the adapter in place or on the bus, one discovery for all on an adapter. Manager: which channels a call has told, has still before it, and which order it carries. Objects: calls that do not meet are about different things (`Apart`), so each answer closes exactly the gap its request has opened. Pages: what was followed reaches down to just above the next key, which only the newest sample outruns. SDK: the accepted configuration; and for the connection, that a name resolved is that of who is signed in until logout clears the tokens, by when each adapter is disconnected or its call excused. The sum: a behaviour of `CloudParts` is one of every part (`PartsAreSeparate`); the types add bounds on what is counted. Values, by definition and cases, for any content: a signature is a term that says all it was made of, so equal signatures mean equal requests up to the order and spelling of the query; credentials, answers, account calls, configurations and updates come out as they were meant; updates of parameters one by one show what their merged cache shows. |

With session ends, refreshes and sign-ins allowed at any moment, some promises fail (sections 5 and 7);
theorems about them carry the same hypotheses the runs have, and no others: `UncutWire`,
`RemovedIsNotReached` and `NothingStrays` the histories of their MC modules,
`StorageStaysUsers` and `SignedByUser` the hypothesis `Quiet` (sign-in, restore and logout wait for
work in flight, storage accepts every write, the process lives on), which the constants of
`session_quiet` satisfy.

Assumptions about constants are named in the modules that declare them and say that model values
are told apart (`NoNode` is no node, `"name"` is no node id), that bounds are
naturals (`MaxVersion` at least 1, for there is a first version, and `MaxRetries`, for a
session is tried), that a group lists each node
once (`GroupAssumption`), that documents and fragments have a length, that an automation may have an
action (`ObjAssumption`), that there is a session and a sample at all (`WritesAssumption`,
`TsAssumption`), and where a set is counted or put into order that it is finite.

Some definitions are written for the prover, with the meaning of the code: `GroupNodes!Nodes` and
`CloudObjects!WithoutId` say of `filter` that it keeps the kept in their order, by CHOOSE, since
SelectSeq cannot be expanded; `SubscriptionManager!FirstOf` picks the channel that comes first in the
order of registration; `NodeValues!MergeMaps` and `SetValue` say value by value what the spread of two
objects has. That a filtered list exists for every length is proved by the least counterexample
(`LeastExists`, from the well-foundedness of Nat), which is the one kind of induction within reach.

The type invariants of the queue, orchestrator, requests and sessions are theorems and in no
run; so are `SomebodyGoesOn`, `NobodyOvertakes`, `WaitSettlesOnce`, `OpsSettleOnce` and `OpsGoForward`,
which TLC found to hold before they were proved. Exclusion per key and session follows from
`RefinesFifo` as well. For `MCDevice` and `CloudParts` it is proved that what holds of their parts holds
of them. `MCCloud` adds the samples, which reach the recursive codecs, and bounds that only cut
behaviours short; it is not itself a subject of the theorems.

Only model-checked:

* liveness (`EveryOpSettles`, `EveryRequestSettles`, `EveryFlowEnds`): the prover has no ENABLED. The
  safety half of it is proved: queues with somebody in them go on, local operations go forward,
  what has settled stays so.
* `ValuesAgree` as a whole, for what the codecs compute is defined by recursion over the data.
  Signatures, credentials, answers, account calls, configurations, updates and parameters are
  proved for any content; messages, base64, URLs and shadow names stay with the samples.

## 9. Not modelled

* Sharing, integrations, profile, listings, creation and deletion of groups and automations: one
  request, no state. The adapter's pass-through methods.
* The samples' reshaping in `tsDataUtils.ts`; the JSON and `Any` conversions of the generated
  protocol classes; the storage wrapper's default adapter.
* subscribeToAllNodes and the wording of errors; logging, types, constants.
* Two objects of one node writing one stored entry; connection status callbacks.
* A second provision or claim of one device while the first is under way.
* What the app does inside a callback, except where a callback that throws matters.

## 10. Running it

`tlc -config Orchestrator.cfg MCNodeMQTTOrchestrator`, and alike for the runs in
`PROJECT.json`; `tlapm SerialQueue_proofs.tla`, and alike. The longest run is `cloud`,
under three minutes on two workers.
