# TLA+ models of the Kong operator

The operator is one process with many Kubernetes controllers in it.  Several things it
does are protocols between actors and not just a translation of one object into
another: it runs an ingress controller instance per `ControlPlane`, discovers the
gateways of each and keeps them configured, reports them and their configuration to
Konnect, mirrors Kubernetes objects into Konnect, and rolls out new versions of a
`DataPlane` behind a promotion.  This directory models those protocols: what
goroutines, reconciles on stale copies, failing or lost calls, crashes and restarts
may do to each other.

`PROJECT.json` maps every definition to the lines it models; paths below are relative
to the repository.

## 1. Inventory

| component | state it keeps | operations | hard behaviour | what makes it correct |
|---|---|---|---|---|
| multi-instance manager, `ingress-controller/pkg/manager/multiinstance` | map ID -> instance, bounded scheduling queue, stop channels, diagnostics handlers, admission validators | `ScheduleInstance`, `StopInstance`, `IsInstanceReady`, `GetInstanceConfigHash`, `Start`, `runInstance`, `instance.Run` | a stop and a second schedule of an ID overlapping with the goroutine of the first; a channel send under a lock; handlers registered outside the lock | an instance is started once, is never forgotten, and stops; the registries follow the map |
| ControlPlane reconciler, `controller/controlplane` | the object, its teardown finalizer and Ready condition, the work queue | `Reconcile`, `scheduleInstance`, `patchStatus` | informer copies that lag; a stopped instance that still answers; failing updates; restart of the operator | no instance outlives its ControlPlane; Ready is about the spec that was read; an outdated instance is replaced; deletion completes |
| Konnect generic reconciler, `controller/konnect` | finalizer, Konnect ID in the status, pending IDs in memory, the entities in Konnect | `Reconcile`, `ops.Create/Update/Delete`, `reconcilePendingKonnectID`, reference handlers | stale copies mixed with patch responses; a crash between the remote call and the patch; lost responses; reuse of names; deletions in Konnect | no entity is orphaned, duplicated or abandoned; missing ones come back; deletion completes |
| gateway configuration, `ingress-controller/internal/dataplane` | cache stores, snapshots and their hashes, last valid configuration, a hash per gateway client | `KongClient.Update`, `sendOutToGatewayClients`, `PerformUpdate`, `Synchronizer` | parallel pushes that fail one by one; gateways that crash, join and leave; lost answers; a restart before the cache is filled | the gateways end with the wanted configuration, or with the last valid one; only accepted configurations are kept or shown to Konnect |
| fallback configuration, `dataplane/fallback` | dependency graph of a cache | `GenerateExcludingBrokenObjects`, `GenerateBackfillingBrokenObjects` | sequences of broken, repaired and deleted objects | a broken object takes only its dependants along; what was served is backfilled |
| gateway clients manager, `internal/clients`, and the Admin API service controller | ready and pending clients, subscribers, the controller's cache of EndpointSlices | `Reconcile`, `Notify`, `adjustGatewayClients`, readiness loop, `SubscribeToGatewayClientsChanges` | a blocking notification; probes under the lock while gateways come and go; a list of subscribers read without the lock | the clients are the addresses discovered; the ready ones are those that answer; no change without a notification after it |
| node agent, `internal/konnect/node_agent.go` | the status it last computed; the nodes in Konnect | initial update, ticks, `subscribeConfigStatus`, `subscribeToGatewayClientsChanges`, `updateNodes` | three goroutines run `updateNodes` without a lock, each on a list of its own; calls that fail | one node per ready gateway, one for the controller with its latest status |
| Konnect synchronisation, `internal/konnect`, `adminapi/backoff_strategy_konnect.go`, `clients/config_status.go` | target state, hash of the last upload, backoff | `UpdateKongState`, ticks, upload, backoff, status notifications | a goroutine per hand-over and per notification; uploads applied in part; dropped notifications | Konnect ends with the configuration of the gateways; the status ends right |
| DataPlane controllers, `controller/dataplane` | selectors and conditions in the status, Deployments, Services, the promotion annotation | blue/green `Reconcile`, the DataPlane reconciler it delegates to | a rollout spread over many reconciles; edits and failures between any two calls; patch responses that bring a newer spec | traffic is always served; every promotion was asked for; a rollout completes; nothing unstaged goes live |
| Gateway, hybrid gateway controllers | owned objects | cleanup, enforcement | deletion order, stale status | (planned) |
| the rest (translator, generated controllers, webhooks, CLI, API types, telemetry) | none of its own | | pure translation, wiring, generated code | not modelled |

How they interact.  The ControlPlane reconciler calls the multi-instance manager; each
instance of it contains a KongClient, whose ticker (the Synchronizer) calls `Update`;
`Update` reads the cache that the instance's controllers fill, asks the clients
manager for the gateways, pushes to them and hands the result to the Konnect
synchronisation.  The clients manager gets its addresses from the Admin API service
controller and notifies the node agent of changes; the node agent gets the status of
the configuration from `Update` and from the synchronisation.  An instance is ready,
for the reconciler, once an `Update` has succeeded.  The Konnect reconciler and the
DataPlane controllers share only the API server with the others.

## 2. Modules

| module | models | composes |
|---|---|---|
| `MultiInstance` | the multi-instance manager and the life of an instance | |
| `ControlPlane` | the ControlPlane reconciler, API server, informer, work queue | extends `MultiInstance`: the calls are the manager's own actions |
| `KonnectEntity` | the Konnect reconciler for one namespace/name, API server, informer, Konnect | |
| `KongClient` | `KongClient.Update`, ticker, pushes, recovery, fallback generator; gateways and clients around it | |
| `GatewayClients` | what the clients manager promises to those who use its clients (abstract) | |
| `ClientsManager` | the Admin API service controller and the clients manager | implements `GatewayClients` |
| `NodeAgent` | the node agent and the nodes in Konnect | extends `GatewayClients`: it is built on the promise, not on the manager |
| `KonnectSync` | hand-over, upload, backoff and status notifications | |
| `BlueGreen` | the blue/green reconciler and the DataPlane reconciler, API server, Deployment controller | |
| `MultiInstanceProofs`, `KonnectEntityProofs`, `KongClientProofs`, `ClientsManagerProofs`, `NodeAgentProofs`, `KonnectSyncProofs`, `BlueGreenProofs` | theorems and proofs | each extends the module of its name |
| `ControlPlaneProofs` | theorems and proofs | extends `ControlPlane` and `MultiInstanceProofs`, whose lemmas it uses |
| `MCMultiInstance`, `MCControlPlane`, `MCKonnectEntity`, `MCKongClient`, `MCClientsManager`, `MCNodeAgent`, `MCKonnectSync`, `MCBlueGreen` | small values for the constants, symmetry sets | |

### MultiInstance

Callers know an instance by its ID, goroutines by a pointer to the `instance`
struct: a handle.  A handle that nobody can reach any more may be allocated again, so
behaviours are unbounded although the sets are finite.  `instances`, `queue` and
`stopCh` are the manager's fields; `blocked` is the ID whose `ScheduleInstance` waits
in its channel send, with `instancesLock` held, so `LockFree` guards everything that
takes the lock.  `gpc`/`gid`/`gobj` are the program counter, argument and local
variable of a `runInstance` goroutine.  Its critical section, the `go in.Run`, the
registration of the diagnostics handler and the final `select` are separate steps
because other goroutines run in between.

### ControlPlane

Adds the objects (`obj`), the informer's copy (`cache`), the copy a Reconcile works
on (`view`), the Ready condition in the API server and in the cache, the work queue
(`dirty`).  Every call that Reconcile makes to the manager or the API server is a
step.  An Update succeeds only on the object that was read (resourceVersion); the
status patch carries no resourceVersion.  Between the finalizer and the readiness check
Reconcile can end in three ways.  A call fails or something is missing (a DataPlane, a
Service, a secret), which is an error and retried, or an extension is missing, for which
Reconcile returns without an error and waits for the watch (`ReconcileReturnsEarly`; `met`
says that everything is there, `PrerequisiteMet` is the event).  Or the options or
extensions of the spec are invalid: the status says so, Reconcile stops, and only another
spec starts it again (`ReconcileInvalid`).  Missing grants are no reason to return; they
keep Ready off.  The patches of other conditions write the whole list of conditions, with
the Ready of the copy (`WriteBack`).

### KonnectEntity

One namespace/name, whose object may be deleted and created again with another UID.
The informer follows a watch stream (`watch`), so a reconcile may start on a copy that
is several events old (`MaxLag`).  `view`/`eid` are Reconcile's copy and the Konnect
ID in it; the reference handlers patch conditions, and a patch that changes something
replaces the copy by the server's object (`Patched`).  Konnect is the set `alive` with
the UID label `tag` of each entity.  What differs between the types is the record
`kind`: whether names are unique in Konnect, whether `getKonnectIDForUID` supports
the type, whether Update is a PUT, whether the type checks its ID, whether there is a
parent control plane and whether that is a mirror.  Two history variables: `stale`, a
reconcile has started on an old copy, and `dropped`, a pending ID was dropped before the
informer's copy had it.

### KongClient

A configuration is a function from objects to what they render to; hashes are what
they are computed from.  `Update` holds a lock, so Updates do not overlap, but it is
split where it reads or writes shared things: fetching the last valid configuration,
the snapshot, the build, the two reads of the client set, one push per gateway, and
the evaluation of the result.  What a gateway is asked for at the start is converted from
a dump, which loses IDs, global plugins and routes without a service (`Convert`): the
content of an object may come back as it was, changed, or as something Kong rejects
(`Fetched`).  Dependencies belong to versions (`Uses`), so every cache has a graph of its
own (`CacheToGraph`): the fallback generator excludes by the graph of the current cache
and backfills by that of the last valid one.  `SubgraphObjects` is the least closed set.  Kong's validation is `Rejected`: it
rejects a configuration as a whole, and may or may not name the broken objects
(`RejectionKinds`).

### GatewayClients, ClientsManager

`ClientsManager` has the reconciler's work queue and `Cache`, the list its only worker
is blocked on in `Notify` (`offered`), and the manager's two maps.  A round of probes is
a step per client with the lock held (`loop = "probing"`); gateways may start and stop
between two probes.  `known` is a history variable, the last list received.
`GatewayClients` has the ready clients, whether a change has not been notified yet,
and the subscriber's channel.  The refinement mapping of `ImplementsGatewayClients` is
the identity but for `unnoticed <- changed \/ loop = "notify"`: a change is on its way
to the subscribers from the step that makes it to the end of the notification.  A
subscription that overlaps with a notification may or may not be seen by it, because
the loop reads the list of subscribers without the lock; both specifications call this
subscriber "racing".

### NodeAgent

Each goroutine's `updateNodes` is a record in `job`: where it is, the list of nodes it
read, the gateways it still has to handle, the nodes it is to delete next (`doomed`).
Every call to Konnect is a step, the creation or update of a node and each deletion after
it too.  A node is its host and an id; which of several nodes of a host has the latest
ping is left open, and so is what Konnect answers to the creation of a node that exists
or the update of one that is gone (`MayBeRefused`).  The controller's nodes are among
them: older ones of its own, and those of a controller with another name.
`seen` is a history variable: the clients the goroutine of the subscription read after
its last notification.

### KonnectSync

`flying` counts the goroutines of `UpdateKongState` that wait for the lock, by state;
`gatewayNotes` and `konnectNotes` the notifications under way, by value: neither has an
order.  Any upload may end in a server error, in a client error, or because there were
too many requests.  `Torn` is what Konnect has after an upload that was applied in part.
History variables: `torn`, a failed upload has changed Konnect since the hash was set, and
`refused`, the configurations of which an upload ended in a client error.
`fallback` is the FallbackConfiguration feature, with which `Update` does not repeat a
hand-over once all is in sync.

### BlueGreen

One DataPlane.  Each call of a reconcile to the API server is a step on `copy`, the
object the reconcile works on; patches are merge patches without a resourceVersion, and
the answer replaces the copy, newer spec included.  `queued` is the work queue: every
return without a requeue relies on the event of something that was written, and the
model queues the object only if something was.  A Deployment is named by the selector
of its Pods, its template by the generation it was made from; `pods` is the generation
of the Pods that the status counts, which lags behind the template.  Selectors are
numbered in the order they are drawn, which also orders Deployments by age.

## 3. Runs

Every run needs about two minutes or less on two cores.

| run | shows | bounds |
|---|---|---|
| `multi_instance` | an instance is started once; none is forgotten; at most one instance of an ID was not told to stop; validators and diagnostics handlers agree with the map | 2 IDs, 3 handles, 2 goroutines, queue of 1: the queue fills up, an ID is scheduled again while its predecessor winds down |
| `control_plane_restart` | the finalizer leaves no instance behind, deletions complete and `StopInstance` takes effect, whatever restarts or fails | 1 restart, 1 prerequisite lost, 2 handles, 1 spec, failing instances, updates and patches |
| `control_plane_liveness` | Ready is never turned on while another configuration is in the map; an instance with an outdated configuration does not stay, unless the spec is invalid | 2 valid specs and an invalid one, 2 edits (or a deletion), 1 handle, failing patches |
| `konnect_entity` | no orphan, no duplicate, no abandoned entity | 2 UIDs, 3 Konnect IDs, both kinds of names, lag of 2 events, 1 each of failed call, lost response, restart, foreign deletion |
| `konnect_entity_liveness` | deletion completes; a missing entity comes back | 1 UID, 3 IDs, types recreated under another ID, the same events and one return of the parent; reconciles on current copies (`MaxLag` 0) |
| `kong_client` | the client hashes tell the truth; the last valid configuration is acceptable; Konnect sees only what was applied; the gateways converge, also after a restart of the controller | 2 gateways (one joins), 1 object with a good, a broken and an empty version, a fetch that may change the good one; any three of: crash, failure, lost answer, join, leave, restart |
| `kong_client_fallback` | broken objects take only dependants along; what is served is kept | 1 gateway, no faults; a chain of 3 objects, one breaks, one is deleted and comes back, one refers to it or not |
| `clients_manager` | no address is lost or kept between EndpointSlices and clients; the ready clients converge; `GatewayClients` is implemented | 2 EndpointSlices, 2 addresses, 2 changes, 1 gateway that starts or stops answering, 1 parse error |
| `node_agent` | no change of the clients is missed; the nodes converge | 1 gateway with an old and a current node, an old node of the controller and one of another controller; 2 changes of the clients, 1 of the status, 1 failed call; the updates of the three goroutines may overlap |
| `konnect_sync` | the hash tells the truth; Konnect and the status converge | 2 contents, 3 changes between them, 1 goroutine under way per value, 1 failed update, 1 failed upload |
| `blue_green` | traffic is served; a promotion was asked for; a rollout completes | 3 generations, 5 selectors, 2 promotions, 2 failed calls, 1 failure of Pods |
| `blue_green_staged` | a disagreement, section 5 | 3 generations, 1 promotion, no failure |

Why the bounds are enough: every interesting interleaving is between two actors (two
goroutines of one ID, an object and its successor, one gateway that has a
configuration and one that has not, a rollout and the next), and each kind of fault is
there once, at any moment, together with each other kind (in `kong_client` any three kinds
together).  `control_plane_liveness` bounds the edits because a spec that changes for ever
has nothing to settle on.  More faults of a kind are covered by the theorems where there
are any.  Every property has a mutant of the code that breaks
it within these bounds.

Runs whose cfg says `CHECK_DEADLOCK FALSE` may really stop: after the context is
cancelled nothing is left to do in `MultiInstance`; a ControlPlane that is gone is not
created again; a node agent whose initial update failed starts nothing; without a
Konnect client nothing is uploaded; a rollout that is done waits for the user.

### Fairness

* `CPFairness`: events reach the informer, a queued object is reconciled, runnable
  goroutines run (weak fairness).  Strong fairness for the steps that a transient
  error or a held lock can disable for a while but not for ever: the finalizer
  updates, the readiness check and scheduling (controller-runtime retries with
  backoff; the check is not enabled for an invalid spec or while something is missing,
  and what is missing comes by weak fairness of `PrerequisiteMet`, whose event the
  watches deliver), and the sections of `runInstance` that need `instancesLock` (a Go mutex
  is starvation free).  `CPReadySpec` adds that instances are elected and get their
  first configuration applied; only `OutdatedInstanceReplaced` needs it.
* `KonnectEntity!Fairness`: events arrive, a queued object is reconciled to the end
  of the reconcile, and the requeue after the sync period makes `ops.Update` happen
  again and again.  Faults are bounded and not fair.
* `KongClient!Fairness`: the ticker ticks and an Update runs to its end; the
  controllers bring every object into the cache.
* `ClientsManager!FairSpec`: worker, loop, probes (they time out) and timer go on, the
  subscriber empties its channel; strong fairness for `Receive`, since Go's `select`
  does not ignore one of its ready cases for ever.
* `NodeAgent!FairSpec`: goroutines run to the end of their updates, the ticker fires,
  the manager notifies.  Only the ticker repairs what overlapping updates undid.
* `KonnectSync!FairSpec`: tickers fire, goroutines get the lock, uploads end, backoffs
  elapse; strong fairness for the arrival of a status: the agent does not miss every
  one of the notifications that are repeated for ever.
* `BlueGreen!FairSpec`: a queued DataPlane is reconciled, a reconcile runs to its end,
  and Kubernetes brings the Pods of a Deployment up.  The user is not fair.

## 4. Proofs

TLAPS proves the following for all values of the constants, from the named ASSUMEs of
the modules only: that the bounds are naturals (the queue holds at least one entry), that
`None` and the like are none of the values they stand beside, that the tables are
functions of their type, and that there is a configuration a ControlPlane may have
(`ConfigsAssumption`).  The bounds on faults, edits, IDs and gateways are arbitrary, so
the theorems cover the behaviours beyond those of the runs.  Every safety property of a
passing run is a theorem.

Each module follows one pattern: an invariant in named parts, a lemma per action (or
per part) that shows it is kept, and one theorem per property.  The parts were
model-checked before they were proved.

`MultiInstanceProofs`: `TypeCorrect` (the queue bound included), `RunsOnce`,
`OneUnstopped`, `RegistriesAgree`, `DiagnosticsAgree`, `NothingForgotten`.  None of the
properties is inductive.  The argument is about tokens: an ID in the map has at most one
token, which is a blocked send, an entry of the queue, or a `runInstance` goroutine, and
an ID that is not in the map has none.  `IInv` says that (queue entries are distinct; a
token has an instance; blocked sends, queue entries and goroutines exclude each other),
and that the instance a goroutine is about to start was not started, and that what is
registered belongs to the instance in the map.  `NothingForgotten` is the other
direction: until shutdown, a token is given up only together with its map entry.

`ControlPlaneProofs`: `CPTypeCorrect`, `GoneHasNoInstance`, `ReadyForReadSpec`,
`DrivenManagerSafe`.  `CPInv` is `IInv` of the manager, which the reconciler's calls keep
because they are the manager's own actions, and five parts of its own.  The copies, of
the informer and of a reconcile, trail the object: phases go one way only, so a copy
knows less and never something else.  An instance that was not told to stop has the
finalizer on its object, and has not when the finalizer is about to be removed; that is
what makes a stale copy harmless, since the update that would follow from it conflicts.

`KonnectEntityProofs`: `EntityTypeCorrect`, `EntitiesNotAbandoned`,
`EntitiesNotDuplicated`, `EntitiesNotOrphaned`.  `StepKnows` says what each step of a
reconcile may assume of the ID in its copy; `UniqueAlive` that unique names allow one
entity, the one in memory; `CopyCurrent` how far a copy may lag while no reconcile starts
on an old one.  On these rest three more invariants.  `EntityKnown`, for equal names: the
pending ID, else the status, names the only entity that carries the UID.  `OneID`, for
old copies of an object that was not deleted: only one ID is ever given out, because once
a version of the object has the ID all later ones do (`IDStays`), and a copy without it
is met only while the memory has it (`CopyKnows`).  `Tracked`, for
orphans: the finalizer comes before the ID and stays as long as there is an entity, and
the status, the memory or the UID leads to it.

`KongClientProofs`:
* `TypeCorrect`: in particular a pushed configuration is never a missing one.
* `SHAIsTruth`: until an answer is lost, the hash of a client is that of what its
  gateway runs.  The invariant is stated for all gateways, also those without a
  client, since a gateway may come back.
* `LastValidAccepted`: once a push has ended well, and until a client leaves, the
  configuration stored for the recovery is one that was accepted.  `ValidInv` adds that
  nothing rejected is running or recorded in a hash, that a push that ends without error
  has reached a gateway, and that a configuration is fetched only before the first such
  push (`FetchedBefore`).  Nothing is claimed of the fetched one, nor can it be.
* `KonnectToldApplied` (action property; assumes a client at the start): `PushRecorded`
  says that such a push is recorded for a gateway that still has the same client.
* `LastValidCacheSynced`: `Preserved` follows an Update from its snapshot to the result:
  what is pushed is the translation of the builder's cache, and a push on an unchanged
  cache, for which there is no snapshot, only repeats one that was rejected, so it
  cannot become the last valid one.
* `ServedKept` (action property; assumes that both fallback features are on and that no
  version renders to nothing): `SeenInCache` says that an object reaches a gateway through
  the builder's cache and leaves the cache only when it is deleted; `RunsPushed` that a
  gateway runs the last valid configuration or, during a push, the one being pushed.
  `BackfillingKeeps` is the lemma about the fallback generator: whatever is excluded, an
  object that is in both the snapshot and the last valid one is in the result.

`ClientsManagerProofs`: `MatchesDiscovery`, for which a blocked `Notify` must hold the
whole Cache, and `ManagerImplementsGatewayClients`, the refinement: every step of the
manager is a step of `GatewayClients` or leaves its variables alone, since a change is
remembered only while probes are under way.

`NodeAgentProofs`: `NoChangeMissed`.  The node agent extends `GatewayClients`, so by the
refinement this also holds on top of the real manager.

`KonnectSyncProofs`: `SHAIsTruth`.

`BlueGreenProofs`: `TypeCorrect`, `PromotionsRequested`, `TrafficKept`.
* `RolloutInv` says what holds between any two calls of a reconcile: the copy has what the
  reconcilers wrote (`CopyFollows`); the one preview has the selector of the rollout
  (`Named`); which calls see one live Deployment and which see two (`Positions`); the
  decision to promote is not taken for a generation that is live (`Decided`); and
  while a promotion is unfinished the Ready condition is behind the generation, which
  keeps the DataPlane reconciler from touching the Deployments (`Held`).
* `PromotionsRequested` adds an account: a request is open while the annotation is there
  and no promotion is under way that will reset it; promotions plus the open request
  are never more than the requests.  A promotion that is interrupted keeps the annotation
  and is taken up again, which is why `Held` is needed.
* `TrafficKept` is an action property.  `TrafficInv` adds that the live ingress Service
  has the live selector or will get it (`Selected`), that the preview taken over has
  replicas and keeps them (`Backed`, by `Behind`), and that of two live Deployments the
  promoted one is the newest (`Newest`), so that `reduceLiveDeployments` deletes the other.

Only model-checked: all liveness properties, and with them the fairness, because the
prover handles neither fairness nor `ENABLED`; and the disagreement of section 5.

## 5. Disagreements and exceptions

One claim is refuted by a run:

* `blue_green_staged`: `BreakBeforePromotion` is to hold every change back until the
  user promotes it.  A spec edited during the last calls of a promotion is taken for
  the promoted one: the patch that clears the rollout selector returns the newer
  object, `PromotionDone` and then `Ready` are set at its generation, and the reconciler
  delegates to the DataPlane reconciler, which changes the live Deployment in place.

Others the models reach as well; the properties below leave them out:

* A ControlPlane spec that is changed and reverted while the stopped instance is still
  in the map finds an instance that is ready and has the wanted hash; the instance then
  goes, and nothing schedules another one (`controlplane/controller.go:389`).
* The pending Konnect ID is kept "so a stale cache cannot drive a duplicate create".  A
  reconcile that starts on an old copy and patches a condition goes on with the server's
  object; that has the ID, and the pending one is dropped although the informer's copy has
  not got it.  The next reconcile, on that copy, creates a second entity
  (`konnect/reconciler_generic.go:888`).
* The reconcile of a deletion runs ahead of the informer in the same way; the next
  reconcile reads a copy older than the deletion and creates the Konnect entity again
  (`konnect/reconciler_generic.go:649`).
* A patch of another condition of a ControlPlane writes the Ready of an older copy back,
  until the next status patch corrects it (`controller/pkg/patch/statuscondition.go:147`).
* The push that replaces the initial empty configuration counts as a successful push, so
  the next tick on a still empty cache empties the gateways
  (`dataplane/kong_client.go:819`).

The other properties state conditions.  Each condition excludes a case that the model
reaches and the code does not handle; to see the trace, drop the condition:

* `MultiInstance`: an instance stopped before `runInstance` registers its diagnostics
  handler leaves the handler behind (so `DiagnosticsServeRunning` is about running
  instances), and a stopped manager may still wind down while its successor runs (so
  `OneUnstoppedPerID` is about instances not told to stop).
* `OutdatedInstanceReplaced` assumes that instances become ready: the hash is compared
  only for an instance that is ready.  And that the spec is valid: with invalid options or
  extensions Reconcile stops before it looks at the instance, so that the one of the spec
  before goes on, and with it the Ready condition.  `NotReadyForOtherSpec` is about the
  status patch that follows the comparison, not about the patches of other conditions.
* `NoOrphan`: not on stale copies, not under a mirrored control plane (its entities stay)
  or one that was made anew; for types updated with PUT that do not check their ID, since
  an entity created again inside `ops.Update` has its ID only in the copy, and a
  conflicting status update loses it; after a lost response or a restart only for unique
  names that can be looked up and are not reused.
* `NoDuplicate`: not after a lost response or a restart, and for types updated with PUT or
  with unique names, for the same reason.  On stale copies only for an object that is not
  deleted and is the first of its name, and only as long as no pending ID was dropped
  before the informer had it (see above).
* `EntityRealised` is checked for types that do not read their ID back: for those that
  do, a dead ID that is still pending is restored for ever.
* `SHATellsTruth` until an answer is lost: the gateway then runs a newer configuration
  than the client's hash says.  `Converges` excepts, after a lost answer, a gateway whose
  hash is that of the wanted configuration: when the objects go back to it, by an edit, a
  deletion or a restart that empties the cache, the push is skipped for ever.
* `Converges` also excepts an empty configuration that is held back for a fetched one
  (`shouldSkipInitialEmptyConfigPush`) which the conversion has made unacceptable.
* `LastValidIsAcceptable` and `KonnectSeesApplied` until a client leaves: a push to nobody
  succeeds.  `LastValidIsAcceptable` from the first successful push on: a fetched
  configuration was not accepted in the form in which it is stored.  `LastValidConfig`
  also puts the latest license into the stored configuration, which an invalid license
  makes invalid, as its comment says; licenses are not modelled.
* `Converges` is checked without FallbackConfiguration: with it, `Update` returns early
  when the cache hashes agree, before it would notice that a gateway has lost its
  configuration, or that the last valid configuration was pushed instead of the empty
  one.
* `UnaffectedServed` counts as affected what any version has made depend on the broken
  object: backfilling follows the graph of the last valid cache (`fallback.go:111`), so an
  object whose reference was edited away, or whose link to the broken one was deleted, is
  overwritten by its old version, and deleted dependants come back.
* `UnaffectedServed` is checked without transport failures and with a gateway at the
  start: the snapshot is taken only when the cache has changed, so after one failed
  push of a cache, or one tick without gateways, there is nothing to generate the
  fallback configuration from until an object changes.
* `LastValidCacheWasSynced` and `NeverDropsServed` are about undisturbed runs: a push that is tried again, or one to
  a gateway that joins, is made from an unchanged cache and replaces the last valid
  snapshot by empty stores; after a restart the fetched configuration is pushed in place
  of an empty one; a push to nobody succeeds.
* `ClientsConverge` once there was a notification: when every EndpointSlice is empty or
  gone before its first reconcile there is none, and the clients made at startup stay.
* `NodesConverge` unless the initial update failed: no goroutine is started then.
* `KonnectConverges` has three exceptions.  A configuration whose last upload ended in a
  client error other than too many requests: it is given up until it changes, even if the
  reason was transient (`backoff_strategy_konnect.go:133`), and the status says that
  Konnect is out of sync.  After
  an upload that failed in part, a return to the configuration uploaded before: its hash
  is still recorded, so it is not uploaded again, and the status says that all is well.
  With FallbackConfiguration, a hand-over overtaken by an older one: it is not repeated.
  For the same reason a dropped gateway status stays wrong there.
* `RolloutCompletes` names three states that the reconciler does not leave (`Stuck`).  A
  failure between labelling the preview live and deleting the old Deployment leaves two
  live Deployments, with which `ensureDataPlaneReadyStatus` only requeues.  A spec edited
  before the first live Deployment exists (to correct an image, say) is not delegated,
  because the Ready condition has the old generation, and `ensureDataPlaneReadyStatus`
  indexes an empty list from the second time on.  A rollout removed after the live
  selector was overridden: `prunePreviewSubresources` deletes the preview that the live
  Services select, and the live Deployment does not accept a template with the new
  selector.
* `TrafficServed` is about a configured rollout, for the last of these reasons, and about
  replicas, not readiness: the status of a Deployment's old Pods counts until its
  controller has seen the update, as no observedGeneration is compared.

## 6. Plan

Done: `MultiInstance`, `ControlPlane`, `KonnectEntity`, `KongClient`, `GatewayClients`
with `ClientsManager` and `NodeAgent`, `KonnectSync`, `BlueGreen`, and proofs about each.
Next, in this order:

1. Proofs: the steps of a rollout that lead to the disagreement of section 5, as the
   weakest condition under which `LiveOnlyStaged` holds.
2. `FallbackGraph`: the depth-first search of `SubgraphObjects` and the generators
   against the least-closed-set definition used here, over all small graphs.
3. DB-backed gateways and status reports in `KongClient`.
4. `GatewayCleanup`: order of the cleanup of a Gateway.

## 7. Not modelled

Translation of objects to Kong entities, deck generation, generated reconcilers and SDK
operations, webhook validation, telemetry, charts, CLI, API types and the CRD generator:
pure functions, output or generated code, which is most of the repository's lines
(`Renders` stands for the translation).  In the modelled parts: adoption of existing
Konnect entities, singletons and mirrored entities, references other than the one to the
control plane, licenses, metrics and events, diagnostics dumps, reverse sync, DB-backed
gateways, shutdown of the clients manager, certificates, extensions, plugin
installations, autoscaling and disruption budgets of a DataPlane, and the lag of the
informer in `BlueGreen`.
