---------------------------- MODULE ClientsManager ----------------------------
(***************************************************************************)
(* Gateway discovery: KongAdminAPIServiceReconciler                        *)
(* (controllers/configuration/kongadminapi_controller.go) turns the        *)
(* EndpointSlices of the Admin API service into a list of addresses, and   *)
(* AdminAPIClientsManager (clients/manager.go, clients/readiness.go) keeps *)
(* a client for every address: ready when its gateway answers, pending     *)
(* when it does not.                                                       *)
(*                                                                         *)
(* Three goroutines meet here.  The only worker of the reconciler blocks   *)
(* in Notify until the manager's loop takes the list, the channel being    *)
(* unbuffered.  The loop probes the gateways with the lock held, while     *)
(* they come and go, and blocks on a subscriber whose channel (of one      *)
(* place) is full.  The subscriber reads the ready clients under the lock. *)
(*                                                                         *)
(* Left out: the shutdown, and clients without a pod reference, which are  *)
(* never demoted (only a static list of gateways has them).                *)
(***************************************************************************)
EXTENDS Naturals

CONSTANTS Slices,       \* EndpointSlices of the Admin API service
          Addrs,        \* addresses of gateways
          InitialSlices, \* addresses each lists at first
          Absent,       \* no such EndpointSlice, no such entry in the cache
          None,
          MaxSliceChanges, \* bounds: changes of the EndpointSlices,
          MaxFlips,        \*   gateways that start or stop answering,
          MaxParseErrors   \*   EndpointSlices that cannot be parsed

ASSUME SlicesAssumption == InitialSlices \in [Slices -> SUBSET Addrs]
ASSUME AbsentAssumption == \A l \in SUBSET Addrs : Absent # l /\ None # l
ASSUME DiscoveryBoundsAssumption ==
  MaxSliceChanges \in Nat /\ MaxFlips \in Nat /\ MaxParseErrors \in Nat

VARIABLES
  slices,    \* the EndpointSlices in the API server
  queue,     \* the reconciler's work queue
  cache,     \* its Cache
  offered,   \* the list Notify is blocked on; None: the worker is free
  up,        \* gateways that answer
  ready, pending, \* readyGatewayClients, pendingGatewayClients
  loop,      \* where gatewayClientsReconciliationLoop is; "probing" holds the lock
  changed,   \* clientsChanged || readinessChanged
  answers,   \* outcome of the probes of this round
  subscriber, \* "none", "subscribed", or "racing": appended while the loop, which
             \*   does not take the lock for it, may already be past the read
  signal,    \* the subscriber's channel holds a notification
  known,     \* the last list the manager received; None: none yet
  sliceChanges, flips, parseErrors

discoveryVars == <<slices, queue, cache, offered>>
managerVars   == <<ready, pending, loop, changed, answers>>
subVars       == <<subscriber, signal>>
envVars       == <<up, sliceChanges, flips, parseErrors>>
vars == <<discoveryVars, managerVars, subVars, envVars, known>>

Lists == SUBSET Addrs

TypeOK ==
  /\ slices \in [Slices -> {Absent} \cup Lists]
  /\ queue \in SUBSET Slices
  /\ cache \in [Slices -> {Absent} \cup Lists]
  /\ offered \in {None} \cup Lists /\ known \in {None} \cup Lists
  /\ up \in Lists /\ ready \in Lists /\ pending \in Lists
  /\ loop \in {"select", "probing", "notify"}
  /\ changed \in BOOLEAN
  /\ answers \in [Addrs -> {"waiting", "ok", "failed", "unasked"}]
  /\ subscriber \in {"none", "racing", "subscribed"} /\ signal \in BOOLEAN
  /\ sliceChanges \in 0..MaxSliceChanges /\ flips \in 0..MaxFlips
  /\ parseErrors \in 0..MaxParseErrors

\* The addresses in a map of EndpointSlices, flattenDiscoveredAdminAPIs.
Flatten(m) == UNION {m[s] : s \in {x \in Slices : m[x] # Absent}}

NoAnswers == [a \in Addrs |-> "unasked"]

\* NewAdminAPIClientsManager gets the clients of the gateways that answered at startup.
Init ==
  /\ slices = InitialSlices /\ queue = Slices
  /\ cache = [s \in Slices |-> Absent] /\ offered = None
  /\ up \in SUBSET Flatten(InitialSlices)
  /\ ready \in SUBSET up \ {{}} /\ pending = {}
  /\ loop = "select" /\ changed = FALSE /\ answers = NoAnswers
  /\ subscriber = "none" /\ signal = FALSE
  /\ known = None
  /\ sliceChanges = 0 /\ flips = 0 /\ parseErrors = 0

-----------------------------------------------------------------------------
(* Kubernetes and the gateways.                                            *)

\* An EndpointSlice is created, changed or deleted; its event is queued.
SliceChange(s, l) ==
  /\ sliceChanges < MaxSliceChanges
  /\ l # slices[s]
  /\ slices' = [slices EXCEPT ![s] = l]
  /\ queue' = queue \cup {s}
  /\ sliceChanges' = sliceChanges + 1
  /\ UNCHANGED <<cache, offered, managerVars, subVars, known, up, flips, parseErrors>>

Flip(a) ==
  /\ flips < MaxFlips
  /\ up' = IF a \in up THEN up \ {a} ELSE up \cup {a}
  /\ flips' = flips + 1
  /\ UNCHANGED <<discoveryVars, managerVars, subVars, known, sliceChanges, parseErrors>>

-----------------------------------------------------------------------------
(* KongAdminAPIServiceReconciler.Reconcile, its worker.                    *)

\* The entry of an EndpointSlice is added, replaced or removed and everything
\* in the Cache offered; an entry that stays the same is not.
Reconcile(s) ==
  /\ s \in queue /\ offered = None
  /\ queue' = queue \ {s}
  /\ cache' = [cache EXCEPT ![s] = slices[s]]
  /\ offered' = IF cache[s] = slices[s] THEN None ELSE Flatten(cache')
  /\ UNCHANGED <<slices, managerVars, subVars, known, envVars>>

\* The discoverer cannot parse the EndpointSlice: the request is queued again.
\* Without an entry the result, an empty set, was assigned to the Cache already.
ReconcileFails(s) ==
  /\ s \in queue /\ offered = None /\ slices[s] # Absent
  /\ parseErrors < MaxParseErrors
  /\ parseErrors' = parseErrors + 1
  /\ cache' = [cache EXCEPT ![s] = IF @ = Absent THEN {} ELSE @]
  /\ UNCHANGED <<slices, queue, offered, managerVars, subVars, known, up, sliceChanges, flips>>

-----------------------------------------------------------------------------
(* AdminAPIClientsManager.                                                 *)

\* reconcileGatewayClientsReadiness takes the lock and CheckReadiness starts
\* a probe for every client; without any it returns false at once.
StartReadiness(rdy, pnd, ch) ==
  IF rdy \cup pnd = {}
  THEN /\ loop' = IF ch THEN "notify" ELSE "select"
       /\ changed' = FALSE
       /\ UNCHANGED answers
  ELSE /\ loop' = "probing"
       /\ changed' = ch
       /\ answers' = [a \in Addrs |-> IF a \in rdy \cup pnd THEN "waiting" ELSE "unasked"]

\* Mutant: pending clients that are not listed any more stay.
AdjustPendingKeeping(l) == pending \cup (l \ ready)

\* Mutant: only pending clients that go are reported as a change.
AdjustChangedByPending(l) == ~(pending \subseteq l)

\* adjustGatewayClients; a new pending client is not yet a change.
AdjustReady(l) == ready \cap l
AdjustPending(l) == (pending \cap l) \cup (l \ ready)
AdjustChanged(l) == ~(ready \cup pending \subseteq l)

\* onDiscoveredAdminAPIsNotification
Receive ==
  /\ loop = "select" /\ offered # None
  /\ offered' = None /\ known' = offered
  /\ ready' = AdjustReady(offered)
  /\ pending' = AdjustPending(offered)
  /\ StartReadiness(ready', pending', AdjustChanged(offered))
  /\ UNCHANGED <<slices, queue, cache, subVars, envVars>>

\* onReadinessReconciliationTick
Tick ==
  /\ loop = "select"
  /\ StartReadiness(ready, pending, FALSE)
  /\ UNCHANGED <<discoveryVars, ready, pending, subVars, known, envVars>>

\* checkAlreadyCreatedClient and checkPendingClient, a goroutine per client.
Probe(a) ==
  /\ loop = "probing" /\ answers[a] = "waiting"
  /\ answers' = [answers EXCEPT ![a] = IF a \in up THEN "ok" ELSE "failed"]
  /\ UNCHANGED <<discoveryVars, ready, pending, loop, changed, subVars, known, envVars>>

\* Mutant: clients are not demoted.
NoneTurnedPending == {}

TurnedReady == {a \in pending : answers[a] = "ok"}
TurnedPending == {a \in ready : answers[a] = "failed"}

\* All probes are in: the clients change places and the lock is released.
ReadinessDone ==
  /\ loop = "probing" /\ \A a \in Addrs : answers[a] # "waiting"
  /\ ready' = (ready \cup TurnedReady) \ TurnedPending
  /\ pending' = (pending \ TurnedReady) \cup TurnedPending
  /\ loop' = IF changed \/ TurnedReady \cup TurnedPending # {} THEN "notify" ELSE "select"
  /\ changed' = FALSE /\ answers' = NoAnswers
  /\ UNCHANGED <<discoveryVars, subVars, known, envVars>>

\* notifyGatewayClientsSubscribers: blocks while the channel is full, and does
\* not take the lock to read the list of subscribers.
NotifySubscribers ==
  /\ loop = "notify"
  /\ \/ subscriber = "subscribed" /\ ~signal /\ signal' = TRUE
     \/ subscriber = "racing" /\ signal' \in {signal, TRUE}
     \/ subscriber = "none" /\ UNCHANGED signal
  /\ subscriber' = IF subscriber = "none" THEN "none" ELSE "subscribed"
  /\ loop' = "select"
  /\ UNCHANGED <<discoveryVars, ready, pending, changed, answers, known, envVars>>

\* SubscribeToGatewayClientsChanges waits for the lock.
Subscribe ==
  /\ subscriber = "none" /\ loop # "probing"
  /\ subscriber' = IF loop = "notify" THEN "racing" ELSE "subscribed"
  /\ UNCHANGED <<discoveryVars, managerVars, signal, known, envVars>>

\* The subscriber receives from its channel.
TakeSignal ==
  /\ signal /\ signal' = FALSE
  /\ UNCHANGED <<discoveryVars, managerVars, subscriber, known, envVars>>

Next ==
  \/ \E s \in Slices, l \in {Absent} \cup Lists : SliceChange(s, l)
  \/ \E a \in Addrs : Flip(a)
  \/ \E s \in Slices : Reconcile(s)
  \/ \E s \in Slices : ReconcileFails(s)
  \/ Receive
  \/ Tick
  \/ \E a \in Addrs : Probe(a)
  \/ ReadinessDone
  \/ NotifySubscribers
  \/ Subscribe
  \/ TakeSignal

Spec == Init /\ [][Next]_vars

\* The worker, the loop, the probes (they have a timeout) and the timer go on,
\* the subscriber empties its channel, and select does not ignore one of its
\* cases for ever.
FairSpec ==
  /\ Spec
  /\ \A s \in Slices : WF_vars(Reconcile(s))
  /\ SF_vars(Receive) /\ WF_vars(Tick)
  /\ \A a \in Addrs : WF_vars(Probe(a))
  /\ WF_vars(ReadinessDone) /\ WF_vars(NotifySubscribers) /\ WF_vars(TakeSignal)

-----------------------------------------------------------------------------
(* Correctness.                                                            *)

\* No address is lost or kept between the EndpointSlices and the clients,
\* however notifications, probes and ticks interleave: once the manager has
\* received a list it has exactly one client for each of its addresses, and
\* when Notify is not blocked that list is all that is in the Cache.
ClientsMatchDiscovery ==
  /\ ready \cap pending = {}
  /\ known # None => ready \cup pending = known
  /\ known # None /\ offered = None => known = Flatten(cache)

\* Once Kubernetes and the gateways are quiet, the gateways that answer and
\* are listed, and no others, are the ones that get configuration.  This needs
\* a first notification, and there is none when every EndpointSlice is empty
\* or gone before it is reconciled: the clients created at startup then stay.
ClientsConverge ==
  <>[](known # None => ready = Flatten(slices) \cap up /\ pending = Flatten(slices) \ up)

\* The manager keeps its promise to subscribers: the ready clients never change
\* without a notification to come, and that comes after the change.
Clients == INSTANCE GatewayClients WITH unnoticed <- changed \/ loop = "notify"
ImplementsGatewayClients == Clients!ClientsSpec
=============================================================================
