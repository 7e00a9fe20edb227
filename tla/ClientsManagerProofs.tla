------------------------ MODULE ClientsManagerProofs ------------------------
(***************************************************************************)
(* Proofs about ClientsManager, for any EndpointSlices and gateways and    *)
(* any number of changes, flips and parse errors.                          *)
(*                                                                         *)
(* The list Notify is blocked on is all that is in the Cache, since the    *)
(* only worker waits with it; so whatever the loop does between two lists  *)
(* it has a client for every address of the last one.  And what the loop   *)
(* changed is either still to be reported (changed, or loop = "notify") or *)
(* was reported, which makes it an implementation of GatewayClients.       *)
(***************************************************************************)
EXTENDS ClientsManager, TLAPS

\* While Notify is blocked it offers the whole Cache.
OfferedIsCache == offered # None => offered = Flatten(cache)

\* A change is remembered in `changed` only while the probes are under way.
ChangedWhileProbing == loop # "probing" => ~changed

\* The inductive invariant.
DiscoveryInv ==
  /\ TypeOK
  /\ ClientsMatchDiscovery
  /\ OfferedIsCache
  /\ ChangedWhileProbing

-----------------------------------------------------------------------------
(* Flattening.                                                             *)

\* An address is in the flattened map if some EndpointSlice lists it.
LEMMA FlattenElements ==
  ASSUME NEW m
  PROVE  \A a : a \in Flatten(m) <=> \E s \in Slices : m[s] # Absent /\ a \in m[s]
  BY DEF Flatten

\* Only addresses are in a flattened map of lists.
LEMMA FlattenType ==
  ASSUME NEW m \in [Slices -> {Absent} \cup Lists]
  PROVE  Flatten(m) \in Lists
  <1>1. \A a : a \in Flatten(m) => a \in Addrs
    BY FlattenElements DEF Lists
  <1>2. QED BY <1>1 DEF Lists

\* An empty entry adds no address.
LEMMA FlattenEmptyEntry ==
  ASSUME NEW m \in [Slices -> {Absent} \cup Lists], NEW s \in Slices, m[s] = Absent,
         NEW n, n = [m EXCEPT ![s] = {}]
  PROVE  Flatten(n) = Flatten(m)
  <1>1. \A a : a \in Flatten(n) <=> a \in Flatten(m)
    <2>1. \A t \in Slices : n[t] = IF t = s THEN {} ELSE m[t]
      OBVIOUS
    <2>2. \A a : a \in Flatten(n) <=> \E t \in Slices : n[t] # Absent /\ a \in n[t]
      BY FlattenElements
    <2>3. \A a : a \in Flatten(m) <=> \E t \in Slices : m[t] # Absent /\ a \in m[t]
      BY FlattenElements
    <2>4. QED BY <2>1, <2>2, <2>3
  <1>2. QED BY <1>1

-----------------------------------------------------------------------------
(* The invariant.                                                          *)

\* At startup there are clients of the gateways that answered, and no list.
LEMMA InitInv == Init => DiscoveryInv
  <1> SUFFICES ASSUME Init PROVE DiscoveryInv
    OBVIOUS
  <1>1. /\ InitialSlices \in [Slices -> {Absent} \cup Lists]
        /\ Flatten(InitialSlices) \in Lists
    BY SlicesAssumption, FlattenType DEF Lists
  <1>2. up \in Lists /\ ready \in Lists /\ pending \in Lists
    BY <1>1 DEF Init, Lists
  <1>3. TypeOK
    <2>1. 0 \in 0..MaxSliceChanges /\ 0 \in 0..MaxFlips /\ 0 \in 0..MaxParseErrors
      BY DiscoveryBoundsAssumption
    <2>2. answers \in [Addrs -> {"waiting", "ok", "failed", "unasked"}]
      BY DEF Init, NoAnswers
    <2>3. QED BY <1>1, <1>2, <2>1, <2>2 DEF Init, TypeOK
  <1>4. ClientsMatchDiscovery /\ OfferedIsCache /\ ChangedWhileProbing
    BY DEF Init, ClientsMatchDiscovery, OfferedIsCache, ChangedWhileProbing
  <1>5. QED BY <1>3, <1>4 DEF DiscoveryInv

\* None is not a list.
LEMMA NoneNoList == ASSUME NEW l \in Lists PROVE l # None /\ l # Absent
  BY AbsentAssumption DEF Lists

\* The worker changes the Cache and offers what it has become.
LEMMA ReconcileInv ==
  ASSUME DiscoveryInv, NEW s \in Slices, Reconcile(s) \/ ReconcileFails(s)
  PROVE  DiscoveryInv'
  <1> USE DEF DiscoveryInv
  <1>1. /\ offered = None /\ known' = known
        /\ UNCHANGED <<slices, managerVars, subVars, up>>
        /\ sliceChanges' = sliceChanges /\ flips' = flips
    BY DEF Reconcile, ReconcileFails, envVars
  <1>2. CASE Reconcile(s) /\ cache[s] = slices[s]
    <2>1. cache' = cache /\ offered' = None /\ queue' = queue \ {s} /\ parseErrors' = parseErrors
      BY <1>2 DEF Reconcile, TypeOK, envVars
    <2>2. QED
      BY <1>1, <2>1
      DEF TypeOK, ClientsMatchDiscovery, OfferedIsCache, ChangedWhileProbing, managerVars, subVars
  <1>3. CASE Reconcile(s) /\ cache[s] # slices[s]
    <2>1. /\ cache' = [cache EXCEPT ![s] = slices[s]] /\ offered' = Flatten(cache')
          /\ queue' = queue \ {s} /\ parseErrors' = parseErrors
      BY <1>3 DEF Reconcile, envVars
    <2>2. cache' \in [Slices -> {Absent} \cup Lists]
      BY <2>1 DEF TypeOK
    <2>3. Flatten(cache') \in Lists /\ Flatten(cache)' = Flatten(cache')
      BY <2>2, FlattenType DEF Flatten
    <2>4. offered' # None /\ offered' = Flatten(cache)'
      BY <2>1, <2>3, NoneNoList
    <2>5. TypeOK'
      BY <1>1, <2>1, <2>2, <2>3 DEF TypeOK, managerVars, subVars
    <2>6. QED
      BY <1>1, <2>4, <2>5
      DEF ClientsMatchDiscovery, OfferedIsCache, ChangedWhileProbing, managerVars
  <1>4. CASE ReconcileFails(s)
    <2>1. /\ cache' = [cache EXCEPT ![s] = IF cache[s] = Absent THEN {} ELSE cache[s]]
          /\ offered' = offered /\ queue' = queue
          /\ parseErrors < MaxParseErrors /\ parseErrors' = parseErrors + 1
      BY <1>4 DEF ReconcileFails
    <2>2. Flatten(cache)' = Flatten(cache)
      <3>1. CASE cache[s] = Absent
        <4>1. cache' = [cache EXCEPT ![s] = {}]
          BY <2>1, <3>1
        <4>2. Flatten(cache') = Flatten(cache)
          BY <3>1, <4>1, FlattenEmptyEntry DEF TypeOK
        <4>3. QED BY <4>2 DEF Flatten
      <3>2. CASE cache[s] # Absent
        <4>1. cache' = cache
          BY <2>1, <3>2 DEF TypeOK
        <4>2. QED BY <4>1 DEF Flatten
      <3>3. QED BY <3>1, <3>2
    <2>3. cache' \in [Slices -> {Absent} \cup Lists]
      BY <2>1 DEF TypeOK, Lists
    <2>4. parseErrors' \in 0..MaxParseErrors
      BY <2>1, DiscoveryBoundsAssumption DEF TypeOK
    <2>5. TypeOK'
      BY <1>1, <2>1, <2>3, <2>4 DEF TypeOK, managerVars, subVars
    <2>6. QED
      BY <1>1, <2>1, <2>2, <2>5
      DEF ClientsMatchDiscovery, OfferedIsCache, ChangedWhileProbing, managerVars
  <1>5. QED BY <1>2, <1>3, <1>4

\* A list arrives, or the timer fires: the clients follow the list and the
\* probes begin.
LEMMA ReceiveInv ==
  ASSUME DiscoveryInv, Receive \/ Tick
  PROVE  DiscoveryInv'
  <1> USE DEF DiscoveryInv
  <1>1. PICK rdy, pnd \in Lists, ch \in BOOLEAN :
          ready' = rdy /\ pending' = pnd /\ StartReadiness(rdy, pnd, ch)
    BY DEF Receive, Tick, AdjustReady, AdjustPending, AdjustChanged, TypeOK, Lists
  <1>2. /\ loop' \in {"select", "probing", "notify"} /\ changed' \in BOOLEAN
        /\ answers' \in [Addrs -> {"waiting", "ok", "failed", "unasked"}]
        /\ ChangedWhileProbing'
    <2>1. CASE rdy \cup pnd = {}
      BY <1>1, <2>1 DEF StartReadiness, TypeOK, ChangedWhileProbing
    <2>2. CASE rdy \cup pnd # {}
      BY <1>1, <2>2 DEF StartReadiness, TypeOK, ChangedWhileProbing
    <2>3. QED BY <2>1, <2>2
  <1>3. CASE Receive
    <2>1. /\ offered # None /\ offered' = None /\ known' = offered
          /\ ready' = ready \cap offered /\ pending' = (pending \cap offered) \cup (offered \ ready)
          /\ UNCHANGED <<slices, queue, cache, subVars, envVars>>
      BY <1>3 DEF Receive, AdjustReady, AdjustPending
    <2>2. Flatten(cache)' = Flatten(cache)
      BY <2>1 DEF Flatten
    <2>3. TypeOK'
      BY <1>1, <1>2, <2>1 DEF TypeOK, subVars, envVars
    <2>4. ClientsMatchDiscovery' /\ OfferedIsCache'
      BY <2>1, <2>2 DEF ClientsMatchDiscovery, OfferedIsCache
    <2>5. QED BY <1>2, <2>3, <2>4
  <1>4. CASE Tick
    <2>1. UNCHANGED <<discoveryVars, ready, pending, subVars, known, envVars>>
      BY <1>4 DEF Tick
    <2>2. Flatten(cache)' = Flatten(cache)
      BY <2>1 DEF Flatten, discoveryVars
    <2>3. TypeOK'
      BY <1>2, <2>1 DEF TypeOK, discoveryVars, subVars, envVars
    <2>4. ClientsMatchDiscovery' /\ OfferedIsCache'
      BY <2>1, <2>2 DEF ClientsMatchDiscovery, OfferedIsCache, discoveryVars
    <2>5. QED BY <1>2, <2>3, <2>4
  <1>5. QED BY <1>3, <1>4

\* The probes are in: clients change places.
LEMMA ReadinessDoneInv ==
  ASSUME DiscoveryInv, ReadinessDone
  PROVE  DiscoveryInv'
  <1> USE DEF DiscoveryInv
  <1>1. /\ TurnedReady \subseteq pending /\ TurnedPending \subseteq ready
        /\ ready' = (ready \cup TurnedReady) \ TurnedPending
        /\ pending' = (pending \ TurnedReady) \cup TurnedPending
        /\ loop' \in {"select", "notify"} /\ changed' = FALSE /\ answers' = NoAnswers
        /\ UNCHANGED <<discoveryVars, subVars, known, envVars>>
    BY DEF ReadinessDone, TurnedReady, TurnedPending
  <1>2. ready' \cap pending' = {} /\ ready' \cup pending' = ready \cup pending
    BY <1>1 DEF ClientsMatchDiscovery
  <1>3. ready' \in Lists /\ pending' \in Lists
    BY <1>2 DEF TypeOK, Lists
  <1>4. Flatten(cache)' = Flatten(cache)
    BY <1>1 DEF Flatten, discoveryVars
  <1>5. TypeOK'
    BY <1>1, <1>3 DEF TypeOK, NoAnswers, discoveryVars, subVars, envVars
  <1>6. ClientsMatchDiscovery' /\ OfferedIsCache' /\ ChangedWhileProbing'
    BY <1>1, <1>2, <1>4
    DEF ClientsMatchDiscovery, OfferedIsCache, ChangedWhileProbing, discoveryVars
  <1>7. QED BY <1>5, <1>6

\* The steps that touch neither the clients nor the Cache nor the lists.
LEMMA OtherInv ==
  ASSUME DiscoveryInv,
         \/ \E s \in Slices, l \in {Absent} \cup Lists : SliceChange(s, l)
         \/ \E a \in Addrs : Flip(a) \/ Probe(a)
         \/ NotifySubscribers \/ Subscribe \/ TakeSignal
         \/ UNCHANGED vars
  PROVE  DiscoveryInv'
  <1> USE DEF DiscoveryInv
  <1>1. /\ UNCHANGED <<cache, offered, known, ready, pending, changed>>
        /\ loop' = loop \/ (loop = "notify" /\ loop' = "select")
    BY DEF SliceChange, Flip, Probe, NotifySubscribers, Subscribe, TakeSignal, vars,
           discoveryVars, managerVars
  <1>2. Flatten(cache)' = Flatten(cache)
    BY <1>1 DEF Flatten
  <1>3. ClientsMatchDiscovery' /\ OfferedIsCache' /\ ChangedWhileProbing'
    BY <1>1, <1>2 DEF ClientsMatchDiscovery, OfferedIsCache, ChangedWhileProbing
  <1>4. TypeOK'
    <2>1. CASE \E s \in Slices, l \in {Absent} \cup Lists : SliceChange(s, l)
      BY <1>1, <2>1, DiscoveryBoundsAssumption DEF SliceChange, TypeOK, managerVars, subVars
    <2>2. CASE \E a \in Addrs : Flip(a)
      BY <1>1, <2>2, DiscoveryBoundsAssumption
      DEF Flip, TypeOK, Lists, discoveryVars, managerVars, subVars
    <2>3. CASE \E a \in Addrs : Probe(a)
      BY <1>1, <2>3 DEF Probe, TypeOK, discoveryVars, subVars, envVars
    <2>4. CASE NotifySubscribers
      BY <1>1, <2>4 DEF NotifySubscribers, TypeOK, discoveryVars, envVars
    <2>5. CASE Subscribe \/ TakeSignal
      BY <1>1, <2>5 DEF Subscribe, TakeSignal, TypeOK, discoveryVars, managerVars, envVars
    <2>6. CASE UNCHANGED vars
      BY <2>6 DEF vars, TypeOK, discoveryVars, managerVars, subVars, envVars
    <2>7. QED BY <2>1, <2>2, <2>3, <2>4, <2>5, <2>6
  <1>5. QED BY <1>3, <1>4

\* The inductive invariant holds in every reachable state.
THEOREM DiscoveryInvariance == Spec => []DiscoveryInv
  <1>1. DiscoveryInv /\ [Next]_vars => DiscoveryInv'
    BY ReconcileInv, ReceiveInv, ReadinessDoneInv, OtherInv DEF Next
  <1>2. QED BY InitInv, <1>1, PTL DEF Spec

\* The variables of discovery keep their types.
THEOREM DiscoveryTypeCorrect == Spec => []TypeOK
  BY DiscoveryInvariance, PTL DEF DiscoveryInv

\* Between the EndpointSlices and the clients no address is lost or kept: there
\* is one client for each address of the last list, which is the whole Cache
\* when Notify is not blocked.
THEOREM MatchesDiscovery == Spec => []ClientsMatchDiscovery
  BY DiscoveryInvariance, PTL DEF DiscoveryInv

-----------------------------------------------------------------------------
(* ClientsManager implements GatewayClients.                               *)

\* The clients created at startup are clients of gateways.
LEMMA InitImplements == Init => Clients!ClientsInit
  <1> SUFFICES ASSUME Init PROVE Clients!ClientsInit
    OBVIOUS
  <1>1. ready \in Lists
    BY InitInv DEF DiscoveryInv, TypeOK
  <1>2. QED BY <1>1 DEF Init, Clients!ClientsInit, Lists

\* What StartReadiness leaves to be reported.
LEMMA StartReadinessReports ==
  ASSUME NEW rdy, NEW pnd, NEW ch \in BOOLEAN, StartReadiness(rdy, pnd, ch)
  PROVE  (changed' \/ loop' = "notify") <=> ch
  <1>1. CASE rdy \cup pnd = {}
    BY <1>1 DEF StartReadiness
  <1>2. CASE rdy \cup pnd # {}
    BY <1>2 DEF StartReadiness
  <1>3. QED BY <1>1, <1>2

\* A list takes a ready client away only with a change to report.
LEMMA ReceiveImplements ==
  ASSUME DiscoveryInv, Receive
  PROVE  [Clients!ClientsNext]_(Clients!clientsVars)
  <1>0. TypeOK /\ ChangedWhileProbing /\ loop = "select" /\ ~changed
    BY DEF DiscoveryInv, Receive, ChangedWhileProbing
  <1>1. /\ offered \in Lists /\ ready' = ready \cap offered /\ ready' \in SUBSET Addrs
        /\ subscriber' = subscriber /\ signal' = signal
    BY <1>0 DEF Receive, AdjustReady, TypeOK, subVars, Lists
  <1>2. PICK rdy, pnd \in Lists, ch \in BOOLEAN :
          (ch <=> AdjustChanged(offered)) /\ StartReadiness(rdy, pnd, ch)
    BY <1>0, <1>1 DEF Receive, AdjustChanged, AdjustPending, TypeOK, Lists
  <1>3. (changed' \/ loop' = "notify") <=> ch
    BY <1>2, StartReadinessReports
  <1>4. CASE ch
    <2>1. (changed \/ loop = "notify")' = TRUE
      BY <1>3, <1>4
    <2>2. Clients!ClientsChange(ready')
      BY <1>1, <2>1 DEF Clients!ClientsChange
    <2>3. QED BY <1>1, <2>2 DEF Clients!ClientsNext
  <1>5. CASE ~ch
    <2>1. ready' = ready
      BY <1>1, <1>2, <1>5 DEF AdjustChanged
    <2>2. ~changed' /\ loop' # "notify"
      BY <1>3, <1>5
    <2>3. (changed \/ loop = "notify")' = (changed \/ loop = "notify")
      BY <1>0, <2>2
    <2>4. QED BY <1>1, <2>1, <2>3 DEF Clients!clientsVars
  <1>6. QED BY <1>4, <1>5

\* A timer changes no client and leaves nothing to report.
LEMMA TickImplements ==
  ASSUME DiscoveryInv, Tick
  PROVE  [Clients!ClientsNext]_(Clients!clientsVars)
  <1>1. loop = "select" /\ ~changed /\ StartReadiness(ready, pending, FALSE)
    BY DEF DiscoveryInv, Tick, ChangedWhileProbing
  <1>2. ~changed' /\ loop' # "notify"
    BY <1>1, StartReadinessReports
  <1>3. (changed \/ loop = "notify")' = (changed \/ loop = "notify")
    BY <1>1, <1>2
  <1>4. QED BY <1>3 DEF Tick, subVars, Clients!clientsVars

\* Clients that change places are reported, and so is what came before them.
LEMMA ReadinessDoneImplements ==
  ASSUME DiscoveryInv, ReadinessDone
  PROVE  [Clients!ClientsNext]_(Clients!clientsVars)
  <1>1. /\ ready' \in SUBSET Addrs /\ loop = "probing" /\ ~changed'
        /\ subscriber' = subscriber /\ signal' = signal
    BY ReadinessDoneInv DEF ReadinessDone, DiscoveryInv, TypeOK, Lists, subVars
  <1>2. CASE changed \/ TurnedReady \cup TurnedPending # {}
    <2>1. (changed \/ loop = "notify")' = TRUE
      BY <1>2 DEF ReadinessDone
    <2>2. Clients!ClientsChange(ready')
      BY <1>1, <2>1 DEF Clients!ClientsChange
    <2>3. QED BY <1>1, <2>2 DEF Clients!ClientsNext
  <1>3. CASE ~changed /\ TurnedReady \cup TurnedPending = {}
    <2>1. ready' = ready /\ loop' = "select"
      BY <1>3 DEF ReadinessDone
    <2>2. (changed \/ loop = "notify")' = (changed \/ loop = "notify")
      BY <1>1, <1>3, <2>1
    <2>3. QED BY <1>1, <2>1, <2>2 DEF Clients!clientsVars
  <1>4. QED BY <1>2, <1>3

\* The notification, and the subscriber's own steps.
LEMMA SubscriberImplements ==
  ASSUME DiscoveryInv, NotifySubscribers \/ Subscribe \/ TakeSignal
  PROVE  [Clients!ClientsNext]_(Clients!clientsVars)
  <1>0. TypeOK /\ ChangedWhileProbing
    BY DEF DiscoveryInv
  <1>1. CASE NotifySubscribers
    <2>1. /\ (changed \/ loop = "notify") = TRUE
          /\ (changed \/ loop = "notify")' = FALSE
      BY <1>0, <1>1 DEF NotifySubscribers, ChangedWhileProbing, TypeOK
    <2>2. \/ subscriber = "subscribed" /\ ~signal /\ signal' = TRUE
          \/ subscriber = "racing" /\ signal' \in BOOLEAN
          \/ subscriber = "none" /\ UNCHANGED signal
      BY <1>0, <1>1 DEF NotifySubscribers, TypeOK
    <2>3. Clients!NotifySubscriber
      BY <1>1, <2>1, <2>2 DEF NotifySubscribers, Clients!NotifySubscriber
    <2>4. QED BY <2>3 DEF Clients!ClientsNext
  <1>2. CASE Subscribe
    <2>1. (changed \/ loop = "notify")' = (changed \/ loop = "notify")
      BY <1>2 DEF Subscribe, managerVars
    <2>2. subscriber' \in IF changed \/ loop = "notify" THEN {"racing", "subscribed"}
                                                      ELSE {"subscribed"}
      BY <1>0, <1>2 DEF Subscribe, ChangedWhileProbing
    <2>3. Clients!Subscribe
      BY <1>2, <2>1, <2>2 DEF Subscribe, Clients!Subscribe, managerVars
    <2>4. QED BY <2>3 DEF Clients!ClientsNext
  <1>3. CASE TakeSignal
    <2>1. (changed \/ loop = "notify")' = (changed \/ loop = "notify")
      BY <1>3 DEF TakeSignal, managerVars
    <2>2. Clients!TakeSignal
      BY <1>3, <2>1 DEF TakeSignal, Clients!TakeSignal, managerVars
    <2>3. QED BY <2>2 DEF Clients!ClientsNext
  <1>4. QED BY <1>1, <1>2, <1>3

\* Kubernetes, the gateways, the worker and the probes are not seen from outside.
LEMMA HiddenImplements ==
  ASSUME \/ \E s \in Slices, l \in {Absent} \cup Lists : SliceChange(s, l)
         \/ \E a \in Addrs : Flip(a) \/ Probe(a)
         \/ \E s \in Slices : Reconcile(s) \/ ReconcileFails(s)
         \/ UNCHANGED vars
  PROVE  UNCHANGED Clients!clientsVars
  <1>1. UNCHANGED <<ready, changed, loop, subscriber, signal>>
    BY DEF SliceChange, Flip, Probe, Reconcile, ReconcileFails, vars, managerVars, subVars
  <1>2. (changed \/ loop = "notify")' = (changed \/ loop = "notify")
    BY <1>1
  <1>3. QED BY <1>1, <1>2 DEF Clients!clientsVars

\* The manager keeps its promise to subscribers: it implements GatewayClients,
\* where the ready clients change only with a notification to come after it.
THEOREM ManagerImplementsGatewayClients == Spec => ImplementsGatewayClients
  <1>1. DiscoveryInv /\ [Next]_vars => [Clients!ClientsNext]_(Clients!clientsVars)
    BY ReceiveImplements, TickImplements, ReadinessDoneImplements, SubscriberImplements,
       HiddenImplements DEF Next
  <1>2. QED
    BY InitImplements, <1>1, DiscoveryInvariance, PTL
    DEF Spec, ImplementsGatewayClients, Clients!ClientsSpec
=============================================================================
