------------------------------ MODULE NodeAgent ------------------------------
(***************************************************************************)
(* NodeAgent (ingress-controller/internal/konnect/node_agent.go) composed  *)
(* with what the clients manager it subscribes to promises: it keeps in    *)
(* Konnect one node for every ready gateway and one for the controller,    *)
(* with the status of its configuration.                                   *)
(*                                                                         *)
(* After an initial update three goroutines call updateNodes without a     *)
(* lock: on a tick, on a change of the configuration status and on a       *)
(* change of the clients.  Each lists the nodes once and works on that     *)
(* list; every call it makes is a step, so it may undo what another one    *)
(* did meanwhile.                                                          *)
(*                                                                         *)
(* A node is <<host, id>>.  A gateway and the controller register under    *)
(* their own id; another node of a host is what an earlier life of it left *)
(* behind.  LastPing counts seconds and sort.Slice is not stable, so which *)
(* node of a host counts as the latest is left open, and so is whether     *)
(* Konnect refuses the PUT of a node that is gone or the POST of one that  *)
(* is there.  Statuses stand for the six values of CalculateConfigStatus.  *)
(***************************************************************************)
EXTENDS GatewayClients, Naturals, FiniteSets

CONSTANTS KIC, OtherKIC, \* host names of this controller and of an earlier one
          Statuses, OK,
          OldNodes,      \* nodes already in Konnect
          None,
          MaxClientChanges, MaxStatusChanges, MaxFailures \* bounds

Nodes == (Addrs \cup {KIC, OtherKIC}) \X {"old", "own"}

ASSUME HostsAssumption == KIC # OtherKIC /\ KIC \notin Addrs /\ OtherKIC \notin Addrs
ASSUME StatusesAssumption ==
  OK \in Statuses /\ None \notin Statuses /\ \A l \in SUBSET Addrs : None # l
ASSUME OldNodesAssumption == OldNodes \subseteq Nodes
ASSUME BoundsAssumption ==
  MaxClientChanges \in Nat /\ MaxStatusChanges \in Nat /\ MaxFailures \in Nat

VARIABLES
  nodes,        \* the nodes in Konnect
  shown,        \* status shown by a node of the controller
  agent,        \* "starting", "running", or "failed": no goroutine was started
  configStatus,
  job,          \* each goroutine's updateNodes
  seen,         \* ready clients the clients goroutine read after its last
                \*   notification; None: not yet, or the update failed before
  clientChanges, statusChanges, failures

konnectVars == <<nodes, shown>>
agentVars   == <<agent, configStatus, job, seen>>
vars == <<clientsVars, konnectVars, agentVars, clientChanges, statusChanges, failures>>

HostNodes(set, h) == {n \in set : n[1] = h}

\* Start runs the initial update itself.
Goroutines == {"start", "tick", "status", "clients"}

\* list: the nodes listed and not dealt with yet; todo: gateways to update;
\* doomed: nodes to delete before updateNodes goes on.
Jobs == [pc : {"idle", "list", "status", "kic", "instances", "gateways", "ending"},
         status : Statuses, list : SUBSET Nodes, todo : SUBSET Addrs, doomed : SUBSET Nodes]

Idle == [pc |-> "idle", status |-> OK, list |-> {}, todo |-> {}, doomed |-> {}]

TypeOK ==
  /\ ClientsTypeOK
  /\ nodes \in SUBSET Nodes /\ shown \in [{"old", "own"} -> Statuses]
  /\ agent \in {"starting", "running", "failed"}
  /\ configStatus \in Statuses
  /\ job \in [Goroutines -> Jobs]
  /\ seen \in {None} \cup SUBSET Addrs
  /\ clientChanges \in 0..MaxClientChanges /\ statusChanges \in 0..MaxStatusChanges
  /\ failures \in 0..MaxFailures

Init ==
  /\ ClientsInit
  /\ nodes = OldNodes /\ shown = [i \in {"old", "own"} |-> OK]
  /\ agent = "starting"
  /\ configStatus = OK
  /\ job = [g \in Goroutines |-> IF g = "start" THEN [Idle EXCEPT !.pc = "list"] ELSE Idle]
  /\ seen = None
  /\ clientChanges = 0 /\ statusChanges = 0 /\ failures = 0

-----------------------------------------------------------------------------
(* What wakes the goroutines.                                              *)

Begin(g) == job' = [job EXCEPT ![g] = [Idle EXCEPT !.pc = "list"]]

\* Mutant: the ticker does not run.
RefreshTickStopped == FALSE /\ UNCHANGED vars

\* updateNodeLoop
RefreshTick ==
  /\ agent = "running" /\ job["tick"].pc = "idle"
  /\ Begin("tick")
  /\ UNCHANGED <<clientsVars, konnectVars, agent, configStatus, seen, clientChanges, statusChanges,
                 failures>>

\* subscribeConfigStatus: a status arrives that maybeUpdateConfigStatus finds new.
StatusArrives(s) ==
  /\ agent = "running" /\ job["status"].pc = "idle"
  /\ statusChanges < MaxStatusChanges
  /\ s # configStatus
  /\ configStatus' = s
  /\ statusChanges' = statusChanges + 1
  /\ Begin("status")
  /\ UNCHANGED <<clientsVars, konnectVars, agent, seen, clientChanges, failures>>

\* subscribeToGatewayClientsChanges, and the clients manager at work.
SubscribeToClients ==
  /\ agent = "running"
  /\ Subscribe
  /\ UNCHANGED <<konnectVars, agentVars, clientChanges, statusChanges, failures>>

ClientsChanged ==
  /\ job["clients"].pc = "idle"
  /\ TakeSignal
  /\ seen' = None
  /\ Begin("clients")
  /\ UNCHANGED <<konnectVars, agent, configStatus, clientChanges, statusChanges, failures>>

ChangeClients(set) ==
  /\ clientChanges < MaxClientChanges
  /\ clientChanges' = clientChanges + 1
  /\ ClientsChange(set)
  /\ UNCHANGED <<konnectVars, agentVars, statusChanges, failures>>

Notify ==
  /\ NotifySubscriber
  /\ UNCHANGED <<konnectVars, agentVars, clientChanges, statusChanges, failures>>

-----------------------------------------------------------------------------
(* updateNodes.                                                            *)

\* updateNodes of g is at l and has no node left to delete.
At(g, l) == job[g].pc = l /\ job[g].doomed = {}

Fail ==
  /\ failures < MaxFailures
  /\ failures' = failures + 1

\* An update ends; the one of Start decides whether the others begin at all.
Finish(g, ok) ==
  /\ job' = [job EXCEPT ![g] = Idle]
  /\ agent' = IF g # "start" THEN agent ELSE IF ok THEN "running" ELSE "failed"

\* ListAllNodes; updateKICNode is to delete the nodes of controllers with other
\* names.
ListAllNodes(g) ==
  /\ At(g, "list")
  /\ job' = [job EXCEPT ![g] = [Idle EXCEPT !.pc = "status",
                                           !.list = {n \in nodes : n[1] # OtherKIC},
                                           !.doomed = HostNodes(nodes, OtherKIC)]]
  /\ UNCHANGED <<clientsVars, konnectVars, agent, configStatus, seen, clientChanges,
                 statusChanges, failures>>

\* DeleteNode, where a node is to be deleted; a failure is logged.
DeleteNode(g, n) ==
  /\ n \in job[g].doomed
  /\ job' = [job EXCEPT ![g].doomed = @ \ {n}]
  /\ \/ nodes' = nodes \ {n} /\ UNCHANGED failures
     \/ Fail /\ UNCHANGED nodes
  /\ UNCHANGED <<clientsVars, shown, agent, configStatus, seen, clientChanges, statusChanges>>

\* The status is read before the call that shows it.
LoadStatus(g) ==
  /\ At(g, "status")
  /\ job' = [job EXCEPT ![g].pc = "kic", ![g].status = configStatus]
  /\ UNCHANGED <<clientsVars, konnectVars, agent, configStatus, seen, clientChanges,
                 statusChanges, failures>>

\* The node that the call for a host is about: its own, to be created, if none was
\* listed, else the latest of those listed.
WrittenNodes(g, h) ==
  LET listed == HostNodes(job[g].list, h) IN IF listed = {} THEN {<<h, "own">>} ELSE listed

\* The call does not do what the list says: the node is there already, or gone.
MayBeRefused(g, n) == (n \in job[g].list) # (n \in nodes)

\* The host is done; the other nodes listed for it go if the call succeeded.
HostDone(g, h, doomed) ==
  [job[g] EXCEPT !.list = @ \ HostNodes(@, h), !.todo = @ \ {h}, !.doomed = doomed]

\* updateKICNode creates or updates the controller's node.
UpdateKICNode(g) ==
  /\ At(g, "kic")
  /\ \E n \in WrittenNodes(g, KIC) :
       /\ nodes' = nodes \cup {n}
       /\ shown' = [shown EXCEPT ![n[2]] = job[g].status]
       /\ job' = [job EXCEPT ![g] =
                    [HostDone(g, KIC, HostNodes(job[g].list, KIC) \ {n})
                       EXCEPT !.pc = "instances", !.status = OK]]
  /\ UNCHANGED <<clientsVars, agent, configStatus, seen, clientChanges, statusChanges, failures>>

\* A call fails where that ends updateNodes: ListAllNodes, and creating or
\* updating the controller's node.
CallFails(g) ==
  /\ \/ (At(g, "list") \/ At(g, "kic")) /\ Fail
     \/ /\ At(g, "kic")
        /\ \E n \in WrittenNodes(g, KIC) : MayBeRefused(g, n)
        /\ UNCHANGED failures
  /\ Finish(g, FALSE)
  /\ UNCHANGED <<clientsVars, konnectVars, configStatus, seen, clientChanges, statusChanges>>

\* GetGatewayInstances: the ready clients, without one that does not tell its
\* node ID.
GetGatewayInstances(g) ==
  /\ At(g, "instances")
  /\ \/ job' = [job EXCEPT ![g].pc = "gateways", ![g].todo = ready] /\ UNCHANGED failures
     \/ \E a \in ready :
          /\ Fail
          /\ job' = [job EXCEPT ![g].pc = "gateways", ![g].todo = ready \ {a}]
  /\ seen' = IF g = "clients" THEN ready ELSE seen
  /\ UNCHANGED <<clientsVars, konnectVars, agent, configStatus, clientChanges, statusChanges>>

\* updateGatewayNodes, one gateway: its node is created or updated.
UpdateGatewayNode(g, h) ==
  /\ At(g, "gateways") /\ h \in job[g].todo
  /\ \E n \in WrittenNodes(g, h) :
       /\ nodes' = nodes \cup {n}
       /\ job' = [job EXCEPT ![g] = HostDone(g, h, HostNodes(job[g].list, h) \ {n})]
  /\ UNCHANGED <<clientsVars, shown, agent, configStatus, seen, clientChanges, statusChanges,
                 failures>>

\* The call fails or is refused, which is logged; nothing is deleted.
UpdateGatewayNodeFails(g, h) ==
  /\ At(g, "gateways") /\ h \in job[g].todo
  /\ \/ Fail
     \/ (\E n \in WrittenNodes(g, h) : MayBeRefused(g, n)) /\ UNCHANGED failures
  /\ job' = [job EXCEPT ![g] = HostDone(g, h, {})]
  /\ UNCHANGED <<clientsVars, konnectVars, agent, configStatus, seen, clientChanges, statusChanges>>

\* The gateways are done.  What is left of the list belongs to none of them
\* and is to go,
DeleteOtherNodes(g) ==
  /\ At(g, "gateways") /\ job[g].todo = {}
  /\ job' = [job EXCEPT ![g].pc = "ending", ![g].list = {}, ![g].doomed = job[g].list]
  /\ UNCHANGED <<clientsVars, konnectVars, agent, configStatus, seen, clientChanges,
                 statusChanges, failures>>

\* and the update ends.
UpdateEnds(g) ==
  /\ At(g, "ending")
  /\ Finish(g, TRUE)
  /\ UNCHANGED <<clientsVars, konnectVars, configStatus, seen, clientChanges, statusChanges,
                 failures>>

UpdateNodes(g) ==
  \/ ListAllNodes(g)
  \/ \E n \in Nodes : DeleteNode(g, n)
  \/ LoadStatus(g)
  \/ UpdateKICNode(g)
  \/ GetGatewayInstances(g)
  \/ \E h \in Addrs : UpdateGatewayNode(g, h)
  \/ DeleteOtherNodes(g)
  \/ UpdateEnds(g)

Next ==
  \/ \E set \in SUBSET Addrs : ChangeClients(set)
  \/ Notify
  \/ RefreshTick
  \/ \E s \in Statuses : StatusArrives(s)
  \/ SubscribeToClients
  \/ ClientsChanged
  \/ \E g \in Goroutines : UpdateNodes(g)
  \/ \E g \in Goroutines : CallFails(g)
  \/ \E g \in Goroutines, h \in Addrs : UpdateGatewayNodeFails(g, h)

Spec == Init /\ [][Next]_vars

\* The goroutines run, the timer fires and the manager notifies.
FairSpec ==
  /\ Spec
  /\ WF_vars(Notify) /\ WF_vars(RefreshTick) /\ WF_vars(ClientsChanged)
  /\ \A g \in Goroutines : WF_vars(UpdateNodes(g))

-----------------------------------------------------------------------------
(* Correctness.                                                            *)

\* A subscriber misses no change: when no notification is on its way, the clients
\* it read after the last one are still the ready ones, although it reads them
\* while they go on changing and the channel keeps only one notification.
SubscriberSeesChange == seen # None /\ ~signal /\ ~unnoticed => seen = ready

\* Konnect ends up with one node for every ready gateway, none for others, and
\* one for the controller, with its latest status, unless the initial update
\* failed: two updates that overlap may each keep another node of a host and
\* delete the one that the other keeps.
NodesConverge ==
  <>[](agent = "running" =>
         /\ \A h \in Addrs : Cardinality(HostNodes(nodes, h)) = IF h \in ready THEN 1 ELSE 0
         /\ \E i \in {"old", "own"} : HostNodes(nodes, KIC) = {<<KIC, i>>} /\ shown[i] = configStatus
         /\ HostNodes(nodes, OtherKIC) = {})
=============================================================================
