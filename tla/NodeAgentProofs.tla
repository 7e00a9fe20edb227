--------------------------- MODULE NodeAgentProofs ---------------------------
(***************************************************************************)
(* Proofs about NodeAgent, for any gateways, statuses and numbers of       *)
(* changes and failures.                                                   *)
(*                                                                         *)
(* The channel of a subscriber has one place and the manager reads its     *)
(* list of subscribers without the lock, so a notification may miss one    *)
(* that is just subscribing.  The agent still misses no change, because    *)
(* it reads the clients only after a notification, and one that subscribed *)
(* too late for the first has not read them yet (NothingReadBefore).       *)
(***************************************************************************)
EXTENDS NodeAgent, TLAPS

\* Until it is known to the manager the subscriber has read nothing and has
\* nothing in its channel.
NothingReadBefore ==
  subscriber # "subscribed" => seen = None /\ ~signal /\ job["clients"].pc = "idle"

\* The inductive invariant.
AgentInv == TypeOK /\ NothingReadBefore /\ SubscriberSeesChange

\* Each goroutine has a job.
LEMMA JobType == TypeOK => job \in [Goroutines -> Jobs]
  BY DEF TypeOK

\* An idle goroutine, and one that begins to list the nodes.
LEMMA IdleType ==
  /\ Idle \in Jobs /\ Idle.pc = "idle"
  /\ [Idle EXCEPT !.pc = "list"] \in Jobs /\ [Idle EXCEPT !.pc = "list"].pc = "list"
  BY StatusesAssumption DEF Idle, Jobs

\* The agent starts with its initial update and has read no clients.
LEMMA AgentInit == Init => AgentInv
  <1> SUFFICES ASSUME Init PROVE AgentInv
    OBVIOUS
  <1>1. 0 \in 0..MaxClientChanges /\ 0 \in 0..MaxStatusChanges /\ 0 \in 0..MaxFailures
    BY BoundsAssumption
  <1>2. job \in [Goroutines -> Jobs] /\ job["clients"].pc = "idle"
    BY IdleType DEF Init, Goroutines
  <1>3. ClientsTypeOK
    BY DEF Init, ClientsInit, ClientsTypeOK
  <1>4. nodes \in SUBSET Nodes
    BY OldNodesAssumption DEF Init, Nodes
  <1>5. TypeOK
    BY <1>1, <1>2, <1>3, <1>4, StatusesAssumption DEF Init, TypeOK, Jobs
  <1>6. NothingReadBefore /\ SubscriberSeesChange
    BY <1>2 DEF Init, ClientsInit, NothingReadBefore, SubscriberSeesChange
  <1>7. QED BY <1>5, <1>6 DEF AgentInv

-----------------------------------------------------------------------------
(* The clients manager and what wakes the goroutines.                      *)

\* The clients change, are reported and are subscribed to.
LEMMA ManagerInv ==
  ASSUME AgentInv,
         \/ \E set \in SUBSET Addrs : ChangeClients(set)
         \/ Notify
         \/ SubscribeToClients
  PROVE  AgentInv'
  <1>0. TypeOK /\ NothingReadBefore /\ SubscriberSeesChange
    BY DEF AgentInv
  <1>1. UNCHANGED <<konnectVars, agentVars, statusChanges, failures>>
    BY DEF ChangeClients, Notify, SubscribeToClients
  <1>2. ClientsTypeOK'
    <2>1. CASE \E set \in SUBSET Addrs : ChangeClients(set)
      BY <1>0, <2>1 DEF ChangeClients, ClientsChange, TypeOK, ClientsTypeOK
    <2>2. CASE Notify
      BY <1>0, <2>2 DEF Notify, NotifySubscriber, TypeOK, ClientsTypeOK
    <2>3. CASE SubscribeToClients
      BY <1>0, <2>3 DEF SubscribeToClients, Subscribe, TypeOK, ClientsTypeOK
    <2>4. QED BY <2>1, <2>2, <2>3
  <1>3. clientChanges' \in 0..MaxClientChanges
    BY <1>0, BoundsAssumption DEF ChangeClients, Notify, SubscribeToClients, TypeOK
  <1>4. TypeOK'
    BY <1>0, <1>1, <1>2, <1>3 DEF TypeOK, konnectVars, agentVars
  <1>5. NothingReadBefore'
    BY <1>0, <1>1
    DEF ChangeClients, ClientsChange, Notify, NotifySubscriber, SubscribeToClients, Subscribe,
        NothingReadBefore, TypeOK, ClientsTypeOK, agentVars
  <1>6. SubscriberSeesChange'
    BY <1>0, <1>1
    DEF ChangeClients, ClientsChange, Notify, NotifySubscriber, SubscribeToClients, Subscribe,
        NothingReadBefore, SubscriberSeesChange, TypeOK, ClientsTypeOK, agentVars
  <1>7. QED BY <1>4, <1>5, <1>6 DEF AgentInv

\* A goroutine begins an update; the one for clients forgets what it read.
LEMMA WakeInv ==
  ASSUME AgentInv, RefreshTick \/ (\E s \in Statuses : StatusArrives(s)) \/ ClientsChanged
  PROVE  AgentInv'
  <1>0. TypeOK /\ NothingReadBefore /\ SubscriberSeesChange
    BY DEF AgentInv
  <1>1. PICK g \in Goroutines :
          /\ Begin(g)
          /\ \/ g = "clients" /\ ClientsChanged
             \/ /\ g # "clients"
                /\ RefreshTick \/ (\E s \in Statuses : StatusArrives(s))
    BY DEF RefreshTick, StatusArrives, ClientsChanged, Goroutines
  <1>2. /\ job' \in [Goroutines -> Jobs]
        /\ \A k \in Goroutines \ {g} : job'[k] = job[k]
    BY <1>0, <1>1, IdleType, JobType DEF Begin
  <1>3. CASE ClientsChanged
    <2>1. /\ signal /\ ~signal' /\ signal' \in BOOLEAN /\ seen' = None
          /\ UNCHANGED <<ready, unnoticed, subscriber>>
          /\ UNCHANGED <<konnectVars, agent, configStatus, clientChanges, statusChanges, failures>>
      BY <1>3 DEF ClientsChanged, TakeSignal
    <2>2. TypeOK'
      BY <1>0, <1>2, <2>1 DEF TypeOK, Jobs, ClientsTypeOK, konnectVars
    <2>3. NothingReadBefore' /\ SubscriberSeesChange'
      BY <1>0, <2>1 DEF NothingReadBefore, SubscriberSeesChange
    <2>4. QED BY <2>2, <2>3 DEF AgentInv
  <1>4. CASE ~ClientsChanged
    <2>1. g # "clients" /\ (RefreshTick \/ (\E s \in Statuses : StatusArrives(s)))
      BY <1>1, <1>4
    <2>2. /\ UNCHANGED <<clientsVars, konnectVars, agent, seen, clientChanges, failures>>
          /\ configStatus' \in Statuses /\ statusChanges' \in 0..MaxStatusChanges
      BY <1>0, <2>1, BoundsAssumption DEF RefreshTick, StatusArrives, TypeOK
    <2>3. job'["clients"] = job["clients"]
      BY <1>2, <2>1 DEF Goroutines
    <2>4. TypeOK'
      BY <1>0, <1>2, <2>2 DEF TypeOK, Jobs, ClientsTypeOK, clientsVars, konnectVars
    <2>5. NothingReadBefore' /\ SubscriberSeesChange'
      BY <1>0, <2>2, <2>3 DEF NothingReadBefore, SubscriberSeesChange, clientsVars
    <2>6. QED BY <2>4, <2>5 DEF AgentInv
  <1>5. QED BY <1>3, <1>4

-----------------------------------------------------------------------------
(* updateNodes.                                                            *)

\* What a step of updateNodes does to the jobs: it changes one, never begins
\* one, and ends or continues it.
Continues(g) ==
  /\ job[g].pc = "idle" => job'[g].pc = "idle" /\ UNCHANGED seen
  /\ job' \in [Goroutines -> Jobs]
  /\ \A k \in Goroutines \ {g} : job'[k] = job[k]

\* A step of updateNodes reads the clients at most.
LEMMA ContinuesInv ==
  ASSUME AgentInv, NEW g \in Goroutines, Continues(g),
         UNCHANGED clientsVars,
         seen' = seen \/ (g = "clients" /\ seen' = ready),
         UNCHANGED <<configStatus, clientChanges, statusChanges>>,
         nodes' \in SUBSET Nodes, shown' \in [{"old", "own"} -> Statuses],
         agent' \in {"starting", "running", "failed"}, failures' \in 0..MaxFailures
  PROVE  AgentInv'
  <1>0. TypeOK /\ NothingReadBefore /\ SubscriberSeesChange
    BY DEF AgentInv
  <1>1. TypeOK'
    BY <1>0 DEF TypeOK, ClientsTypeOK, Jobs, Continues, clientsVars
  <1>2. NothingReadBefore'
    <2>1. CASE g = "clients"
      BY <1>0, <2>1 DEF NothingReadBefore, Continues, clientsVars
    <2>2. CASE g # "clients"
      <3>1. job'["clients"] = job["clients"]
        BY <2>2 DEF Continues, Goroutines
      <3>2. QED BY <1>0, <2>2, <3>1 DEF NothingReadBefore, clientsVars
    <2>3. QED BY <2>1, <2>2
  <1>3. SubscriberSeesChange'
    BY <1>0 DEF SubscriberSeesChange, clientsVars
  <1>4. QED BY <1>1, <1>2, <1>3 DEF AgentInv

\* What a step that gives g the job j has to show.
LEMMA JobContinues ==
  ASSUME AgentInv, NEW g \in Goroutines, NEW j \in Jobs,
         job[g].pc = "idle" => j.pc = "idle" /\ UNCHANGED seen,
         job' = [job EXCEPT ![g] = j]
  PROVE  Continues(g)
  BY JobType DEF AgentInv, Continues

\* Another failure is within the bound.
LEMMA FailType ==
  ASSUME TypeOK, Fail \/ UNCHANGED failures
  PROVE  failures' \in 0..MaxFailures
  BY BoundsAssumption DEF Fail, TypeOK

\* The node written for a host is a node.
LEMMA WrittenType ==
  ASSUME TypeOK, NEW g \in Goroutines, NEW h \in Addrs \cup {KIC, OtherKIC},
         NEW n \in WrittenNodes(g, h)
  PROVE  n \in Nodes
  <1>1. job[g].list \in SUBSET Nodes
    BY JobType DEF Jobs
  <1>2. <<h, "own">> \in Nodes
    BY DEF Nodes
  <1>3. QED BY <1>1, <1>2 DEF WrittenNodes, HostNodes

\* A host that is done leaves a job.
LEMMA HostDoneType ==
  ASSUME TypeOK, NEW g \in Goroutines, NEW h, NEW d \in SUBSET Nodes
  PROVE  HostDone(g, h, d) \in Jobs /\ HostDone(g, h, d).pc = job[g].pc
  <1>1. job[g] \in Jobs
    BY JobType
  <1>2. QED BY <1>1 DEF HostDone, Jobs

\* The nodes are listed, a node is deleted, the status is read.
LEMMA UpdateBeginsInv ==
  ASSUME AgentInv, NEW g \in Goroutines,
         ListAllNodes(g) \/ (\E n \in Nodes : DeleteNode(g, n)) \/ LoadStatus(g)
  PROVE  AgentInv'
  <1>0. TypeOK /\ job \in [Goroutines -> Jobs] /\ job[g] \in Jobs
    BY JobType DEF AgentInv
  <1>1. CASE ListAllNodes(g)
    <2>1. PICK j : /\ j = [Idle EXCEPT !.pc = "status",
                                       !.list = {n \in nodes : n[1] # OtherKIC},
                                       !.doomed = HostNodes(nodes, OtherKIC)]
                   /\ job' = [job EXCEPT ![g] = j]
      BY <1>1 DEF ListAllNodes
    <2>2. j \in Jobs
      BY <1>0, <2>1, StatusesAssumption DEF Idle, Jobs, HostNodes, TypeOK
    <2>3. Continues(g)
      BY <1>1, <2>1, <2>2, JobContinues DEF ListAllNodes, At
    <2>4. QED BY <1>0, <1>1, <2>3, ContinuesInv DEF ListAllNodes, TypeOK, konnectVars
  <1>2. CASE \E n \in Nodes : DeleteNode(g, n)
    <2>1. PICK n \in Nodes : DeleteNode(g, n)
      BY <1>2
    <2>2. PICK j : j = [job[g] EXCEPT !.doomed = @ \ {n}]
      OBVIOUS
    <2>3. j \in Jobs /\ j.pc = job[g].pc
      BY <1>0, <2>2 DEF Jobs
    <2>4. job' = [job EXCEPT ![g] = j]
      BY <2>1, <2>2 DEF DeleteNode
    <2>5. nodes' \in SUBSET Nodes /\ failures' \in 0..MaxFailures
      BY <1>0, <2>1, FailType DEF DeleteNode, TypeOK
    <2>6. Continues(g)
      BY <2>1, <2>3, <2>4, JobContinues DEF DeleteNode
    <2>7. QED BY <1>0, <2>1, <2>5, <2>6, ContinuesInv DEF DeleteNode, TypeOK
  <1>3. CASE LoadStatus(g)
    <2>1. PICK j : j = [job[g] EXCEPT !.pc = "kic", !.status = configStatus]
      OBVIOUS
    <2>2. j \in Jobs
      BY <1>0, <2>1 DEF Jobs, TypeOK
    <2>3. job' = [job EXCEPT ![g] = j]
      BY <1>0, <1>3, <2>1 DEF LoadStatus
    <2>4. Continues(g)
      BY <1>3, <2>2, <2>3, JobContinues DEF LoadStatus, At
    <2>5. QED BY <1>0, <1>3, <2>4, ContinuesInv DEF LoadStatus, TypeOK, konnectVars
  <1>4. QED BY <1>1, <1>2, <1>3

\* The controller's node is written, the clients are read.
LEMMA UpdateGoesOnInv ==
  ASSUME AgentInv, NEW g \in Goroutines, UpdateKICNode(g) \/ GetGatewayInstances(g)
  PROVE  AgentInv'
  <1>0. TypeOK /\ job \in [Goroutines -> Jobs] /\ job[g] \in Jobs
    BY JobType DEF AgentInv
  <1>1. CASE UpdateKICNode(g)
    <2>1. PICK n \in WrittenNodes(g, KIC) :
            /\ nodes' = nodes \cup {n}
            /\ shown' = [shown EXCEPT ![n[2]] = job[g].status]
            /\ job' = [job EXCEPT ![g] =
                         [HostDone(g, KIC, HostNodes(job[g].list, KIC) \ {n})
                            EXCEPT !.pc = "instances", !.status = OK]]
      BY <1>1 DEF UpdateKICNode
    <2>2. n \in Nodes
      BY <1>0, WrittenType
    <2>3. HostNodes(job[g].list, KIC) \ {n} \in SUBSET Nodes
      BY <1>0 DEF HostNodes, Jobs
    <2>4. PICK d \in Jobs : d = HostDone(g, KIC, HostNodes(job[g].list, KIC) \ {n})
      BY <1>0, <2>3, HostDoneType
    <2>5. [d EXCEPT !.pc = "instances", !.status = OK] \in Jobs
      BY <2>4, StatusesAssumption DEF Jobs
    <2>6. Continues(g)
      BY <1>1, <2>1, <2>4, <2>5, JobContinues DEF UpdateKICNode, At
    <2>7. nodes' \in SUBSET Nodes /\ shown' \in [{"old", "own"} -> Statuses]
      BY <1>0, <2>1, <2>2 DEF TypeOK, Jobs, Nodes
    <2>8. QED BY <1>0, <1>1, <2>6, <2>7, ContinuesInv DEF UpdateKICNode, TypeOK
  <1>2. CASE GetGatewayInstances(g)
    <2>1. PICK t \in SUBSET Addrs : job' = [job EXCEPT ![g].pc = "gateways", ![g].todo = t]
      BY <1>0, <1>2 DEF GetGatewayInstances, TypeOK, ClientsTypeOK
    <2>2. PICK j : j = [job[g] EXCEPT !.pc = "gateways", !.todo = t]
      OBVIOUS
    <2>3. j \in Jobs
      BY <1>0, <2>2 DEF Jobs
    <2>4. job' = [job EXCEPT ![g] = j]
      BY <1>0, <2>1, <2>2
    <2>5. Continues(g)
      BY <1>2, <2>3, <2>4, JobContinues DEF GetGatewayInstances, At
    <2>6. failures' \in 0..MaxFailures
      BY <1>0, <1>2, FailType DEF GetGatewayInstances
    <2>7. seen' = seen \/ (g = "clients" /\ seen' = ready)
      BY <1>2 DEF GetGatewayInstances
    <2>8. QED BY <1>0, <1>2, <2>5, <2>6, <2>7, ContinuesInv
              DEF GetGatewayInstances, TypeOK, konnectVars
  <1>3. QED BY <1>1, <1>2

\* One gateway is done, or failed.
LEMMA UpdateGatewayInv ==
  ASSUME AgentInv, NEW g \in Goroutines, NEW h \in Addrs,
         UpdateGatewayNode(g, h) \/ UpdateGatewayNodeFails(g, h)
  PROVE  AgentInv'
  <1>0. TypeOK /\ job \in [Goroutines -> Jobs] /\ job[g] \in Jobs
    BY JobType DEF AgentInv
  <1>1. CASE UpdateGatewayNode(g, h)
    <2>1. PICK n \in WrittenNodes(g, h) :
            /\ nodes' = nodes \cup {n}
            /\ job' = [job EXCEPT ![g] = HostDone(g, h, HostNodes(job[g].list, h) \ {n})]
      BY <1>1 DEF UpdateGatewayNode
    <2>2. n \in Nodes
      BY <1>0, WrittenType
    <2>3. HostNodes(job[g].list, h) \ {n} \in SUBSET Nodes
      BY <1>0 DEF HostNodes, Jobs
    <2>4. Continues(g)
      BY <1>0, <1>1, <2>1, <2>3, HostDoneType, JobContinues DEF UpdateGatewayNode, At
    <2>5. nodes' \in SUBSET Nodes
      BY <1>0, <2>1, <2>2 DEF TypeOK
    <2>6. QED BY <1>0, <1>1, <2>4, <2>5, ContinuesInv DEF UpdateGatewayNode, TypeOK
  <1>2. CASE UpdateGatewayNodeFails(g, h)
    <2>1. Continues(g)
      BY <1>0, <1>2, HostDoneType, JobContinues DEF UpdateGatewayNodeFails, At
    <2>2. failures' \in 0..MaxFailures
      BY <1>0, <1>2, FailType DEF UpdateGatewayNodeFails
    <2>3. QED BY <1>0, <1>2, <2>1, <2>2, ContinuesInv
              DEF UpdateGatewayNodeFails, TypeOK, konnectVars
  <1>3. QED BY <1>1, <1>2

\* What is left is to go, and the update ends, or a failure ends it.
LEMMA UpdateEndsInv ==
  ASSUME AgentInv, NEW g \in Goroutines, DeleteOtherNodes(g) \/ UpdateEnds(g) \/ CallFails(g)
  PROVE  AgentInv'
  <1>0. TypeOK /\ job \in [Goroutines -> Jobs] /\ job[g] \in Jobs
    BY JobType DEF AgentInv
  <1>1. CASE DeleteOtherNodes(g)
    <2>1. PICK j : j = [job[g] EXCEPT !.pc = "ending", !.list = {}, !.doomed = job[g].list]
      OBVIOUS
    <2>2. j \in Jobs
      BY <1>0, <2>1 DEF Jobs
    <2>3. job' = [job EXCEPT ![g] = j]
      BY <1>0, <1>1, <2>1 DEF DeleteOtherNodes
    <2>4. Continues(g)
      BY <1>1, <2>2, <2>3, JobContinues DEF DeleteOtherNodes, At
    <2>5. QED BY <1>0, <1>1, <2>4, ContinuesInv DEF DeleteOtherNodes, TypeOK, konnectVars
  <1>2. CASE UpdateEnds(g) \/ CallFails(g)
    <2>1. job' = [job EXCEPT ![g] = Idle] /\ agent' \in {"starting", "running", "failed"}
      BY <1>0, <1>2 DEF UpdateEnds, CallFails, Finish, TypeOK
    <2>2. Continues(g)
      BY <1>2, <2>1, IdleType, JobContinues DEF UpdateEnds, CallFails, At
    <2>3. failures' \in 0..MaxFailures
      BY <1>0, <1>2, FailType DEF UpdateEnds, CallFails
    <2>4. QED BY <1>0, <1>2, <2>1, <2>2, <2>3, ContinuesInv
              DEF UpdateEnds, CallFails, TypeOK, konnectVars
  <1>3. QED BY <1>1, <1>2

-----------------------------------------------------------------------------
(* The theorems.                                                           *)

\* The inductive invariant holds in every reachable state.
THEOREM AgentInvariance == Spec => []AgentInv
  <1>1. AgentInv /\ UNCHANGED vars => AgentInv'
    BY DEF AgentInv, TypeOK, ClientsTypeOK, NothingReadBefore, SubscriberSeesChange, vars,
           clientsVars, konnectVars, agentVars
  <1>2. AgentInv /\ [Next]_vars => AgentInv'
    BY <1>1, ManagerInv, WakeInv, UpdateBeginsInv, UpdateGoesOnInv, UpdateGatewayInv, UpdateEndsInv
    DEF Next, UpdateNodes
  <1>3. QED BY AgentInit, <1>2, PTL DEF Spec

\* The variables of the node agent keep their types.
THEOREM AgentTypeCorrect == Spec => []TypeOK
  BY AgentInvariance, PTL DEF AgentInv

\* The agent misses no change of the clients, although the manager may miss a
\* subscriber and the channel has one place.
THEOREM NoChangeMissed == Spec => []SubscriberSeesChange
  BY AgentInvariance, PTL DEF AgentInv
=============================================================================
