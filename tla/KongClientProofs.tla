-------------------------- MODULE KongClientProofs --------------------------
(***************************************************************************)
(* Proofs about KongClient, for any sets of gateways, objects and versions *)
(* and any number of failures, lost answers, crashes, restarts, joins and  *)
(* leaves.                                                                 *)
(***************************************************************************)
EXTENDS KongClient, TLAPS

USE ClientsAssumption, RendersAssumption, FlagsAssumption, BoundsAssumption

-----------------------------------------------------------------------------
(* What the operators return.                                              *)

\* NewKongClient and a restart begin with empty stores and no entities.
LEMMA EmptyTypes == EmptyCache \in Caches /\ EmptyState \in States
BY DEF EmptyCache, Caches, EmptyState, States

\* Reconciling an object replaces or removes one version.
LEMMA CacheUpdateType ==
  ASSUME NEW c \in Caches, NEW o \in Objs, NEW v \in Versions \cup {Absent}
  PROVE  c[o] \in Versions \cup {Absent} /\ [c EXCEPT ![o] = v] \in Caches
BY DEF Caches

\* BuildKongConfig renders every cache to a configuration.
LEMMA TranslateType ==
  ASSUME NEW c \in Caches
  PROVE  Translate(c) \in States
<1>1. \A o \in Objs : (IF c[o] = Absent THEN Nothing ELSE Renders[c[o]]) \in Contents
  BY DEF Caches
<1>2. QED
  BY <1>1 DEF Translate, States

\* Both ways of generating a fallback configuration return cache stores.
LEMMA FallbackTypes ==
  ASSUME NEW c \in Caches, NEW old \in Caches \cup {None}, NEW B
  PROVE  Excluding(c, B) \in Caches /\ Backfilling(c, old, B) \in Caches
<1>1. Excluding(c, B) \in Caches
  BY DEF Excluding, Caches
<1>2. CASE old = None
  BY <1>1, <1>2 DEF Backfilling
<1>3. CASE old # None
  <2> DEFINE back == Affected(old, Affected(c, B))
  <2>1. \A o \in Objs : (IF o \in back THEN old[o] ELSE Excluding(c, B)[o]) \in Versions \cup {Absent}
    BY <1>1, <1>3 DEF Caches
  <2>2. [o \in Objs |-> IF o \in back THEN old[o] ELSE Excluding(c, B)[o]] \in Caches
    BY <2>1 DEF Caches
  <2>3. QED
    BY <1>1, <1>3, <2>2 DEF Backfilling
<1>4. QED
  BY <1>1, <1>2, <1>3

-----------------------------------------------------------------------------
(* Types.                                                                  *)

USE DEF k8sVars, gatewayVars, clientVars, updateVars, countVars

\* The steps of Kubernetes, of the gateways and of the client manager.
LEMMA EnvironmentType ==
  ASSUME TypeOK,
         \/ \E o \in Objs, v \in Versions : K8sApply(o, v)
         \/ \E o \in Objs : K8sDelete(o) \/ CacheSync(o)
         \/ \E g \in Gateways : ClientJoins(g) \/ ClientLeaves(g) \/ GatewayCrash(g)
         \/ ControllerRestart
  PROVE  TypeOK'
<1>1. ASSUME NEW o \in Objs, NEW v \in Versions, K8sApply(o, v) PROVE TypeOK'
  <2>1. k8s' \in Caches /\ spent' \in [Objs -> SUBSET Versions]
    BY <1>1, CacheUpdateType DEF K8sApply, TypeOK
  <2>2. QED
    BY <1>1, <2>1 DEF K8sApply, TypeOK
<1>2. ASSUME NEW o \in Objs, K8sDelete(o) PROVE TypeOK'
  <2>1. k8s' \in Caches
    BY <1>2, CacheUpdateType DEF K8sDelete, TypeOK
  <2>2. QED
    BY <1>2, <2>1 DEF K8sDelete, TypeOK
<1>3. ASSUME NEW o \in Objs, CacheSync(o) PROVE TypeOK'
  <2>1. cache' \in Caches
    BY <1>3, CacheUpdateType DEF CacheSync, TypeOK
  <2>2. QED
    BY <1>3, <2>1 DEF CacheSync, TypeOK
<1>4. ASSUME NEW g \in Gateways, ClientJoins(g) PROVE TypeOK'
  BY <1>4 DEF ClientJoins, TypeOK
<1>5. ASSUME NEW g \in Gateways, ClientLeaves(g) PROVE TypeOK'
  BY <1>5 DEF ClientLeaves, TypeOK
<1>6. ASSUME NEW g \in Gateways, GatewayCrash(g) PROVE TypeOK'
  BY <1>6 DEF GatewayCrash, TypeOK
<1>7. CASE ControllerRestart
  <2>1. /\ sha' \in [Gateways -> States \cup {None}]
        /\ csh' \in [Gateways -> Caches \cup {None}]
        /\ restarts' \in 0..MaxRestarts
    BY <1>7 DEF ControllerRestart, TypeOK
  <2>2. QED
    BY <1>7, <2>1, EmptyTypes DEF ControllerRestart, TypeOK
<1>8. QED
  BY <1>1, <1>2, <1>3, <1>4, <1>5, <1>6, <1>7

\* A tick up to the push.
LEMMA PrepareType ==
  ASSUME TypeOK,
         \/ \E g \in Gateways : UpdateFetch(g)
         \/ UpdateNoFetch \/ UpdateSnapshot \/ UpdateNoSnapshot \/ UpdateBuild
         \/ SendStart \/ SendTargets
  PROVE  TypeOK'
<1>1. ASSUME NEW g \in Gateways, UpdateFetch(g) PROVE TypeOK'
  BY <1>1 DEF UpdateFetch, Convert, TypeOK
<1>2. CASE UpdateNoFetch
  BY <1>2 DEF UpdateNoFetch, Fail, TypeOK
<1>3. CASE UpdateSnapshot
  BY <1>3, EmptyTypes DEF UpdateSnapshot, TakeSnapshotIfChanged, Return, TypeOK
<1>4. CASE UpdateNoSnapshot
  BY <1>4 DEF UpdateNoSnapshot, TypeOK
<1>5. CASE UpdateBuild
  <2>1. target' \in States
    BY <1>5, TranslateType DEF UpdateBuild, SkipInitialEmpty, TypeOK
  <2>2. QED
    BY <1>5, <2>1 DEF UpdateBuild, TypeOK
<1>6. CASE SendStart
  BY <1>6 DEF SendStart, TypeOK
<1>7. CASE SendTargets
  BY <1>7 DEF SendTargets, TypeOK
<1>8. QED
  BY <1>1, <1>2, <1>3, <1>4, <1>5, <1>6, <1>7

\* The end of a push to one gateway.
LEMMA SendType ==
  ASSUME TypeOK, NEW g \in Gateways,
         SendSkip(g) \/ SendAccept(g) \/ SendReject(g) \/ SendFail(g) \/ SendLost(g)
  PROVE  TypeOK'
<1>1. CASE SendSkip(g)
  BY <1>1 DEF SendSkip, Recorded, Finish, TypeOK
<1>2. CASE SendAccept(g)
  BY <1>2 DEF SendAccept, Recorded, Finish, TypeOK
<1>3. CASE SendReject(g)
  BY <1>3 DEF SendReject, Finish, TypeOK
<1>4. CASE SendFail(g)
  BY <1>4 DEF SendFail, Fail, Finish, TypeOK
<1>5. CASE SendLost(g)
  BY <1>5 DEF SendLost, Finish, TypeOK
<1>6. QED
  BY <1>1, <1>2, <1>3, <1>4, <1>5

\* What Update makes of the result of a push.
LEMMA ResultType ==
  ASSUME TypeOK,
         \/ UpdateApplied \/ UpdateFailed \/ RecoverWithFallback \/ FallbackApplied
         \/ RecoverWithLastValid \/ RecoverNothing \/ LastValidPushed
  PROVE  TypeOK'
<1>1. CASE UpdateApplied
  BY <1>1, EmptyTypes DEF UpdateApplied, SendSucceeds, Preserve, Return, TypeOK
<1>2. CASE UpdateFailed
  BY <1>2, EmptyTypes DEF UpdateFailed, Return, TypeOK
<1>3. CASE RecoverWithFallback
  <2>1. builder' \in Caches
    BY <1>3, FallbackTypes DEF RecoverWithFallback, FallbackCache, TypeOK
  <2>2. target' \in States
    BY <1>3, <2>1, TranslateType DEF RecoverWithFallback
  <2>3. QED
    BY <1>3, <2>1, <2>2 DEF RecoverWithFallback, TypeOK
<1>4. CASE FallbackApplied
  BY <1>4, EmptyTypes DEF FallbackApplied, SendSucceeds, Preserve, Return, TypeOK
<1>5. CASE RecoverWithLastValid
  BY <1>5 DEF RecoverWithLastValid, TypeOK
<1>6. CASE RecoverNothing
  BY <1>6, EmptyTypes DEF RecoverNothing, Return, TypeOK
<1>7. CASE LastValidPushed
  BY <1>7, EmptyTypes DEF LastValidPushed, SendSucceeds, Return, TypeOK
<1>8. QED
  BY <1>1, <1>2, <1>3, <1>4, <1>5, <1>6, <1>7

\* Every variable of the client, of an Update under way and of the gateways keeps
\* its type; in particular a configuration that is pushed is never missing: the
\* last valid configuration is used only where there is one.
THEOREM TypeCorrect == Spec => []TypeOK
<1>1. Init => TypeOK
  <2> SUFFICES ASSUME Init PROVE TypeOK
    OBVIOUS
  <2>1. /\ running \in [Gateways -> States \cup {None}]
        /\ sha \in [Gateways -> States \cup {None}]
        /\ csh \in [Gateways -> Caches \cup {None}]
        /\ spent \in [Objs -> SUBSET Versions]
    BY DEF Init
  <2>2. /\ failures \in 0..MaxFailures /\ lost \in 0..MaxLost /\ crashes \in 0..MaxCrashes
        /\ restarts \in 0..MaxRestarts
        /\ joins \in 0..MaxJoins /\ leaves \in 0..MaxLeaves
    BY DEF Init
  <2>3. QED
    BY <2>1, <2>2, EmptyTypes DEF Init, TypeOK
<1>2. TypeOK /\ [Next]_vars => TypeOK'
  <2> SUFFICES ASSUME TypeOK, [Next]_vars PROVE TypeOK'
    OBVIOUS
  <2>1. CASE Update
    BY <2>1, PrepareType, SendType, ResultType DEF Update
  <2>2. CASE \E o \in Objs : CacheSync(o)
    BY <2>2, EnvironmentType
  <2>3. CASE Environment
    BY <2>3, EnvironmentType, SendType DEF Environment
  <2>4. CASE UNCHANGED vars
    BY <2>4 DEF vars, TypeOK
  <2>5. QED
    BY <2>1, <2>2, <2>3, <2>4 DEF Next
<1>3. QED
  BY <1>1, <1>2, PTL DEF Spec

-----------------------------------------------------------------------------
(* The hash of a client.                                                   *)

\* SHATellsTruth for every gateway, the ones without a client included: a gateway
\* that leaves and comes back gets a new client, without a hash.
SHAOfGateway(g) == sha[g] \in {None, running[g]} \/ running[g] = None
SHAInv == lost = 0 => \A g \in Gateways : SHAOfGateway(g)

\* Of the steps of a push only those that end well touch a hash, and they set it
\* to what the gateway then runs.
LEMMA SendKeepsSHA ==
  ASSUME TypeOK, SHAInv, NEW h \in Gateways,
         SendSkip(h) \/ SendAccept(h) \/ SendReject(h) \/ SendFail(h) \/ SendLost(h)
  PROVE  SHAInv'
<1> SUFFICES ASSUME lost' = 0, NEW g \in Gateways PROVE SHAOfGateway(g)'
  BY DEF SHAInv
<1>0. lost = 0 => SHAOfGateway(g)
  BY DEF SHAInv
<1>1. CASE SendSkip(h)
  BY <1>0, <1>1 DEF SendSkip, Changed, Recorded, Finish, SHAOfGateway, TypeOK
<1>2. CASE SendAccept(h)
  BY <1>0, <1>2 DEF SendAccept, Recorded, Finish, SHAOfGateway, TypeOK
<1>3. CASE SendReject(h)
  BY <1>0, <1>3 DEF SendReject, SHAOfGateway
<1>4. CASE SendFail(h)
  BY <1>0, <1>4 DEF SendFail, Fail, SHAOfGateway
<1>5. CASE SendLost(h)
  BY <1>5 DEF SendLost, TypeOK
<1>6. QED
  BY <1>1, <1>2, <1>3, <1>4, <1>5

\* PerformUpdate may rely on the hash it compares with: until an answer is lost,
\* it describes what the gateway runs, for any interleaving of pushes, rejections,
\* failures, crashes, restarts and changes of the client set.
THEOREM SHAIsTruth == Spec => []SHATellsTruth
<1>1. Init => SHAInv
  BY DEF Init, SHAInv, SHAOfGateway
<1>2. TypeOK /\ SHAInv /\ [Next]_vars => SHAInv'
  <2> SUFFICES ASSUME TypeOK, SHAInv, [Next]_vars PROVE SHAInv'
    OBVIOUS
  <2>1. ASSUME NEW h \in Gateways,
               SendSkip(h) \/ SendAccept(h) \/ SendReject(h) \/ SendFail(h) \/ SendLost(h)
        PROVE  SHAInv'
    BY <2>1, SendKeepsSHA
  <2>2. ASSUME NEW h \in Gateways, ClientJoins(h) PROVE SHAInv'
    BY <2>2 DEF ClientJoins, SHAInv, SHAOfGateway, TypeOK
  <2>3. ASSUME NEW h \in Gateways, GatewayCrash(h) PROVE SHAInv'
    BY <2>3 DEF GatewayCrash, SHAInv, SHAOfGateway, TypeOK
  <2>4. CASE ControllerRestart
    BY <2>4 DEF ControllerRestart, SHAInv, SHAOfGateway
  <2>5. CASE UNCHANGED <<running, sha, lost>>
    BY <2>5 DEF SHAInv, SHAOfGateway
  <2>6. CASE Update
    BY <2>1, <2>5, <2>6 DEF Update, Fail, UpdateFetch, UpdateNoFetch, UpdateSnapshot, UpdateNoSnapshot,
         UpdateBuild, SendStart, SendTargets, UpdateApplied, UpdateFailed, RecoverWithFallback,
         FallbackApplied, RecoverWithLastValid, RecoverNothing, LastValidPushed
  <2>7. CASE \E o \in Objs : CacheSync(o)
    BY <2>5, <2>7 DEF CacheSync
  <2>8. CASE Environment
    BY <2>1, <2>2, <2>3, <2>4, <2>5, <2>8 DEF Environment, K8sApply, K8sDelete, ClientLeaves
  <2>9. CASE UNCHANGED vars
    BY <2>5, <2>9 DEF vars
  <2>10. QED
    BY <2>6, <2>7, <2>8, <2>9 DEF Next
<1>3. TypeOK /\ SHAInv => SHATellsTruth
  BY DEF TypeOK, SHAInv, SHAOfGateway, SHATellsTruth
<1>4. QED
  BY <1>1, <1>2, <1>3, TypeCorrect, PTL DEF Spec

-----------------------------------------------------------------------------
(* The last valid configuration.                                           *)

\* Nothing that was rejected is running or recorded.
GatewaysAcceptable ==
  \A g \in Gateways : /\ running[g] # None => Acceptable(running[g])
                      /\ sha[g] # None => Acceptable(sha[g])

\* A push that ends without an error has reached a gateway, until a client leaves.
PushValidates ==
  leaves = 0 =>
  /\ pc = "targets" => clients # {}
  /\ pc = "sending" => todo # {} \/ errs # {} \/ Acceptable(target)

\* The last valid configuration is fetched only before the first push that ends well.
FetchedBefore == pushed => lastValid # None

ValidInv == GatewaysAcceptable /\ PushValidates /\ LastValidIsAcceptable /\ FetchedBefore

\* A push to one gateway.
LEMMA SendKeepsValid ==
  ASSUME TypeOK, ValidInv, NEW h \in Gateways,
         SendSkip(h) \/ SendAccept(h) \/ SendReject(h) \/ SendFail(h) \/ SendLost(h)
  PROVE  ValidInv'
<1>1. CASE SendSkip(h)
  <2>1. sha[h] = target /\ Acceptable(target)
    BY <1>1, DistinctAssumption DEF SendSkip, Changed, ValidInv, GatewaysAcceptable, TypeOK, States
  <2>2. GatewaysAcceptable'
    BY <1>1, <2>1 DEF SendSkip, Recorded, ValidInv, GatewaysAcceptable, TypeOK
  <2>3. QED
    BY <1>1, <2>1, <2>2 DEF SendSkip, Finish, ValidInv, PushValidates, LastValidIsAcceptable, FetchedBefore
<1>2. CASE SendAccept(h)
  <2>1. GatewaysAcceptable'
    BY <1>2 DEF SendAccept, Recorded, ValidInv, GatewaysAcceptable, TypeOK
  <2>2. QED
    BY <1>2, <2>1 DEF SendAccept, Finish, ValidInv, PushValidates, LastValidIsAcceptable, FetchedBefore
<1>3. CASE SendReject(h)
  BY <1>3 DEF SendReject, Finish, ValidInv, GatewaysAcceptable, PushValidates, LastValidIsAcceptable, FetchedBefore
<1>4. CASE SendFail(h)
  BY <1>4 DEF SendFail, Fail, Finish, ValidInv, GatewaysAcceptable, PushValidates, LastValidIsAcceptable, FetchedBefore
<1>5. CASE SendLost(h)
  <2>1. GatewaysAcceptable'
    BY <1>5 DEF SendLost, ValidInv, GatewaysAcceptable, TypeOK
  <2>2. QED
    BY <1>5, <2>1 DEF SendLost, Finish, ValidInv, PushValidates, LastValidIsAcceptable, FetchedBefore
<1>6. QED
  BY <1>1, <1>2, <1>3, <1>4, <1>5

\* The other steps of Update.
LEMMA UpdateKeepsValid ==
  ASSUME TypeOK, ValidInv, Update
  PROVE  ValidInv'
<1>0. target # None
  BY DistinctAssumption DEF TypeOK, States
<1>1. ASSUME NEW g \in Gateways, UpdateFetch(g) PROVE ValidInv'
  BY <1>1 DEF UpdateFetch, ValidInv, GatewaysAcceptable, PushValidates, LastValidIsAcceptable, FetchedBefore
<1>2. CASE UpdateNoFetch
  BY <1>2 DEF UpdateNoFetch, Fail, ValidInv, GatewaysAcceptable, PushValidates, LastValidIsAcceptable, FetchedBefore
<1>3. CASE UpdateSnapshot
  BY <1>3 DEF UpdateSnapshot, Return, ValidInv, GatewaysAcceptable, PushValidates, LastValidIsAcceptable, FetchedBefore
<1>4. CASE UpdateNoSnapshot
  BY <1>4 DEF UpdateNoSnapshot, ValidInv, GatewaysAcceptable, PushValidates, LastValidIsAcceptable, FetchedBefore
<1>5. CASE UpdateBuild
  BY <1>5 DEF UpdateBuild, ValidInv, GatewaysAcceptable, PushValidates, LastValidIsAcceptable, FetchedBefore
<1>6. CASE SendStart
  BY <1>6 DEF SendStart, ValidInv, GatewaysAcceptable, PushValidates, LastValidIsAcceptable, FetchedBefore
<1>7. CASE SendTargets
  BY <1>7 DEF SendTargets, ValidInv, GatewaysAcceptable, PushValidates, LastValidIsAcceptable, FetchedBefore
<1>8. CASE UpdateApplied
  BY <1>0, <1>8 DEF UpdateApplied, SendSucceeds, Return, ValidInv, GatewaysAcceptable, PushValidates, LastValidIsAcceptable, FetchedBefore
<1>9. CASE UpdateFailed
  BY <1>9 DEF UpdateFailed, Return, ValidInv, GatewaysAcceptable, PushValidates, LastValidIsAcceptable, FetchedBefore
<1>10. CASE RecoverWithFallback
  BY <1>10 DEF RecoverWithFallback, ValidInv, GatewaysAcceptable, PushValidates, LastValidIsAcceptable, FetchedBefore
<1>11. CASE FallbackApplied
  BY <1>0, <1>11 DEF FallbackApplied, SendSucceeds, Return, ValidInv, GatewaysAcceptable, PushValidates, LastValidIsAcceptable, FetchedBefore
<1>12. CASE RecoverWithLastValid
  BY <1>12 DEF RecoverWithLastValid, ValidInv, GatewaysAcceptable, PushValidates, LastValidIsAcceptable, FetchedBefore
<1>13. CASE RecoverNothing
  BY <1>13 DEF RecoverNothing, Return, ValidInv, GatewaysAcceptable, PushValidates, LastValidIsAcceptable, FetchedBefore
<1>14. CASE LastValidPushed
  BY <1>0, <1>14 DEF LastValidPushed, SendSucceeds, Return, ValidInv, GatewaysAcceptable, PushValidates, LastValidIsAcceptable, FetchedBefore
<1>15. QED
  BY <1>1, <1>2, <1>3, <1>4, <1>5, <1>6, <1>7, <1>8, <1>9, <1>10, <1>11, <1>12, <1>13, <1>14,
     SendKeepsValid DEF Update

\* The steps around it.
LEMMA EnvironmentKeepsValid ==
  ASSUME TypeOK, ValidInv, Environment \/ \E o \in Objs : CacheSync(o)
  PROVE  ValidInv'
<1>1. ASSUME NEW g \in Gateways, ClientJoins(g) PROVE ValidInv'
  <2>1. GatewaysAcceptable'
    BY <1>1 DEF ClientJoins, ValidInv, GatewaysAcceptable, TypeOK
  <2>2. QED
    BY <1>1, <2>1 DEF ClientJoins, ValidInv, PushValidates, LastValidIsAcceptable, FetchedBefore
<1>2. ASSUME NEW g \in Gateways, ClientLeaves(g) PROVE ValidInv'
  BY <1>2 DEF ClientLeaves, ValidInv, GatewaysAcceptable, PushValidates, LastValidIsAcceptable, FetchedBefore, TypeOK
<1>3. ASSUME NEW g \in Gateways, GatewayCrash(g) PROVE ValidInv'
  <2>1. GatewaysAcceptable'
    BY <1>3 DEF GatewayCrash, ValidInv, GatewaysAcceptable, TypeOK
  <2>2. QED
    BY <1>3, <2>1 DEF GatewayCrash, ValidInv, PushValidates, LastValidIsAcceptable, FetchedBefore
<1>4. CASE ControllerRestart
  BY <1>4 DEF ControllerRestart, ValidInv, GatewaysAcceptable, PushValidates, LastValidIsAcceptable, FetchedBefore
<1>5. CASE UNCHANGED <<gatewayVars, clientVars, updateVars, countVars>>
  BY <1>5 DEF ValidInv, GatewaysAcceptable, PushValidates, LastValidIsAcceptable, FetchedBefore
<1>6. QED
  BY <1>1, <1>2, <1>3, <1>4, <1>5, SendKeepsValid DEF Environment, K8sApply, K8sDelete, CacheSync

\* Rejected configurations are neither run nor kept, whatever is lost or restarted.
THEOREM ValidInvariance == Spec => []ValidInv
<1>1. Init => ValidInv
  BY DEF Init, ValidInv, GatewaysAcceptable, PushValidates, LastValidIsAcceptable, FetchedBefore
<1>2. TypeOK /\ ValidInv /\ [Next]_vars => ValidInv'
  <2> SUFFICES ASSUME TypeOK, ValidInv, [Next]_vars PROVE ValidInv'
    OBVIOUS
  <2>1. CASE UNCHANGED vars
    BY <2>1 DEF vars, ValidInv, GatewaysAcceptable, PushValidates, LastValidIsAcceptable, FetchedBefore
  <2>2. QED
    BY <2>1, UpdateKeepsValid, EnvironmentKeepsValid DEF Next
<1>3. QED
  BY <1>1, <1>2, TypeCorrect, PTL DEF Spec

\* The recovery may rely on the configuration it falls back to: as long as no
\* client leaves, StoreLastValidConfig is reached only with a configuration that a
\* gateway has accepted, and from the first one on nothing else is stored: a
\* configuration fetched from a gateway, of which nothing is claimed, never takes
\* its place.  Lost answers, crashes and restarts do not matter.
THEOREM LastValidAccepted == Spec => []LastValidIsAcceptable
<1>1. ValidInv => LastValidIsAcceptable
  BY DEF ValidInv
<1>2. QED
  BY <1>1, ValidInvariance, PTL

-----------------------------------------------------------------------------
(* What Konnect is told.                                                   *)

\* A push that has ended without an error is recorded for a gateway that still
\* has the same client, until one leaves.
PushRecorded ==
  leaves = 0 =>
  /\ clients # {}
  /\ todo \subseteq clients
  /\ pc = "sending" => todo # {} \/ errs # {} \/ \E g \in clients : sha[g] = target

\* A push to one gateway.
LEMMA SendKeepsRecorded ==
  ASSUME TypeOK, PushRecorded, NEW h \in Gateways,
         SendSkip(h) \/ SendAccept(h) \/ SendReject(h) \/ SendFail(h) \/ SendLost(h)
  PROVE  PushRecorded'
<1>1. CASE SendSkip(h) \/ SendAccept(h)
  <2>1. (leaves = 0 => h \in clients) /\ h \in todo /\ leaves' = leaves /\ sha' = [sha EXCEPT ![h] = target] /\ Finish(h)
    BY <1>1 DEF SendSkip, SendAccept, Recorded, PushRecorded
  <2>2. sha'[h] = target'
    BY <2>1 DEF Finish, TypeOK
  <2>3. QED
    BY <2>1, <2>2 DEF Finish, PushRecorded
<1>2. CASE SendReject(h) \/ SendFail(h) \/ SendLost(h)
  BY <1>2 DEF SendReject, SendFail, SendLost, Fail, Finish, PushRecorded
<1>3. QED
  BY <1>1, <1>2

\* Every step keeps it.
LEMMA NextKeepsRecorded ==
  ASSUME TypeOK, PushRecorded, [Next]_vars
  PROVE  PushRecorded'
<1>1. ASSUME NEW g \in Gateways, ClientJoins(g) PROVE PushRecorded'
  BY <1>1 DEF ClientJoins, PushRecorded, TypeOK
<1>2. ASSUME NEW g \in Gateways, ClientLeaves(g) PROVE PushRecorded'
  BY <1>2 DEF ClientLeaves, PushRecorded, TypeOK
<1>3. CASE ControllerRestart
  BY <1>3 DEF ControllerRestart, PushRecorded
<1>4. CASE SendTargets
  BY <1>4 DEF SendTargets, PushRecorded
<1>5. CASE clients' = clients /\ leaves' = leaves /\ todo' \subseteq todo /\ pc' # "sending"
  BY <1>5 DEF PushRecorded
<1>6. CASE UNCHANGED <<clients, sha, pc, target, todo, errs, leaves>>
  BY <1>6 DEF PushRecorded
<1>7. CASE Update
  <2>1. ASSUME NEW g \in Gateways, UpdateFetch(g) PROVE PushRecorded'
    BY <1>5, <2>1 DEF UpdateFetch
  <2>2. CASE UpdateNoFetch \/ UpdateSnapshot \/ UpdateNoSnapshot \/ UpdateBuild \/ SendStart
    BY <1>5, <2>2 DEF UpdateNoFetch, Fail, UpdateSnapshot, UpdateNoSnapshot, UpdateBuild, SendStart, Return
  <2>3. CASE UpdateApplied \/ UpdateFailed \/ FallbackApplied \/ RecoverNothing \/ LastValidPushed
    BY <1>5, <2>3 DEF UpdateApplied, UpdateFailed, FallbackApplied, RecoverNothing, LastValidPushed, Return
  <2>4. CASE RecoverWithFallback \/ RecoverWithLastValid
    BY <1>5, <2>4 DEF RecoverWithFallback, RecoverWithLastValid
  <2>5. QED
    BY <1>4, <1>7, <2>1, <2>2, <2>3, <2>4, SendKeepsRecorded DEF Update
<1>8. CASE Environment \/ \E o \in Objs : CacheSync(o)
  BY <1>1, <1>2, <1>3, <1>6, <1>8, SendKeepsRecorded
     DEF Environment, K8sApply, K8sDelete, GatewayCrash, CacheSync
<1>9. QED
  BY <1>6, <1>7, <1>8 DEF Next, vars

\* "Send configuration to Konnect only when successfully applied": while there are
\* clients and none leaves, what Konnect is told was applied to a gateway.
THEOREM KonnectToldApplied ==
  InitialClients # {} => (Spec => KonnectSeesApplied)
<1> SUFFICES ASSUME InitialClients # {} PROVE Spec => KonnectSeesApplied
  OBVIOUS
<1> DEFINE Told == konnect' # konnect /\ konnect' # None /\ leaves = 0 => \E g \in Gateways : sha[g] = konnect'
<1>1. Init => PushRecorded
  BY DEF Init, PushRecorded
<1>2. TypeOK /\ PushRecorded /\ [Next]_vars => PushRecorded'
  BY NextKeepsRecorded
<1>3. TypeOK /\ PushRecorded /\ [Next]_vars => [Told]_vars
  <2> SUFFICES ASSUME TypeOK, PushRecorded, Next, konnect' # konnect, konnect' # None, leaves = 0
               PROVE  \E g \in Gateways : sha[g] = konnect'
    BY DEF vars
  <2>1. UpdateApplied \/ FallbackApplied
    BY DEF Next, Update, Environment, CacheSync, UpdateFetch, UpdateNoFetch, UpdateSnapshot,
         UpdateNoSnapshot, UpdateBuild, SendStart, SendTargets, SendSkip, SendAccept, SendReject,
         SendFail, SendLost, Finish, UpdateFailed, RecoverWithFallback, RecoverWithLastValid,
         RecoverNothing, LastValidPushed, K8sApply, K8sDelete, ClientJoins, ClientLeaves,
         GatewayCrash, ControllerRestart
  <2>2. konnect' = target /\ pc = "sending" /\ todo = {} /\ errs = {}
    BY <2>1 DEF UpdateApplied, FallbackApplied, SendSucceeds, PushRecorded
  <2>3. QED
    BY <2>2 DEF PushRecorded, TypeOK
<1>4. QED
  BY <1>1, <1>2, <1>3, TypeCorrect, PTL DEF Spec, KonnectSeesApplied

-----------------------------------------------------------------------------
(* The last valid cache.                                                   *)

\* Update has a configuration to push.
Pushing == pc \in {"send", "targets", "sending"}

\* What the push is made from: the snapshot first, then the fallback cache, then
\* the last valid configuration.
PushSource ==
  /\ pc \in {"build"} \/ Pushing => clients # {}
  /\ pc \in {"idle", "snapshot", "build"} => phase = "current"
  /\ Pushing /\ phase \in {"current", "fallback"} => target = Translate(builder)
  /\ Pushing /\ phase = "lastValid" => lastValid # None /\ target = lastValid
  /\ (pc = "build" \/ Pushing) /\ phase = "current" /\ snapshot # None => builder = snapshot

\* Gateways run something only when there is a last valid configuration, or while
\* they are given one they accept; a push fails only by a rejection.
RunsLastValid ==
  /\ lastValid = None => \A g \in Gateways : running[g] # None => pc = "sending" /\ Acceptable(target)
  /\ ~pushed => lastValid = None
  /\ pc = "sending" /\ errs # {} => ~Acceptable(target)
  /\ "transport" \notin errs

\* A push on an unchanged cache repeats one that was rejected.
RetriesRejected ==
  /\ pc = "sending" /\ errs = {} => \A g \in clients \ todo : csh[g] = lastProcessed
  /\ pc \in {"idle", "snapshot"} /\ lastProcessed # None =>
       (\A g \in clients : csh[g] = lastProcessed) \/ ~Acceptable(Translate(builder))
  /\ (pc = "build" \/ Pushing) /\ phase = "current" /\ snapshot = None => ~Acceptable(Translate(builder))

CacheMatches == lastValidCache # None /\ lastValid # None => Translate(lastValidCache) = lastValid

Preserving == FallbackConfiguration /\ UseLastValidConfigForFallback
Preserved == PushSource /\ RunsLastValid /\ RetriesRejected /\ CacheMatches
PreserveInv ==
  IF Preserving THEN Undisturbed => Preserved ELSE lastValidCache = None

\* Whatever disturbs an Update is counted and not forgotten.
LEMMA DisturbedForGood ==
  ASSUME TypeOK, [Next]_vars, Undisturbed'
  PROVE  Undisturbed
<1>1. CASE UNCHANGED countVars
  BY <1>1 DEF Undisturbed
<1>2. ASSUME NEW g \in Gateways, ClientJoins(g) \/ ClientLeaves(g) \/ GatewayCrash(g) PROVE Undisturbed
  BY <1>2 DEF ClientJoins, ClientLeaves, GatewayCrash, Undisturbed, TypeOK
<1>3. ASSUME NEW g \in Gateways, SendFail(g) \/ SendLost(g) PROVE Undisturbed
  BY <1>3 DEF SendFail, Fail, SendLost, Undisturbed, TypeOK
<1>4. CASE ControllerRestart
  BY <1>4 DEF ControllerRestart, Undisturbed, TypeOK
<1>5. CASE UpdateNoFetch
  BY <1>5 DEF UpdateNoFetch, Fail, Undisturbed, TypeOK
<1>6. CASE Update
  BY <1>1, <1>5, <1>6 DEF Update, UpdateFetch, UpdateSnapshot, UpdateNoSnapshot, UpdateBuild, SendStart,
       SendTargets, SendSkip, SendAccept, SendReject, UpdateApplied, UpdateFailed, RecoverWithFallback,
       FallbackApplied, RecoverWithLastValid, RecoverNothing, LastValidPushed
<1>7. CASE Environment \/ \E o \in Objs : CacheSync(o)
  BY <1>1, <1>2, <1>3, <1>4, <1>7 DEF Environment, K8sApply, K8sDelete, CacheSync
<1>8. QED
  BY <1>1, <1>6, <1>7 DEF Next, vars

\* A tick up to the push.
LEMMA PrepareKeepsPreserved ==
  ASSUME TypeOK, Preserving, Undisturbed, Undisturbed', Preserved,
         \/ \E g \in Gateways : UpdateFetch(g)
         \/ UpdateNoFetch \/ UpdateSnapshot \/ UpdateNoSnapshot \/ UpdateBuild
         \/ SendStart \/ SendTargets
  PROVE  Preserved'
<1> USE DEF Preserved
<1>1. ASSUME NEW g \in Gateways, UpdateFetch(g) PROVE FALSE
  BY <1>1 DEF UpdateFetch, RunsLastValid
<1>2. CASE UpdateNoFetch
  BY <1>2 DEF UpdateNoFetch, PushSource, RunsLastValid, RetriesRejected, CacheMatches, Pushing
<1>3. CASE UpdateSnapshot
  <2>1. RunsLastValid' /\ CacheMatches'
    BY <1>3 DEF UpdateSnapshot, Return, RunsLastValid, CacheMatches
  <2>2. CASE \A g \in clients : csh[g] = lastProcessed'
    BY <1>3, <2>1, <2>2 DEF UpdateSnapshot, Return, PushSource, RetriesRejected, Pushing
  <2>3. CASE ~\A g \in clients : csh[g] = lastProcessed'
    <3>1. pc' = "build" /\ snapshot' = TakeSnapshotIfChanged(lastProcessed) /\ phase' = phase /\ clients' = clients
      BY <1>3, <2>3 DEF UpdateSnapshot
    <3>2. PushSource'
      BY <1>3, <2>3, <3>1 DEF UpdateSnapshot, TakeSnapshotIfChanged, PushSource, Pushing
    <3>3. RetriesRejected'
      <4>1. CASE cache = lastProcessed
        BY <1>3, <2>3, <3>1, <4>1, DistinctAssumption
           DEF UpdateSnapshot, TakeSnapshotIfChanged, RetriesRejected, Pushing, TypeOK, Caches
      <4>2. CASE cache # lastProcessed
        BY <1>3, <2>3, <3>1, <4>2, DistinctAssumption
           DEF UpdateSnapshot, TakeSnapshotIfChanged, RetriesRejected, Pushing, TypeOK, Caches
      <4>3. QED
        BY <4>1, <4>2
    <3>4. QED
      BY <2>1, <3>2, <3>3
  <2>4. QED
    BY <2>2, <2>3
<1>4. CASE UpdateNoSnapshot
  BY <1>4 DEF UpdateNoSnapshot, Preserving
<1>5. CASE UpdateBuild
  <2>1. target' = Translate(builder)
    BY <1>5 DEF UpdateBuild, SkipInitialEmpty, RunsLastValid
  <2>2. PushSource'
    BY <1>5, <2>1 DEF UpdateBuild, PushSource, Pushing
  <2>3. RetriesRejected' /\ CacheMatches' /\ RunsLastValid'
    BY <1>5 DEF UpdateBuild, RetriesRejected, CacheMatches, RunsLastValid, Pushing
  <2>4. QED
    BY <2>2, <2>3
<1>6. CASE SendStart
  BY <1>6 DEF SendStart, PushSource, RunsLastValid, RetriesRejected, CacheMatches, Pushing
<1>7. CASE SendTargets
  BY <1>7 DEF SendTargets, PushSource, RunsLastValid, RetriesRejected, CacheMatches, Pushing
<1>8. QED
  BY <1>1, <1>2, <1>3, <1>4, <1>5, <1>6, <1>7

\* A push to one gateway.
LEMMA SendKeepsPreserved ==
  ASSUME TypeOK, Undisturbed, Undisturbed', Preserved, NEW h \in Gateways,
         SendSkip(h) \/ SendAccept(h) \/ SendReject(h) \/ SendFail(h) \/ SendLost(h)
  PROVE  Preserved'
<1> USE DEF Preserved
<1>1. CASE SendSkip(h) \/ SendAccept(h)
  <2>1. Recorded(h) /\ Finish(h) /\ UNCHANGED errs /\ pc = "sending"
    BY <1>1 DEF SendSkip, SendAccept
  <2>2. PushSource' /\ CacheMatches'
    BY <2>1 DEF Finish, PushSource, CacheMatches, Pushing
  <2>3. RetriesRejected'
    BY <2>1 DEF Finish, Recorded, RetriesRejected, Pushing, TypeOK
  <2>4. RunsLastValid'
    BY <1>1, <2>1 DEF SendSkip, SendAccept, Finish, RunsLastValid, TypeOK
  <2>5. QED
    BY <2>2, <2>3, <2>4
<1>2. CASE SendReject(h)
  <2>1. "transport" \notin errs'
    BY <1>2 DEF SendReject, RunsLastValid
  <2>2. QED
    BY <1>2, <2>1 DEF SendReject, Finish, PushSource, RunsLastValid, RetriesRejected, CacheMatches, Pushing
<1>3. CASE SendFail(h) \/ SendLost(h)
  BY <1>3 DEF SendFail, Fail, SendLost, Undisturbed
<1>4. QED
  BY <1>1, <1>2, <1>3

\* What Update makes of the result of a push.  A push of the last valid
\* configuration is not rejected; one that succeeds was made from a snapshot.
LEMMA ResultKeepsPreserved ==
  ASSUME TypeOK, ValidInv, Preserving, Undisturbed, Preserved,
         \/ UpdateApplied \/ UpdateFailed \/ RecoverWithFallback \/ FallbackApplied
         \/ RecoverWithLastValid \/ RecoverNothing \/ LastValidPushed
  PROVE  Preserved'
<1> USE DEF Preserved
<1>1. ASSUME SendSucceeds
      PROVE  /\ pc = "sending" /\ Acceptable(target) /\ lastValid' = target /\ pushed' = TRUE
             /\ target # None
             /\ \A g \in clients : csh[g] = lastProcessed
  <2>1. pc = "sending" /\ todo = {} /\ errs = {} /\ pushed' = TRUE /\ lastValid' = target
    BY <1>1 DEF SendSucceeds, PushSource, Pushing
  <2>2. Acceptable(target)
    BY <2>1 DEF ValidInv, PushValidates, Undisturbed
  <2>3. QED
    BY <2>1, <2>2, DistinctAssumption DEF RetriesRejected, TypeOK, States
<1>2. ASSUME SendFails
      PROVE  pc = "sending" /\ ~Acceptable(target) /\ phase # "lastValid"
  <2>1. pc = "sending" /\ ~Acceptable(target)
    BY <1>2 DEF SendFails, RunsLastValid
  <2>2. QED
    BY <2>1 DEF PushSource, RunsLastValid, Pushing, ValidInv, LastValidIsAcceptable, Undisturbed
<1>3. CASE UpdateApplied
  <2>1. snapshot # None /\ builder = snapshot /\ target = Translate(builder)
    BY <1>1, <1>3 DEF UpdateApplied, PushSource, RetriesRejected, Pushing
  <2>2. lastValidCache' = snapshot
    BY <1>3, <2>1 DEF UpdateApplied, Preserve, Preserving
  <2>3. CacheMatches'
    BY <1>1, <1>3, <2>1, <2>2 DEF UpdateApplied, CacheMatches
  <2>4. RunsLastValid'
    BY <1>1, <1>3 DEF UpdateApplied, Return, RunsLastValid
  <2>5. PushSource' /\ RetriesRejected'
    BY <1>1, <1>3 DEF UpdateApplied, Return, PushSource, RetriesRejected, Pushing
  <2>6. QED
    BY <2>3, <2>4, <2>5
<1>4. CASE FallbackApplied
  <2>1. target = Translate(builder)
    BY <1>1, <1>4 DEF FallbackApplied, PushSource, Pushing
  <2>2. lastValidCache' = builder
    BY <1>4 DEF FallbackApplied, Preserve, Preserving
  <2>3. CacheMatches'
    BY <1>1, <1>4, <2>1, <2>2 DEF FallbackApplied, CacheMatches
  <2>4. RunsLastValid'
    BY <1>1, <1>4 DEF FallbackApplied, Return, RunsLastValid
  <2>5. PushSource' /\ RetriesRejected'
    BY <1>1, <1>4 DEF FallbackApplied, Return, PushSource, RetriesRejected, Pushing
  <2>6. QED
    BY <2>3, <2>4, <2>5
<1>5. CASE LastValidPushed
  <2>1. SendSucceeds
    BY <1>2, <1>5 DEF LastValidPushed
  <2>2. lastValid' = lastValid /\ lastValid # None
    BY <1>1, <1>5, <2>1 DEF LastValidPushed, PushSource, Pushing
  <2>3. CacheMatches'
    BY <1>5, <2>2 DEF LastValidPushed, CacheMatches
  <2>4. RunsLastValid'
    BY <1>1, <1>5, <2>1, <2>2 DEF LastValidPushed, Return, RunsLastValid
  <2>5. PushSource' /\ RetriesRejected'
    BY <1>1, <1>5, <2>1 DEF LastValidPushed, Return, PushSource, RetriesRejected, Pushing
  <2>6. QED
    BY <2>3, <2>4, <2>5
<1>6. CASE UpdateFailed
  BY <1>6 DEF UpdateFailed, RunsLastValid
<1>7. CASE RecoverNothing
  <2>1. ~Acceptable(Translate(builder)) /\ pc = "sending" /\ ~Acceptable(target)
    BY <1>2, <1>7 DEF RecoverNothing, FallbackUnavailable, PushSource, Pushing, TypeOK
  <2>2. RunsLastValid'
    BY <1>7, <2>1 DEF RecoverNothing, Return, RunsLastValid
  <2>3. QED
    BY <1>7, <2>1, <2>2 DEF RecoverNothing, Return, PushSource, RetriesRejected, CacheMatches, Pushing
<1>8. CASE RecoverWithFallback
  <2>1. pc = "sending" /\ ~Acceptable(target)
    BY <1>2, <1>8 DEF RecoverWithFallback
  <2>2. RunsLastValid'
    BY <1>8, <2>1 DEF RecoverWithFallback, RunsLastValid
  <2>3. QED
    BY <1>8, <2>1, <2>2 DEF RecoverWithFallback, PushSource, RetriesRejected, CacheMatches, Pushing
<1>9. CASE RecoverWithLastValid
  <2>1. pc = "sending"
    BY <1>2, <1>9 DEF RecoverWithLastValid, FallbackUnavailable
  <2>2. RunsLastValid'
    BY <1>9 DEF RecoverWithLastValid, RunsLastValid
  <2>3. QED
    BY <1>9, <2>1, <2>2 DEF RecoverWithLastValid, PushSource, RetriesRejected, CacheMatches, Pushing
<1>10. QED
  BY <1>3, <1>4, <1>5, <1>6, <1>7, <1>8, <1>9

\* The steps around an Update.
LEMMA EnvironmentKeepsPreserved ==
  ASSUME TypeOK, Undisturbed, Undisturbed', Preserved,
         Environment \/ (\E o \in Objs : CacheSync(o)) \/ UNCHANGED vars
  PROVE  Preserved'
<1> USE DEF Preserved
<1>1. ASSUME NEW g \in Gateways, ClientJoins(g) \/ ClientLeaves(g) PROVE FALSE
  BY <1>1 DEF ClientJoins, ClientLeaves, Undisturbed
<1>2. ASSUME NEW g \in Gateways, GatewayCrash(g) PROVE Preserved'
  <2>1. RunsLastValid'
    BY <1>2 DEF GatewayCrash, RunsLastValid, TypeOK
  <2>2. QED
    BY <1>2, <2>1 DEF GatewayCrash, PushSource, RetriesRejected, CacheMatches, Pushing
<1>3. CASE ControllerRestart
  BY <1>3 DEF ControllerRestart, Undisturbed
<1>4. CASE UNCHANGED <<gatewayVars, clientVars, updateVars>>
  BY <1>4 DEF PushSource, RunsLastValid, RetriesRejected, CacheMatches, Pushing
<1>5. QED
  BY <1>1, <1>2, <1>3, <1>4, SendKeepsPreserved DEF Environment, K8sApply, K8sDelete, CacheSync, vars

\* Without the two features no cache is ever preserved.
LEMMA NothingPreserved ==
  ASSUME ~Preserving, lastValidCache = None, [Next]_vars
  PROVE  lastValidCache' = None
BY DEF Preserving, Preserve, Next, Update, Environment, CacheSync, UpdateFetch, UpdateNoFetch, UpdateSnapshot,
   UpdateNoSnapshot, UpdateBuild, SendStart, SendTargets, SendSkip, SendAccept, SendReject, SendFail,
   SendLost, Finish, UpdateApplied, UpdateFailed, RecoverWithFallback, FallbackApplied, RecoverWithLastValid,
   RecoverNothing, LastValidPushed, K8sApply, K8sDelete, ClientJoins, ClientLeaves, GatewayCrash,
   ControllerRestart, vars

\* The invariant of the snapshots, for every behaviour.
THEOREM PreserveInvariance == Spec => []PreserveInv
<1>1. Init => PreserveInv
  <2> SUFFICES ASSUME Init PROVE Preserved /\ lastValidCache = None
    BY DEF PreserveInv
  <2>1. QED
    BY DEF Init, Preserved, PushSource, RunsLastValid, RetriesRejected, CacheMatches, Pushing
<1>2. TypeOK /\ ValidInv /\ PreserveInv /\ [Next]_vars => PreserveInv'
  <2> SUFFICES ASSUME TypeOK, ValidInv, PreserveInv, [Next]_vars PROVE PreserveInv'
    OBVIOUS
  <2>1. CASE ~Preserving
    BY <2>1, NothingPreserved DEF PreserveInv, Preserving
  <2>2. ASSUME Preserving, Undisturbed' PROVE Preserved'
    <3>1. Undisturbed /\ Preserved
      BY <2>2, DisturbedForGood DEF PreserveInv
    <3>2. QED
      BY <2>2, <3>1, PrepareKeepsPreserved, SendKeepsPreserved, ResultKeepsPreserved,
         EnvironmentKeepsPreserved DEF Next, Update
  <2>3. QED
    BY <2>1, <2>2 DEF PreserveInv, Preserving
<1>3. QED
  BY <1>1, <1>2, TypeCorrect, ValidInvariance, PTL DEF Spec

\* lastValidCacheSnapshot and the last valid configuration stay together through
\* rejections, fallback configurations, crashes of gateways and any changes of
\* the objects: the one renders to the other.
THEOREM LastValidCacheSynced == Spec => []LastValidCacheWasSynced
<1>1. PreserveInv => LastValidCacheWasSynced
  BY DEF PreserveInv, Preserved, CacheMatches, LastValidCacheWasSynced
<1>2. QED
  BY <1>1, PreserveInvariance, PTL

-----------------------------------------------------------------------------
(* What is served is kept.                                                 *)

\* GenerateBackfillingBrokenObjects invents nothing, and drops an object of the
\* last valid cache only when the snapshot does not have it.
LEMMA BackfillingKeeps ==
  ASSUME NEW c \in Caches, NEW old \in Caches \cup {None}, NEW B, NEW o \in Objs
  PROVE  /\ c[o] = Absent /\ (old # None => old[o] = Absent) => Backfilling(c, old, B)[o] = Absent
         /\ old # None /\ old[o] # Absent /\ Backfilling(c, old, B)[o] = Absent => c[o] = Absent
<1>1. c[o] = Absent => Excluding(c, B)[o] = Absent
  BY DEF Excluding
<1>2. CASE old = None
  BY <1>1, <1>2 DEF Backfilling
<1>3. CASE old # None
  <2> DEFINE back == Affected(old, Affected(c, B))
  <2>1. Backfilling(c, old, B)[o] = IF o \in back THEN old[o] ELSE Excluding(c, B)[o]
    BY <1>3 DEF Backfilling
  <2>2. old[o] # Absent => o \in Subgraph(old, o)
    BY DEF Subgraph, Present
  <2>3. old[o] # Absent /\ o \in Affected(c, B) => o \in back
    BY <2>2 DEF Affected
  <2>4. o \notin Affected(c, B) => Excluding(c, B)[o] = c[o]
    BY DEF Excluding
  <2>5. QED
    BY <1>1, <1>3, <2>1, <2>3, <2>4
<1>4. QED
  BY <1>2, <1>3

\* Nothing is known of the object outside Kubernetes and the cache.
Unseen(o) ==
  /\ builder[o] = Absent /\ target[o] = Nothing
  /\ snapshot # None => snapshot[o] = Absent
  /\ lastValidCache # None => lastValidCache[o] = Absent
  /\ lastValid # None => lastValid[o] = Nothing
  /\ \A g \in Gateways : running[g] # None => running[g][o] = Nothing

\* An object comes to the gateways through the cache, and leaves the cache only
\* when it is deleted.
SeenInCache ==
  /\ \A o \in Objs : k8s[o] # Absent \/ cache[o] # Absent => spent[o] # {}
  /\ \A o \in Objs : cache[o] = Absent /\ (k8s[o] # Absent \/ spent[o] = {}) => Unseen(o)

\* What a gateway serves and the pushed cache does not have was deleted.
DropsDeleted ==
  (pc = "build" \/ Pushing) /\ ((phase = "current" /\ snapshot # None) \/ phase = "fallback") =>
    \A g \in Gateways, o \in Objs :
      running[g] # None /\ running[g][o] # Nothing /\ builder[o] = Absent => k8s[o] = Absent

\* A gateway runs the last valid configuration or, during a push, the next one.
RunsPushed ==
  /\ \A g \in Gateways : running[g] # None =>
       \/ running[g] = lastValid
       \/ pc = "sending" /\ running[g] = target /\ Acceptable(target)
  /\ \A g \in Gateways \ clients : running[g] = None
  /\ todo \subseteq clients
  /\ pc = "sending" /\ errs = {} => \A g \in clients \ todo : running[g] \in {None, target}
  /\ lastValid # None => lastValidCache # None

Served == SeenInCache /\ DropsDeleted /\ RunsPushed

\* A tick up to the push.
LEMMA PrepareKeepsServed ==
  ASSUME TypeOK, Preserving, Undisturbed, Preserved, Served,
         \/ \E g \in Gateways : UpdateFetch(g)
         \/ UpdateNoFetch \/ UpdateSnapshot \/ UpdateNoSnapshot \/ UpdateBuild
         \/ SendStart \/ SendTargets
  PROVE  Served'
<1>1. SeenInCache /\ DropsDeleted /\ RunsPushed /\ PushSource /\ RunsLastValid
  BY DEF Served, Preserved
<1>2. ASSUME NEW g \in Gateways, UpdateFetch(g) PROVE FALSE
  BY <1>1, <1>2 DEF UpdateFetch, RunsLastValid
<1>3. CASE UpdateNoFetch
  BY <1>1, <1>3 DEF UpdateNoFetch, Served, SeenInCache, Unseen, DropsDeleted, RunsPushed, Pushing
<1>4. CASE UpdateSnapshot
  <2>1. /\ UNCHANGED <<k8s, spent, cache, running, clients, lastValidCache, lastValid>>
        /\ builder' \in {builder, cache} /\ snapshot' \in {None, cache}
        /\ snapshot' # None => builder' = cache
        /\ pc' \in {"idle", "build"} /\ pc = "snapshot" /\ phase' = "current"
        /\ target' \in {EmptyState, target} /\ todo' \in {{}, todo}
    BY <1>1, <1>4 DEF UpdateSnapshot, Return, TakeSnapshotIfChanged, PushSource
  <2>2. SeenInCache'
    BY <1>1, <2>1 DEF SeenInCache, Unseen, EmptyState
  <2>3. DropsDeleted'
    BY <1>1, <2>1 DEF DropsDeleted, SeenInCache, Unseen, Pushing
  <2>4. RunsPushed'
    BY <1>1, <2>1 DEF RunsPushed
  <2>5. QED
    BY <2>2, <2>3, <2>4 DEF Served
<1>5. CASE UpdateNoSnapshot
  BY <1>5 DEF UpdateNoSnapshot, Preserving
<1>6. CASE UpdateBuild
  <2>1. target' = Translate(builder)
    BY <1>1, <1>6 DEF UpdateBuild, SkipInitialEmpty, RunsLastValid
  <2>2. \A o \in Objs : builder[o] = Absent => target'[o] = Nothing
    BY <2>1 DEF Translate
  <2>3. SeenInCache'
    BY <1>1, <1>6, <2>2 DEF UpdateBuild, SeenInCache, Unseen
  <2>4. DropsDeleted' /\ RunsPushed'
    BY <1>1, <1>6 DEF UpdateBuild, DropsDeleted, RunsPushed, Pushing
  <2>5. QED
    BY <2>3, <2>4 DEF Served
<1>7. CASE SendStart
  BY <1>1, <1>7 DEF SendStart, Served, SeenInCache, Unseen, DropsDeleted, RunsPushed, Pushing
<1>8. CASE SendTargets
  BY <1>1, <1>8 DEF SendTargets, Served, SeenInCache, Unseen, DropsDeleted, RunsPushed, Pushing
<1>9. QED
  BY <1>2, <1>3, <1>4, <1>5, <1>6, <1>7, <1>8

\* A push to one gateway.
LEMMA SendKeepsServed ==
  ASSUME TypeOK, SHATellsTruth, Undisturbed, Undisturbed', Preserved, Served, NEW h \in Gateways,
         SendSkip(h) \/ SendAccept(h) \/ SendReject(h) \/ SendFail(h) \/ SendLost(h)
  PROVE  Served'
<1>1. SeenInCache /\ DropsDeleted /\ RunsPushed /\ PushSource
  BY DEF Served, Preserved
<1>2. CASE SendSkip(h)
  <2>1. h \in clients /\ running[h] = target
    BY <1>1, <1>2, DistinctAssumption
       DEF SendSkip, Changed, SHATellsTruth, Undisturbed, RunsPushed, TypeOK, States
  <2>2. RunsPushed'
    BY <1>1, <1>2, <2>1 DEF SendSkip, Finish, RunsPushed
  <2>3. QED
    BY <1>1, <1>2, <2>2 DEF SendSkip, Finish, Served, SeenInCache, Unseen, DropsDeleted, Pushing
<1>3. CASE SendAccept(h)
  <2>1. /\ pc = "sending" /\ h \in todo /\ Acceptable(target)
        /\ running' = [running EXCEPT ![h] = target] /\ todo' = todo \ {h}
        /\ UNCHANGED <<k8s, spent, cache, clients, lastValidCache, lastValid, builder, pc, phase, snapshot, target, errs>>
    BY <1>3 DEF SendAccept, Finish
  <2>2. \A g \in Gateways : running'[g] = IF g = h THEN target ELSE running[g]
    BY <2>1 DEF TypeOK
  <2>3. SeenInCache'
    BY <1>1, <2>1, <2>2 DEF SeenInCache, Unseen
  <2>4. DropsDeleted'
    <3>1. phase \in {"current", "fallback"} => \A o \in Objs : builder[o] = Absent => target[o] = Nothing
      BY <1>1, <2>1 DEF PushSource, Pushing, Translate
    <3>2. QED
      BY <1>1, <2>1, <2>2, <3>1 DEF DropsDeleted, Pushing
  <2>5. RunsPushed'
    BY <1>1, <2>1, <2>2 DEF RunsPushed, Acceptable
  <2>6. QED
    BY <2>3, <2>4, <2>5 DEF Served
<1>4. CASE SendReject(h)
  <2>1. errs' # {} /\ todo' \subseteq todo
    BY <1>4 DEF SendReject, Finish
  <2>2. RunsPushed'
    BY <1>1, <1>4, <2>1 DEF SendReject, Finish, RunsPushed
  <2>3. QED
    BY <1>1, <1>4, <2>2 DEF SendReject, Finish, Served, SeenInCache, Unseen, DropsDeleted, Pushing
<1>5. CASE SendFail(h) \/ SendLost(h)
  BY <1>5 DEF SendFail, Fail, SendLost, Undisturbed
<1>6. QED
  BY <1>2, <1>3, <1>4, <1>5

\* What Update makes of the result.  A configuration that was rejected runs
\* nowhere, so the fallback replaces the last valid one, which it is backfilled from.
LEMMA ResultKeepsServed ==
  ASSUME TypeOK, ValidInv, Preserving, Undisturbed, Preserved, Served,
         \/ UpdateApplied \/ UpdateFailed \/ RecoverWithFallback \/ FallbackApplied
         \/ RecoverWithLastValid \/ RecoverNothing \/ LastValidPushed
  PROVE  Served'
<1>1. /\ SeenInCache /\ DropsDeleted /\ RunsPushed
      /\ PushSource /\ RunsLastValid /\ RetriesRejected /\ CacheMatches
  BY DEF Served, Preserved
<1>2. ASSUME SendSucceeds
      PROVE  /\ pc = "sending" /\ Acceptable(target) /\ lastValid' = target /\ target # None
             /\ \A g \in Gateways : running[g] \in {None, target}
  <2>1. pc = "sending" /\ todo = {} /\ errs = {} /\ lastValid' = target
    BY <1>1, <1>2 DEF SendSucceeds, PushSource, Pushing
  <2>2. Acceptable(target)
    BY <2>1 DEF ValidInv, PushValidates, Undisturbed
  <2>3. QED
    BY <1>1, <2>1, <2>2, DistinctAssumption DEF RunsPushed, TypeOK, States
<1>3. ASSUME SendFails
      PROVE  /\ pc = "sending" /\ ~Acceptable(target) /\ phase # "lastValid"
             /\ \A g \in Gateways : running[g] # None => running[g] = lastValid
  <2>1. pc = "sending" /\ ~Acceptable(target)
    BY <1>1, <1>3 DEF SendFails, RunsLastValid
  <2>2. phase # "lastValid"
    BY <1>1, <2>1 DEF PushSource, RunsLastValid, Pushing, ValidInv, LastValidIsAcceptable, Undisturbed
  <2>3. QED
    BY <1>1, <2>1, <2>2 DEF RunsPushed
<1>4. \A o \in Objs : EmptyState[o] = Nothing
  BY DEF EmptyState
<1>5. CASE UpdateApplied \/ FallbackApplied
  <2>1. /\ pc = "sending" /\ lastValid' = target /\ \A g \in Gateways : running[g] \in {None, target}
    BY <1>2, <1>5 DEF UpdateApplied, FallbackApplied
  <2>2. lastValidCache' \in {snapshot, builder} \ {None}
    <3>1. CASE UpdateApplied
      BY <1>1, <1>2, <3>1 DEF UpdateApplied, Preserve, Preserving, RetriesRejected, PushSource, Pushing
    <3>2. CASE FallbackApplied
      BY <3>2, DistinctAssumption DEF FallbackApplied, Preserve, Preserving, TypeOK, Caches
    <3>3. QED
      BY <1>5, <3>1, <3>2
  <2>3. /\ UNCHANGED <<k8s, spent, cache, running, clients, builder>>
        /\ pc' = "idle" /\ snapshot' = None /\ target' = EmptyState /\ todo' = {}
    BY <1>5 DEF UpdateApplied, FallbackApplied, Return
  <2>4. SeenInCache'
    BY <1>1, <1>4, <2>1, <2>2, <2>3 DEF SeenInCache, Unseen
  <2>5. DropsDeleted' /\ RunsPushed'
    BY <1>1, <2>1, <2>2, <2>3 DEF DropsDeleted, RunsPushed, Pushing
  <2>6. QED
    BY <2>4, <2>5 DEF Served
<1>6. CASE LastValidPushed
  <2>1. lastValid' = lastValid /\ \A g \in Gateways : running[g] # None => running[g] = lastValid
    BY <1>1, <1>2, <1>3, <1>6 DEF LastValidPushed, PushSource, Pushing
  <2>2. /\ UNCHANGED <<k8s, spent, cache, running, clients, builder, lastValidCache>>
        /\ pc' = "idle" /\ snapshot' = None /\ target' = EmptyState /\ todo' = {}
    BY <1>6 DEF LastValidPushed, Return
  <2>3. SeenInCache'
    BY <1>1, <1>4, <2>1, <2>2 DEF SeenInCache, Unseen
  <2>4. DropsDeleted' /\ RunsPushed'
    BY <1>1, <2>1, <2>2 DEF DropsDeleted, RunsPushed, Pushing
  <2>5. QED
    BY <2>3, <2>4 DEF Served
<1>7. CASE UpdateFailed
  BY <1>1, <1>7 DEF UpdateFailed, RunsLastValid
<1>8. CASE RecoverNothing
  <2>1. \A g \in Gateways : running[g] # None => running[g] = lastValid
    BY <1>3, <1>8 DEF RecoverNothing, FallbackUnavailable
  <2>2. /\ UNCHANGED <<k8s, spent, cache, running, clients, builder, lastValid, lastValidCache>>
        /\ pc' = "idle" /\ snapshot' = None /\ target' = EmptyState /\ todo' = {}
    BY <1>8 DEF RecoverNothing, Return
  <2>3. SeenInCache'
    BY <1>1, <1>4, <2>2 DEF SeenInCache, Unseen
  <2>4. DropsDeleted' /\ RunsPushed'
    BY <1>1, <2>1, <2>2 DEF DropsDeleted, RunsPushed, Pushing
  <2>5. QED
    BY <2>3, <2>4 DEF Served
<1>9. CASE RecoverWithFallback
  <2>1. /\ pc = "sending" /\ phase = "current" /\ snapshot # None /\ snapshot \in Caches
        /\ \A g \in Gateways : running[g] # None => running[g] = lastValid
    BY <1>3, <1>9 DEF RecoverWithFallback, TypeOK
  <2>2. /\ builder' = Backfilling(snapshot, lastValidCache, BrokenObjects(target))
        /\ target' = Translate(builder') /\ pc' = "send"
        /\ UNCHANGED <<k8s, spent, cache, running, clients, lastValid, lastValidCache, snapshot, todo>>
    BY <1>9 DEF RecoverWithFallback, FallbackCache, Preserving
  <2>3. \A o \in Objs :
          /\ snapshot[o] = Absent /\ (lastValidCache # None => lastValidCache[o] = Absent)
               => builder'[o] = Absent /\ target'[o] = Nothing
          /\ lastValidCache # None /\ lastValidCache[o] # Absent /\ builder'[o] = Absent
               => snapshot[o] = Absent
    <3>1. lastValidCache \in Caches \cup {None}
      BY DEF TypeOK
    <3>2. QED
      BY <2>1, <2>2, <3>1, BackfillingKeeps DEF Translate
  <2>4. SeenInCache'
    BY <1>1, <2>1, <2>2, <2>3 DEF SeenInCache, Unseen
  <2>5. DropsDeleted'
    <3> SUFFICES ASSUME NEW g \in Gateways, NEW o \in Objs,
                        running[g] # None, running[g][o] # Nothing, builder'[o] = Absent
                 PROVE  k8s[o] = Absent
      BY <2>2 DEF DropsDeleted
    <3>1. lastValid # None /\ lastValid[o] # Nothing
      BY <2>1
    <3>2. lastValidCache # None /\ lastValid[o] = Translate(lastValidCache)[o]
      BY <1>1, <3>1 DEF RunsPushed, CacheMatches
    <3>3. lastValidCache[o] # Absent
      BY <3>1, <3>2 DEF Translate
    <3>4. builder[o] = Absent
      BY <1>1, <2>1, <2>3, <3>2, <3>3 DEF PushSource, Pushing
    <3>5. QED
      BY <1>1, <2>1, <3>4 DEF DropsDeleted, Pushing
  <2>6. RunsPushed'
    BY <1>1, <2>1, <2>2 DEF RunsPushed
  <2>7. QED
    BY <2>4, <2>5, <2>6 DEF Served
<1>10. CASE RecoverWithLastValid
  <2>1. \A g \in Gateways : running[g] # None => running[g] = lastValid
    BY <1>3, <1>10 DEF RecoverWithLastValid, FallbackUnavailable
  <2>2. SeenInCache'
    BY <1>1, <1>10 DEF RecoverWithLastValid, SeenInCache, Unseen
  <2>3. DropsDeleted' /\ RunsPushed'
    BY <1>1, <1>10, <2>1 DEF RecoverWithLastValid, DropsDeleted, RunsPushed, Pushing
  <2>4. QED
    BY <2>2, <2>3 DEF Served
<1>11. QED
  BY <1>5, <1>6, <1>7, <1>8, <1>9, <1>10

\* The steps around an Update.
LEMMA EnvironmentKeepsServed ==
  ASSUME TypeOK, SHATellsTruth, Undisturbed, Undisturbed', Preserved, Served,
         Environment \/ (\E o \in Objs : CacheSync(o)) \/ UNCHANGED vars
  PROVE  Served'
<1>1. SeenInCache /\ DropsDeleted /\ RunsPushed
  BY DEF Served
<1>2. ASSUME NEW g \in Gateways, ClientJoins(g) \/ ClientLeaves(g) PROVE FALSE
  BY <1>2 DEF ClientJoins, ClientLeaves, Undisturbed
<1>3. CASE ControllerRestart
  BY <1>3 DEF ControllerRestart, Undisturbed
<1>4. ASSUME NEW g \in Gateways, GatewayCrash(g) PROVE Served'
  <2>1. \A f \in Gateways : running'[f] \in {None, running[f]}
    BY <1>4 DEF GatewayCrash, TypeOK
  <2>2. QED
    BY <1>1, <1>4, <2>1 DEF GatewayCrash, Served, SeenInCache, Unseen, DropsDeleted, RunsPushed, Pushing
<1>5. ASSUME NEW p \in Objs, NEW v \in Versions, K8sApply(p, v) PROVE Served'
  <2>1. /\ \A o \in Objs : k8s'[o] = IF o = p THEN v ELSE k8s[o]
        /\ \A o \in Objs : spent'[o] = IF o = p THEN spent[o] \cup {v} ELSE spent[o]
        /\ UNCHANGED <<cache, gatewayVars, clientVars, updateVars>>
    BY <1>5 DEF K8sApply, TypeOK, Caches
  <2>2. cache[p] = Absent => Unseen(p)
    BY <1>1, <1>5 DEF K8sApply, SeenInCache
  <2>3. SeenInCache'
    BY <1>1, <2>1, <2>2 DEF SeenInCache, Unseen
  <2>4. k8s[p] = Absent => Unseen(p)
    BY <1>1, <1>5 DEF K8sApply, SeenInCache
  <2>5. DropsDeleted'
    BY <1>1, <2>1, <2>4 DEF DropsDeleted, Unseen, Pushing
  <2>6. RunsPushed'
    BY <1>1, <2>1 DEF RunsPushed
  <2>7. QED
    BY <2>3, <2>5, <2>6 DEF Served
<1>6. ASSUME NEW p \in Objs, K8sDelete(p) PROVE Served'
  <2>1. /\ \A o \in Objs : k8s'[o] = IF o = p THEN Absent ELSE k8s[o]
        /\ UNCHANGED <<spent, cache, gatewayVars, clientVars, updateVars>> /\ spent[p] # {}
    BY <1>1, <1>6 DEF K8sDelete, SeenInCache, TypeOK, Caches
  <2>2. QED
    BY <1>1, <2>1 DEF Served, SeenInCache, Unseen, DropsDeleted, RunsPushed, Pushing
<1>7. ASSUME NEW p \in Objs, CacheSync(p) PROVE Served'
  <2>1. /\ \A o \in Objs : cache'[o] = IF o = p THEN k8s[o] ELSE cache[o]
        /\ UNCHANGED <<k8s, spent, gatewayVars, clientVars, updateVars>> /\ spent[p] # {}
    BY <1>1, <1>7 DEF CacheSync, k8sVars, SeenInCache, TypeOK, Caches
  <2>2. QED
    BY <1>1, <2>1 DEF Served, SeenInCache, Unseen, DropsDeleted, RunsPushed, Pushing
<1>8. CASE UNCHANGED vars
  BY <1>1, <1>8 DEF vars, Served, SeenInCache, Unseen, DropsDeleted, RunsPushed, Pushing
<1>9. QED
  BY <1>2, <1>3, <1>4, <1>5, <1>6, <1>7, <1>8, SendKeepsServed DEF Environment

\* An object that a gateway serves is dropped only when it is deleted, however many
\* objects are broken or depend on broken ones.  The hypotheses: both features are
\* on, and every version of an object renders to some entity.
THEOREM ServedKept ==
  ASSUME Preserving, \A v \in Versions : Renders[v] # Nothing
  PROVE  Spec => NeverDropsServed
<1> DEFINE ServedInv == Undisturbed => Served
<1>1. Init => ServedInv
  BY DEF Init, EmptyCache, EmptyState, Served, SeenInCache, Unseen, DropsDeleted, RunsPushed, Pushing
<1>2. TypeOK /\ SHATellsTruth /\ ValidInv /\ PreserveInv /\ ServedInv /\ [Next]_vars => ServedInv'
  <2> SUFFICES ASSUME TypeOK, SHATellsTruth, ValidInv, PreserveInv, ServedInv, [Next]_vars, Undisturbed'
               PROVE  Served'
    OBVIOUS
  <2>1. Undisturbed /\ Preserved /\ Served
    BY DisturbedForGood DEF PreserveInv
  <2>2. QED
    BY <2>1, PrepareKeepsServed, SendKeepsServed, ResultKeepsServed, EnvironmentKeepsServed DEF Next, Update
<1>3. TypeOK /\ PreserveInv /\ ServedInv /\ [Next]_vars =>
        [\A g \in Gateways, o \in Objs :
           (/\ Undisturbed /\ running[g] # None /\ running'[g] # None
            /\ running[g][o] # Nothing /\ running'[g][o] = Nothing)
              => k8s[o] = Absent]_vars
  <2> SUFFICES ASSUME TypeOK, PreserveInv, ServedInv, Next, NEW g \in Gateways, NEW o \in Objs, Undisturbed,
                      running[g] # None, running'[g] # None, running[g][o] # Nothing, running'[g][o] = Nothing
               PROVE  k8s[o] = Absent
    OBVIOUS
  <2>1. PushSource /\ RetriesRejected /\ DropsDeleted /\ RunsPushed
    BY DEF PreserveInv, Preserved, Served
  <2>2. pc = "sending" /\ running'[g] = target /\ Acceptable(target)
    <3>1. PICK h \in Gateways : SendAccept(h) \/ SendLost(h) \/ GatewayCrash(h)
      BY DEF Next, Update, Environment, CacheSync, UpdateFetch, UpdateNoFetch, UpdateSnapshot, UpdateNoSnapshot,
         UpdateBuild, SendStart, SendTargets, SendSkip, SendReject, SendFail, UpdateApplied, UpdateFailed,
         RecoverWithFallback, FallbackApplied, RecoverWithLastValid, RecoverNothing, LastValidPushed, K8sApply,
         K8sDelete, ClientJoins, ClientLeaves, ControllerRestart, gatewayVars
    <3>2. QED
      BY <3>1 DEF SendAccept, SendLost, GatewayCrash, TypeOK
  <2>3. phase # "lastValid"
    BY <2>1, <2>2 DEF PushSource, RunsPushed, Pushing
  <2>4. phase = "current" => snapshot # None
    BY <2>1, <2>2 DEF RetriesRejected, PushSource, Pushing
  <2>5. target = Translate(builder) /\ phase \in {"current", "fallback"}
    BY <2>1, <2>2, <2>3 DEF PushSource, Pushing, TypeOK
  <2>6. builder[o] = Absent
    BY <2>2, <2>5 DEF Translate, TypeOK, Caches
  <2>7. QED
    BY <2>1, <2>2, <2>4, <2>5, <2>6 DEF DropsDeleted, Pushing
<1>4. QED
  BY <1>1, <1>2, <1>3, TypeCorrect, SHAIsTruth, ValidInvariance, PreserveInvariance, PTL DEF Spec, NeverDropsServed
=============================================================================
