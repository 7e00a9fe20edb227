------------------------------ MODULE BlueGreen ------------------------------
(***************************************************************************)
(* The blue/green rollout of one DataPlane: BlueGreenReconciler.Reconcile  *)
(* (controller/dataplane/bluegreen_controller.go) and the DataPlane        *)
(* reconciler it delegates to (controller/dataplane/controller.go).        *)
(*                                                                         *)
(* A reconcile is a sequence of calls to the API server, each its own      *)
(* step, so the user's edits, the Deployment controller and a failed call  *)
(* come between any two.  The reconciler works on `copy`, the DataPlane it *)
(* read at the start.  Its writes are merge patches without a resource     *)
(* version: they set only the fields they change, succeed whatever was     *)
(* edited meanwhile, and leave the server's answer in `copy`, a newer spec *)
(* included.  The work queue holds the DataPlane while `queued`: every     *)
(* write to it, its Deployments or its Services queues it, and so does an  *)
(* error.  Reads see the API server's state; the lag of the informer cache *)
(* is not modelled.                                                        *)
(*                                                                         *)
(* A selector is the number of its uuid in the order they were drawn (0:   *)
(* the empty string), a Deployment is named by the selector of its Pods,   *)
(* and the spec by the generation.  The resource plan is                   *)
(* ScaleDownOnPromotionScaleUpOnRollout, the only one implemented, and     *)
(* EnforceConfig is set, its default.                                      *)
(***************************************************************************)
EXTENDS Naturals, FiniteSets, FiniteSetsExt

CONSTANTS
    Automatic,       \* the promotion strategy: AutomaticPromotion, else BreakBeforePromotion
    MaxGeneration,   \* bound on the edits of the spec
    MaxSelectors,    \* bound on the uuids drawn
    MaxRequests,     \* bound on the promotions the user asks for
    MaxFailures,     \* bound on the failed calls and crashes
    MaxPodFailures   \* bound on the times Pods stop being ready

ASSUME BoundsAreNaturals ==
    /\ Automatic \in BOOLEAN
    /\ MaxGeneration \in Nat \ {0}
    /\ {MaxSelectors, MaxRequests, MaxFailures, MaxPodFailures} \subseteq Nat

VARIABLES
    api,          \* the DataPlane in the API server
    deployments,  \* the DataPlane's Deployments, by selector
    services,     \* [state: live or preview] -> the selectors of its admin and ingress Services
    pc, copy,     \* the reconcile: its next call, and the DataPlane it works on
    queued,       \* the DataPlane is in the work queue
    requests,     \* how often the user asked for a promotion (history)
    promotions,   \* how often a preview took the live selector (history)
    failures, podFailures

cluster == <<api, deployments, services>>
vars == <<api, deployments, services, pc, copy, queued, requests, promotions,
          failures, podFailures>>

None == "None"
Selectors == 0 .. MaxSelectors
Reasons == {None, "Progressing", "WaitingForChange", "AwaitingPromotion",
            "PromotionInProgress", "PromotionFailed", "PromotionDone", "Failed"}

\* The reason of the Ready condition; it is true for the reason Ready alone.
ReadyReasons == {None, "DependenciesNotReady", "WaitingToBecomeReady", "Ready"}

DataPlanes ==
    [generation : 1 .. MaxGeneration, rollout : BOOLEAN, promote : BOOLEAN,
     selector : Selectors, preview : Selectors,
     ready : ReadyReasons, readyGeneration : 0 .. MaxGeneration,
     reason : Reasons, reasonGeneration : 0 .. MaxGeneration]

\* ready is what status.replicas and status.availableReplicas say; pods is the
\* generation the Pods they count were made for.
Deployments ==
    [state : {"live", "preview"}, generation : 1 .. MaxGeneration, replicas : 0 .. 1,
     ready : BOOLEAN, pods : 0 .. MaxGeneration]

NoServices == [admin |-> 0, ingress |-> 0]

TypeOK ==
    /\ api \in DataPlanes
    /\ copy \in DataPlanes
    /\ DOMAIN deployments \subseteq Selectors
    /\ \A s \in DOMAIN deployments : deployments[s] \in Deployments
    /\ services \in [{"live", "preview"} -> [admin : Selectors, ingress : Selectors]]
    /\ queued \in BOOLEAN
    /\ requests \in 0 .. MaxRequests
    /\ promotions \in Nat
    /\ failures \in 0 .. MaxFailures
    /\ podFailures \in 0 .. MaxPodFailures

Init ==
    /\ api = [generation |-> 1, rollout |-> TRUE, promote |-> FALSE,
              selector |-> 0, preview |-> 0,
              ready |-> None, readyGeneration |-> 0,
              reason |-> None, reasonGeneration |-> 0]
    /\ copy = api
    /\ deployments = [s \in {} |-> 0]
    /\ services = [s \in {"live", "preview"} |-> NoServices]
    /\ pc = "idle"
    /\ queued = TRUE
    /\ requests = 0
    /\ promotions = 0
    /\ failures = 0
    /\ podFailures = 0

----------------------------------------------------------------------------
\* The work queue and the calls.

Written == cluster' # cluster

\* The reconcile goes on to its next call.
Proceed(next) == pc' = next /\ queued' = (queued \/ Written)

\* The reconcile ends.
Return(requeue) == pc' = "idle" /\ queued' = (queued \/ Written \/ requeue)

\* A patch of the DataPlane: the server's answer replaces the copy.
Patch(patched) == api' = patched /\ copy' = patched

Labelled(state) == {s \in DOMAIN deployments : deployments[s].state = state}

\* A uuid not drawn before.  Selectors are never reused, so the ones in use
\* are the latest drawn.
Fresh == 1 + Max({api.selector, api.preview} \cup DOMAIN deployments \cup
                 {services[s].admin : s \in {"live", "preview"}})

\* ensureRolledOutCondition: the condition at the generation of the copy.
RolledOut(reason) ==
    [api EXCEPT !.reason = reason, !.reasonGeneration = copy.generation]

\* ensureDataPlaneReadyStatus gets the DataPlane again and reports on its live
\* Deployment.  With more than one it reports nothing and the reconcile is
\* queued again; with none it reports that once, and when there is nothing to
\* report it panics on the empty list, which controller-runtime makes an error.
EnsureDataPlaneReadyStatus(generation, After) ==
    LET live == Labelled("live")
        reported == [api EXCEPT
            !.readyGeneration = generation,
            !.ready = IF live # {} /\ \A s \in live : deployments[s].ready
                        THEN "Ready" ELSE "WaitingToBecomeReady"]
    IN  /\ UNCHANGED <<deployments, services>>
        /\ \/ /\ Cardinality(live) > 1 \/ (live = {} /\ reported = api)
              /\ UNCHANGED api /\ copy' = api
              /\ Return(TRUE)
           \/ /\ Cardinality(live) = 1 \/ (live = {} /\ reported # api)
              /\ Patch(reported)
              /\ After

----------------------------------------------------------------------------
\* BlueGreenReconciler.Reconcile.

ShouldDelegate(dataplane) ==
    \/ /\ dataplane.readyGeneration = dataplane.generation
       /\ dataplane.reasonGeneration = dataplane.generation
       /\ dataplane.reason = "WaitingForChange"
    \/ dataplane.ready # "Ready" /\ dataplane.readyGeneration = dataplane.generation
    \/ dataplane.readyGeneration = 0

ReconcileStart ==
    /\ pc = "idle" /\ queued
    /\ copy' = api
    /\ queued' = FALSE
    /\ pc' = CASE ~api.rollout -> "prune"
               [] api.rollout /\ ShouldDelegate(api) -> "initReady"
               [] OTHER -> "liveReady"
    /\ UNCHANGED <<cluster, requests, promotions, failures, podFailures>>

\* prunePreviewSubresources: the Deployments and the Services, then the status.
PrunePreview ==
    /\ pc = "prune"
    /\ deployments' = [s \in DOMAIN deployments \ Labelled("preview") |-> deployments[s]]
    /\ services' = [services EXCEPT !["preview"] = NoServices]
    /\ UNCHANGED <<api, copy>>
    /\ Proceed("pruneStatus")
    /\ UNCHANGED <<requests, promotions, failures, podFailures>>

PruneRolloutStatus ==
    /\ pc = "pruneStatus"
    /\ IF copy.preview = 0 /\ copy.reason = None
         THEN UNCHANGED <<api, copy>>
         ELSE Patch([api EXCEPT !.preview = 0, !.reason = None, !.reasonGeneration = 0])
    /\ UNCHANGED <<deployments, services>>
    /\ Proceed("initReady")
    /\ UNCHANGED <<requests, promotions, failures, podFailures>>

\* ensureDataPlaneLiveReadyStatus keeps the generation the condition has, so
\* that the rollout does not advance.
EnsureLiveReadyStatus ==
    /\ pc = "liveReady"
    /\ EnsureDataPlaneReadyStatus(copy.readyGeneration, Proceed("initRolloutSelector"))
    /\ UNCHANGED <<requests, promotions, failures, podFailures>>

InitSelectorInRolloutStatus ==
    /\ pc = "initRolloutSelector"
    /\ IF copy.preview # 0
         THEN UNCHANGED <<api, copy>>
         ELSE Fresh <= MaxSelectors /\ Patch([api EXCEPT !.preview = Fresh])
    /\ UNCHANGED <<deployments, services>>
    /\ Proceed("rolledOut")
    /\ UNCHANGED <<requests, promotions, failures, podFailures>>

\* Mutant: a promotion does not bring the Ready condition up to date.
EnsureRolloutStartedOnly ==
    /\ pc = "rolledOut"
    /\ IF copy.reasonGeneration # copy.generation
         THEN Patch(RolledOut("Progressing"))
         ELSE UNCHANGED <<api, copy>>
    /\ UNCHANGED <<deployments, services>>
    /\ Proceed("previewServices")
    /\ UNCHANGED <<requests, promotions, failures, podFailures>>

\* After a promotion the Ready condition takes the generation; a new generation
\* starts a rollout.
EnsureRolloutStarted ==
    LET promoted == copy.reason = "PromotionDone" /\ copy.reasonGeneration = copy.generation
    IN  /\ pc = "rolledOut"
        /\ \/ /\ promoted
              /\ EnsureDataPlaneReadyStatus(copy.generation, Proceed("previewServices"))
           \/ /\ copy.reasonGeneration # copy.generation
              /\ Patch(RolledOut("Progressing"))
              /\ UNCHANGED <<deployments, services>>
              /\ Proceed("previewServices")
           \/ /\ ~promoted /\ copy.reasonGeneration = copy.generation
              /\ UNCHANGED <<cluster, copy>>
              /\ Proceed("previewServices")
        /\ UNCHANGED <<requests, promotions, failures, podFailures>>

\* One Service at a time is brought to the selector, the admin one first: the
\* write ends the reconcile and its event starts the next.  The preview and the
\* live Services alike.
EnsureServices(state, selector, next) ==
    /\ UNCHANGED <<api, copy, deployments, requests, promotions, failures, podFailures>>
    /\ \/ /\ services[state].admin # selector
          /\ services' = [services EXCEPT ![state].admin = selector]
          /\ Return(FALSE)
       \/ /\ services[state].admin = selector /\ services[state].ingress # selector
          /\ services' = [services EXCEPT ![state].ingress = selector]
          /\ Return(FALSE)
       \/ /\ services[state] = [admin |-> selector, ingress |-> selector]
          /\ UNCHANGED services
          /\ Proceed(next)

EnsurePreviewServices ==
    /\ pc = "previewServices"
    /\ EnsureServices("preview", copy.preview, "previewDeployment")

\* ensureDeploymentForDataPlane: no replicas while the generation is live.
PreviewReplicas ==
    IF copy.readyGeneration # 0 /\ copy.readyGeneration = copy.reasonGeneration THEN 0 ELSE 1

New(state, replicas) ==
    [state |-> state, generation |-> copy.generation, replicas |-> replicas,
     ready |-> FALSE, pods |-> 0]

\* reconcileDataPlaneDeployment leaves the status to the Deployment controller.
Updated(deployment, replicas) ==
    [deployment EXCEPT !.generation = copy.generation, !.replicas = replicas]

EnsurePreviewDeployment ==
    /\ pc = "previewDeployment"
    /\ UNCHANGED <<api, copy, services, requests, promotions, failures, podFailures>>
    /\ \/ /\ Labelled("preview") = {}
          /\ deployments' = [s \in DOMAIN deployments \cup {copy.preview} |->
                               IF s = copy.preview THEN New("preview", PreviewReplicas)
                                                   ELSE deployments[s]]
          /\ Return(FALSE)
       \/ \E s \in Labelled("preview") :
            LET updated == Updated(deployments[s], PreviewReplicas)
            IN  /\ deployments' = [deployments EXCEPT ![s] = updated]
                /\ IF updated # deployments[s] THEN Return(FALSE) ELSE Proceed("promotion")

\* canProceedWithPromotion.
CanProceedWithPromotion == Automatic \/ copy.promote

\* The decision to promote: the preview Deployment has replicas, is ready, and
\* its promotion was asked for.
DecidePromotion ==
    /\ pc = "promotion"
    /\ UNCHANGED <<deployments, services, requests, promotions, failures, podFailures>>
    /\ \E s \in Labelled("preview") :
         LET d == deployments[s] IN
         \/ d.replicas = 0 /\ Patch(RolledOut("WaitingForChange")) /\ Return(FALSE)
         \/ /\ d.replicas # 0 /\ ~d.ready
            /\ Patch(RolledOut("Progressing")) /\ Return(FALSE)
         \/ /\ d.replicas # 0 /\ d.ready /\ ~CanProceedWithPromotion
            /\ Patch(RolledOut("AwaitingPromotion")) /\ Return(FALSE)
         \/ /\ d.replicas # 0 /\ d.ready /\ CanProceedWithPromotion
            /\ IF copy.reason = "PromotionFailed"
                 THEN UNCHANGED <<api, copy>>
                 ELSE Patch(RolledOut("PromotionInProgress"))
            /\ Proceed("override")

\* ensurePreviewSelectorOverridesLive.
PreviewSelectorOverridesLive ==
    /\ pc = "override"
    /\ IF copy.selector = copy.preview
         THEN /\ UNCHANGED <<api, copy, deployments, services, promotions>>
              /\ Proceed("liveServices")
         ELSE /\ Patch([api EXCEPT !.selector = copy.preview])
              /\ promotions' = promotions + 1
              /\ UNCHANGED <<deployments, services>>
              /\ Return(FALSE)
    /\ UNCHANGED <<requests, failures, podFailures>>

\* waitForLiveServiceSelectorsPropagation: it is the DataPlane reconciler that
\* moves the live Services.
WaitForLiveServices ==
    /\ pc = "liveServices"
    /\ UNCHANGED <<cluster, copy, requests, promotions, failures, podFailures>>
    /\ IF services["live"] = [admin |-> copy.preview, ingress |-> copy.preview]
         THEN Proceed("label")
         ELSE Proceed("initReady")

LabelPreviewLive ==
    /\ pc = "label"
    /\ copy.preview \in DOMAIN deployments
    /\ deployments' = [deployments EXCEPT ![copy.preview].state = "live"]
    /\ UNCHANGED <<api, copy, services>>
    /\ Proceed("clearSelector")
    /\ UNCHANGED <<requests, promotions, failures, podFailures>>

ClearRolloutSelector ==
    /\ pc = "clearSelector"
    /\ Patch([api EXCEPT !.preview = 0])
    /\ UNCHANGED <<deployments, services>>
    /\ Proceed("promotionDone")
    /\ UNCHANGED <<requests, promotions, failures, podFailures>>

SetPromotionDone ==
    /\ pc = "promotionDone"
    /\ Patch(RolledOut("PromotionDone"))
    /\ UNCHANGED <<deployments, services>>
    /\ Proceed("resetPromote")
    /\ UNCHANGED <<requests, promotions, failures, podFailures>>

\* Mutant: the annotation stays for the next rollout.
ResetPromoteNever ==
    /\ pc = "resetPromote"
    /\ UNCHANGED <<api, copy, deployments, services>>
    /\ Proceed("reduce")
    /\ UNCHANGED <<requests, promotions, failures, podFailures>>

\* resetPromoteWhenReadyAnnotation: the patch is empty when the copy has no
\* annotation.
ResetPromoteWhenReady ==
    /\ pc = "resetPromote"
    /\ IF copy.promote THEN Patch([api EXCEPT !.promote = FALSE]) ELSE UNCHANGED <<api, copy>>
    /\ UNCHANGED <<deployments, services>>
    /\ Proceed("reduce")
    /\ UNCHANGED <<requests, promotions, failures, podFailures>>

\* Mutant: the oldest is kept, as filterDeployments does of two alike.
ReduceLiveDeploymentsToOldest ==
    LET live == Labelled("live")
        gone == IF live = {} THEN {} ELSE live \ {Min(live)}
    IN  /\ pc = "reduce"
        /\ deployments' = [s \in DOMAIN deployments \ gone |-> deployments[s]]
        /\ UNCHANGED <<api, copy, services>>
        /\ Return(FALSE)
        /\ UNCHANGED <<requests, promotions, failures, podFailures>>

\* reduceLiveDeployments keeps the newest.
ReduceLiveDeployments ==
    LET live == Labelled("live")
        gone == IF live = {} THEN {} ELSE live \ {Max(live)}
    IN  /\ pc = "reduce"
        /\ deployments' = [s \in DOMAIN deployments \ gone |-> deployments[s]]
        /\ UNCHANGED <<api, copy, services>>
        /\ Return(FALSE)
        /\ UNCHANGED <<requests, promotions, failures, podFailures>>

----------------------------------------------------------------------------
\* Reconciler.Reconcile, the DataPlane reconciler.

\* InitReady and initSelectorInStatus.
InitStatus ==
    /\ pc = "initReady"
    /\ UNCHANGED <<deployments, services, requests, promotions, failures, podFailures>>
    /\ \/ /\ copy.readyGeneration = 0
          /\ Patch([api EXCEPT !.ready = "DependenciesNotReady",
                                    !.readyGeneration = copy.generation])
          /\ Return(FALSE)
       \/ /\ copy.readyGeneration # 0 /\ copy.selector = 0
          /\ Fresh <= MaxSelectors
          /\ Patch([api EXCEPT !.selector = Fresh])
          /\ Proceed("services")
       \/ /\ copy.readyGeneration # 0 /\ copy.selector # 0
          /\ UNCHANGED <<api, copy>>
          /\ Proceed("services")

EnsureLiveServices ==
    /\ pc = "services"
    /\ EnsureServices("live", copy.selector, "deployment")

\* filterDeployments keeps the Deployment with more available replicas, the
\* older of two alike.
ToKeep(live) ==
    LET best == {s \in live : deployments[s].ready}
    IN  IF best = {} THEN Min(live) ELSE Min(best)

\* BuildAndDeploy.  The API server refuses a template whose labels are not the
\* ones the Deployment selects.
EnsureLiveDeployment ==
    LET live == Labelled("live")
    IN  /\ pc = "deployment"
        /\ UNCHANGED <<api, copy, services, requests, promotions, failures, podFailures>>
        /\ \/ /\ live = {}
              /\ deployments' = [s \in DOMAIN deployments \cup {copy.selector} |->
                                   IF s = copy.selector THEN New("live", 1) ELSE deployments[s]]
              /\ Return(FALSE)
           \/ /\ Cardinality(live) > 1
              /\ deployments' = [s \in (DOMAIN deployments \ live) \cup {ToKeep(live)} |->
                                   deployments[s]]
              /\ Return(TRUE)
           \/ /\ live = {copy.selector}
              /\ LET updated == Updated(deployments[copy.selector], 1)
                 IN  /\ deployments' = [deployments EXCEPT ![copy.selector] = updated]
                     /\ IF updated # deployments[copy.selector] THEN Return(FALSE)
                                                                ELSE Proceed("ready")
           \/ /\ Cardinality(live) = 1 /\ copy.selector \notin live
              /\ UNCHANGED deployments
              /\ Return(TRUE)

EnsureReadyStatus ==
    /\ pc = "ready"
    /\ EnsureDataPlaneReadyStatus(copy.generation, Return(FALSE))
    /\ UNCHANGED <<requests, promotions, failures, podFailures>>

----------------------------------------------------------------------------
\* A failed call, or a crash, ends the reconcile; some errors are recorded in
\* the RolledOut condition first.
FailureReason(step) ==
    CASE step \in {"previewServices", "previewDeployment"} -> "Failed"
      [] step \in {"override", "label"} -> "PromotionFailed"
      [] OTHER -> None

ReconcileFails ==
    /\ pc # "idle" /\ failures < MaxFailures
    /\ failures' = failures + 1
    /\ \/ UNCHANGED <<api, copy>>
       \/ FailureReason(pc) # None /\ Patch(RolledOut(FailureReason(pc)))
    /\ UNCHANGED <<deployments, services>>
    /\ Return(TRUE)
    /\ UNCHANGED <<requests, promotions, podFailures>>

----------------------------------------------------------------------------
\* The user and the Deployment controller.

Event == queued' = TRUE /\ UNCHANGED <<pc, copy>>

EditSpec ==
    /\ api.generation < MaxGeneration
    /\ api' = [api EXCEPT !.generation = @ + 1]
    /\ UNCHANGED <<deployments, services, requests, promotions, failures, podFailures>>
    /\ Event

RemoveRollout ==
    /\ api.generation < MaxGeneration /\ api.rollout
    /\ api' = [api EXCEPT !.generation = @ + 1, !.rollout = FALSE]
    /\ UNCHANGED <<deployments, services, requests, promotions, failures, podFailures>>
    /\ Event

RequestPromotion ==
    /\ ~api.promote /\ requests < MaxRequests
    /\ api' = [api EXCEPT !.promote = TRUE]
    /\ requests' = requests + 1
    /\ UNCHANGED <<deployments, services, promotions, failures, podFailures>>
    /\ Event

\* The status is that of the old Pods until the Deployment controller replaces
\* them.
PodsReplaced(s) ==
    LET d == deployments[s]
    IN  /\ d.ready /\ (d.replicas = 0 \/ d.pods # d.generation)
        /\ deployments' = [deployments EXCEPT ![s].ready = FALSE]
        /\ UNCHANGED <<api, services, requests, promotions, failures, podFailures>>
        /\ Event

PodsReady(s) ==
    LET d == deployments[s]
    IN  /\ ~d.ready /\ d.replicas # 0
        /\ deployments' = [deployments EXCEPT ![s].ready = TRUE, ![s].pods = d.generation]
        /\ UNCHANGED <<api, services, requests, promotions, failures, podFailures>>
        /\ Event

PodsFail(s) ==
    /\ deployments[s].ready /\ podFailures < MaxPodFailures
    /\ podFailures' = podFailures + 1
    /\ deployments' = [deployments EXCEPT ![s].ready = FALSE]
    /\ UNCHANGED <<api, services, requests, promotions, failures>>
    /\ Event

----------------------------------------------------------------------------
ReconcileStep ==
    \/ ReconcileStart \/ PrunePreview \/ PruneRolloutStatus
    \/ EnsureLiveReadyStatus \/ InitSelectorInRolloutStatus \/ EnsureRolloutStarted
    \/ EnsurePreviewServices \/ EnsurePreviewDeployment \/ DecidePromotion
    \/ PreviewSelectorOverridesLive \/ WaitForLiveServices \/ LabelPreviewLive
    \/ ClearRolloutSelector \/ SetPromotionDone \/ ResetPromoteWhenReady
    \/ ReduceLiveDeployments
    \/ InitStatus \/ EnsureLiveServices \/ EnsureLiveDeployment \/ EnsureReadyStatus

Next ==
    \/ ReconcileStep
    \/ ReconcileFails
    \/ EditSpec \/ RemoveRollout \/ RequestPromotion
    \/ \E s \in DOMAIN deployments : PodsReplaced(s) \/ PodsReady(s) \/ PodsFail(s)

Spec == Init /\ [][Next]_vars

\* A worker takes a queued DataPlane and finishes what it started; Kubernetes
\* brings the Pods of a Deployment up.
FairSpec ==
    /\ Spec
    /\ WF_vars(ReconcileStep)
    /\ \A s \in 1 .. MaxSelectors :
         WF_vars(s \in DOMAIN deployments /\ (PodsReplaced(s) \/ PodsReady(s)))

----------------------------------------------------------------------------
Serving ==
    /\ services["live"].ingress \in DOMAIN deployments
    /\ deployments[services["live"].ingress].replicas # 0

\* Traffic: under a blue/green rollout the live ingress Service, once it exists,
\* selects a Deployment that exists and has replicas; promotion moves it before
\* the old Deployment is deleted, and the preview that it was moved to is never
\* scaled down or deleted as a preview.
TrafficServed ==
    [][api'.rollout /\ Serving => Serving']_vars

\* With BreakBeforePromotion every promotion answers a request of its own: the
\* annotation of one rollout does not promote the next.
PromotedOnRequest == ~Automatic => promotions <= requests

\* The live Services and the one live Deployment run the generation, and the
\* Ready condition says so.
Settled ==
    /\ \E s \in DOMAIN deployments :
         /\ Labelled("live") = {s}
         /\ services["live"] = [admin |-> s, ingress |-> s]
         /\ deployments[s].pods = api.generation
    /\ api.ready = "Ready" /\ api.readyGeneration = api.generation

\* The break of BreakBeforePromotion: the preview runs the generation, which is
\* not the live one.
Awaiting ==
    /\ ~Automatic /\ ~api.promote
    /\ api.reason = "AwaitingPromotion" /\ api.reasonGeneration = api.generation
    /\ \E s \in Labelled("preview") :
         /\ services["preview"] = [admin |-> s, ingress |-> s]
         /\ deployments[s].pods = api.generation
    /\ \A s \in Labelled("live") : deployments[s].generation # api.generation

\* The three states the reconciler does not leave: a failed promotion left two
\* live Deployments; the spec was edited before the first Deployment was made;
\* the rollout was removed while the live selector was already the preview's.
Stuck ==
    \/ api.rollout /\ Cardinality(Labelled("live")) > 1
    \/ api.rollout /\ Labelled("live") = {} /\ api.readyGeneration # api.generation
    \/ ~api.rollout /\ api.selector \notin Labelled("live")

\* Liveness: once the user is done, the rollout of the last generation completes
\* or waits for a promotion, unless it is stuck in one of the three known ways.
\* Every reconcile that leaves work behind is queued again, by an error or by
\* the event of something it wrote.
RolloutCompletes == <>[](Settled \/ Awaiting \/ Stuck)

\* Staging, as the BreakBeforePromotion strategy promises it: while the rollout
\* is configured, a live Deployment's template never changes in place; a new
\* generation reaches it as a preview or not at all.
LiveOnlyStaged ==
    [][api.rollout =>
         \A s \in Labelled("live") :
           s \in DOMAIN deployments' => deployments'[s].generation = deployments[s].generation]_vars
=============================================================================
