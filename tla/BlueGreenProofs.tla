--------------------------- MODULE BlueGreenProofs ---------------------------
(***************************************************************************)
(* Proofs about BlueGreen, for any number of edits, promotions, failed     *)
(* calls and failing Pods, and both promotion strategies.                  *)
(***************************************************************************)
EXTENDS BlueGreen, FiniteSetTheorems, WellFoundedInduction, TLAPS

\* The assumption on the bounds, in the form the leaves use.
LEMMA Bounds ==
  /\ Automatic \in BOOLEAN
  /\ MaxGeneration \in Nat /\ 1 <= MaxGeneration
  /\ MaxSelectors \in Nat /\ MaxRequests \in Nat /\ MaxFailures \in Nat /\ MaxPodFailures \in Nat
BY BoundsAreNaturals

USE Bounds

-----------------------------------------------------------------------------
(* Numbers and sets.                                                       *)

\* The order of the naturals is well founded.
LEMMA Smallest ==
  ASSUME NEW S \in SUBSET Nat, S # {}
  PROVE  \E n \in S : \A m \in S : n <= m
<1> DEFINE Less == {ss \in Nat \X Nat : ss[1] < ss[2]}
<1>1. IsWellFoundedOn(Less, Nat)
  BY NatLessThanWellFounded DEF OpToRel
<1>2. PICK x \in S : \A y \in S : <<y, x>> \notin Less
  BY <1>1, WFMin
<1>3. \A y \in S : x <= y
  <2> TAKE y \in S
  <2>1. <<y, x>> \in Nat \X Nat
    OBVIOUS
  <2>2. ~(y < x)
    BY <1>2, <2>1
  <2>3. QED
    BY <2>2
<1>4. QED
  BY <1>3

\* The oldest of some Deployments is one of them.
LEMMA MinIsSmallest ==
  ASSUME NEW S \in SUBSET Nat, S # {}
  PROVE  Min(S) \in S
<1>1. \E n \in S : \A m \in S : n <= m
  BY Smallest
<1>2. QED
  BY <1>1 DEF Min

\* The newest of some Deployments is one of them and not older than any other.
LEMMA MaxIsLargest ==
  ASSUME NEW N \in Nat, NEW S \in SUBSET (0 .. N), S # {}
  PROVE  Max(S) \in S /\ \A m \in S : m <= Max(S)
<1> DEFINE T == {n \in Nat : n <= N /\ N - n \in S}
<1>1. PICK s \in S : TRUE
  OBVIOUS
<1>2. N - s \in T
  <2>1. N - s \in Nat /\ N - (N - s) = s /\ N - s <= N
    OBVIOUS
  <2>2. QED
    BY <2>1
<1>3. PICK n \in T : \A m \in T : n <= m
  BY <1>2, Smallest
<1>4. N - n \in S
  OBVIOUS
<1>5. \A m \in S : m <= N - n
  <2> TAKE m \in S
  <2>1. N - m \in Nat /\ N - (N - m) = m /\ N - m <= N
    OBVIOUS
  <2>2. n <= N - m
    BY <1>3, <2>1
  <2>3. QED
    BY <2>2
<1>6. \E x \in S : \A y \in S : x >= y
  BY <1>4, <1>5
<1>7. Max(S) \in S /\ \A y \in S : Max(S) >= y
  BY <1>6 DEF Max
<1>8. QED
  BY <1>7

\* Counting up to two.
LEMMA CountToTwo ==
  ASSUME NEW N \in Nat, NEW S \in SUBSET (0 .. N)
  PROVE  /\ Cardinality(S) > 1 <=> \E s, t \in S : s # t
         /\ Cardinality(S) = 1 <=> S # {} /\ ~\E s, t \in S : s # t
<1>1. IsFiniteSet(S)
  <2>1. IsFiniteSet(0 .. N)
    <3>1. 0 \in Int /\ N \in Int
      OBVIOUS
    <3>2. QED
      BY <3>1, FS_Interval
  <2>2. QED
    BY <2>1, FS_Subset
<1>2. Cardinality(S) \in Nat /\ (Cardinality(S) = 0 <=> S = {})
  BY <1>1, FS_CardinalityType, FS_EmptySet
<1>3. Cardinality(S) = 1 <=> \E x : S = {x}
  BY <1>1, FS_Singleton
<1>4. (\E x : S = {x}) <=> S # {} /\ ~\E s, t \in S : s # t
  <2>1. CASE S # {}
    <3>1. PICK s \in S : TRUE
      BY <2>1
    <3>2. ASSUME ~\E t, u \in S : t # u PROVE S = {s}
      BY <3>2
    <3>3. QED
      BY <2>1, <3>2
  <2>2. QED
    BY <2>1
<1>5. QED
  BY <1>2, <1>3, <1>4

-----------------------------------------------------------------------------
(* Types.                                                                  *)

USE DEF cluster, Selectors

\* The first state has its type.
LEMMA InitialType == Init => TypeOK
<1> SUFFICES ASSUME Init PROVE TypeOK
  OBVIOUS
<1>1. api \in DataPlanes
  BY DEF Init, DataPlanes, Reasons, ReadyReasons, None
<1>2. services \in [{"live", "preview"} -> [admin : Selectors, ingress : Selectors]]
  BY DEF Init, NoServices
<1>3. QED
  BY <1>1, <1>2 DEF Init, TypeOK

\* The fields of the DataPlane.
LEMMA DataPlaneFields ==
  ASSUME NEW d \in DataPlanes
  PROVE  /\ d.generation \in 1 .. MaxGeneration /\ d.rollout \in BOOLEAN /\ d.promote \in BOOLEAN
         /\ d.selector \in 0 .. MaxSelectors /\ d.preview \in 0 .. MaxSelectors
         /\ d.ready \in ReadyReasons /\ d.readyGeneration \in 0 .. MaxGeneration
         /\ d.reason \in Reasons /\ d.reasonGeneration \in 0 .. MaxGeneration
BY DEF DataPlanes

\* What the patches of the reconcilers and of the user make of it.
LEMMA PatchTypes ==
  ASSUME NEW d \in DataPlanes
  PROVE  /\ \A r \in Reasons, g \in 0 .. MaxGeneration :
              [d EXCEPT !.reason = r, !.reasonGeneration = g] \in DataPlanes
         /\ \A r \in ReadyReasons, g \in 0 .. MaxGeneration :
              [d EXCEPT !.readyGeneration = g, !.ready = r] \in DataPlanes
         /\ \A r \in ReadyReasons, g \in 0 .. MaxGeneration :
              [d EXCEPT !.ready = r, !.readyGeneration = g] \in DataPlanes
         /\ \A s \in 0 .. MaxSelectors : [d EXCEPT !.preview = s] \in DataPlanes
         /\ \A s \in 0 .. MaxSelectors : [d EXCEPT !.selector = s] \in DataPlanes
         /\ [d EXCEPT !.promote = FALSE] \in DataPlanes
         /\ [d EXCEPT !.promote = TRUE] \in DataPlanes
         /\ [d EXCEPT !.preview = 0, !.reason = None, !.reasonGeneration = 0] \in DataPlanes
         /\ d.generation < MaxGeneration =>
              /\ [d EXCEPT !.generation = @ + 1] \in DataPlanes
              /\ [d EXCEPT !.generation = @ + 1, !.rollout = FALSE] \in DataPlanes
<1>1. \A r \in Reasons, g \in 0 .. MaxGeneration :
              [d EXCEPT !.reason = r, !.reasonGeneration = g] \in DataPlanes
  BY DEF DataPlanes
<1>0. [d EXCEPT !.preview = 0, !.reason = None, !.reasonGeneration = 0] \in DataPlanes
  <2>1. None \in Reasons /\ 0 \in 0 .. MaxSelectors /\ 0 \in 0 .. MaxGeneration
    BY DEF Reasons
  <2>2. QED
    BY <2>1 DEF DataPlanes
<1>2. /\ \A r \in ReadyReasons, g \in 0 .. MaxGeneration :
              [d EXCEPT !.readyGeneration = g, !.ready = r] \in DataPlanes
      /\ \A r \in ReadyReasons, g \in 0 .. MaxGeneration :
              [d EXCEPT !.ready = r, !.readyGeneration = g] \in DataPlanes
  BY DEF DataPlanes
<1>3. /\ \A s \in 0 .. MaxSelectors : [d EXCEPT !.preview = s] \in DataPlanes
      /\ \A s \in 0 .. MaxSelectors : [d EXCEPT !.selector = s] \in DataPlanes
  BY DEF DataPlanes
<1>4. /\ [d EXCEPT !.promote = FALSE] \in DataPlanes
      /\ [d EXCEPT !.promote = TRUE] \in DataPlanes
  BY DEF DataPlanes
<1>5. d.generation < MaxGeneration =>
              /\ [d EXCEPT !.generation = @ + 1] \in DataPlanes
              /\ [d EXCEPT !.generation = @ + 1, !.rollout = FALSE] \in DataPlanes
  <2>1. d.generation < MaxGeneration => d.generation + 1 \in 1 .. MaxGeneration
    BY DataPlaneFields
  <2>2. \A g \in 1 .. MaxGeneration : /\ [d EXCEPT !.generation = g] \in DataPlanes
                                     /\ [d EXCEPT !.generation = g, !.rollout = FALSE] \in DataPlanes
    BY DEF DataPlanes
  <2>3. QED
    BY <2>1, <2>2
<1>6. QED
  BY <1>0, <1>1, <1>2, <1>3, <1>4, <1>5

\* A selector that was not drawn before is newer than all in use.
LEMMA FreshIsNewer ==
  ASSUME TypeOK
  PROVE  /\ Fresh \in Nat /\ Fresh >= 1
         /\ Fresh > api.selector /\ Fresh > api.preview
         /\ \A s \in DOMAIN deployments : Fresh > s
<1> DEFINE used == {api.selector, api.preview} \cup DOMAIN deployments \cup
                   {services[s].admin : s \in {"live", "preview"}}
<1>1. used \in SUBSET (0 .. MaxSelectors)
  BY DataPlaneFields DEF TypeOK
<1>2. Max(used) \in used /\ \A m \in used : m <= Max(used)
  BY <1>1, MaxIsLargest
<1>3. Max(used) \in Nat
  BY <1>1, <1>2
<1>4. Fresh = 1 + Max(used)
  BY DEF Fresh
<1>5. \A m \in used : Fresh > m
  <2> HIDE DEF used
  <2> TAKE m \in used
  <2>1. m \in Nat /\ m <= Max(used)
    BY <1>1, <1>2
  <2>2. QED
    BY <1>3, <1>4, <2>1
<1>6. QED
  BY <1>3, <1>4, <1>5

\* The same for Deployments: reconcileDataPlaneDeployment, the label of a
\* promotion and the Deployment controller.
LEMMA DeploymentTypes ==
  ASSUME NEW d \in Deployments
  PROVE  /\ d.state \in {"live", "preview"} /\ d.generation \in 1 .. MaxGeneration
         /\ d.replicas \in 0 .. 1 /\ d.ready \in BOOLEAN /\ d.pods \in 0 .. MaxGeneration
         /\ \A g \in 1 .. MaxGeneration, r \in 0 .. 1 :
              [d EXCEPT !.generation = g, !.replicas = r] \in Deployments
         /\ [d EXCEPT !.state = "live"] \in Deployments
         /\ [d EXCEPT !.ready = FALSE] \in Deployments
         /\ [d EXCEPT !.ready = TRUE, !.pods = d.generation] \in Deployments
<1>1. /\ d.state \in {"live", "preview"} /\ d.generation \in 1 .. MaxGeneration
      /\ d.replicas \in 0 .. 1 /\ d.ready \in BOOLEAN /\ d.pods \in 0 .. MaxGeneration
  BY DEF Deployments
<1>2. \A g \in 1 .. MaxGeneration, r \in 0 .. 1 :
        [d EXCEPT !.generation = g, !.replicas = r] \in Deployments
  BY DEF Deployments
<1>3. [d EXCEPT !.state = "live"] \in Deployments /\ [d EXCEPT !.ready = FALSE] \in Deployments
  BY DEF Deployments
<1>4. [d EXCEPT !.ready = TRUE, !.pods = d.generation] \in Deployments
  <2>1. d.generation \in 0 .. MaxGeneration
    BY <1>1
  <2>2. \A p \in 0 .. MaxGeneration : [d EXCEPT !.ready = TRUE, !.pods = p] \in Deployments
    BY DEF Deployments
  <2>3. QED
    BY <2>1, <2>2
<1>5. QED
  BY <1>1, <1>2, <1>3, <1>4

\* filterDeployments keeps one of the live Deployments.
LEMMA KeptIsLive ==
  ASSUME TypeOK, Cardinality(Labelled("live")) > 1
  PROVE  ToKeep(Labelled("live")) \in Labelled("live")
<1>1. Labelled("live") \in SUBSET (0 .. MaxSelectors)
  BY DEF Labelled, TypeOK
<1>2. Labelled("live") # {}
  BY <1>1, CountToTwo
<1>3. \A S \in SUBSET Labelled("live") : S # {} => Min(S) \in S
  BY <1>1, MinIsSmallest
<1>4. QED
  BY <1>2, <1>3 DEF ToKeep

\* The part of TypeOK that is about Deployments.
DeploymentsOK ==
  /\ DOMAIN deployments \subseteq 0 .. MaxSelectors
  /\ \A s \in DOMAIN deployments : deployments[s] \in Deployments

\* The steps of a reconcile that only patch the DataPlane.
LEMMA PatchType ==
  ASSUME TypeOK,
         \/ ReconcileStart \/ PruneRolloutStatus \/ EnsureLiveReadyStatus \/ InitSelectorInRolloutStatus
         \/ EnsureRolloutStarted \/ DecidePromotion \/ PreviewSelectorOverridesLive
         \/ WaitForLiveServices \/ ClearRolloutSelector \/ SetPromotionDone \/ ResetPromoteWhenReady
         \/ InitStatus \/ EnsureReadyStatus \/ ReconcileFails
  PROVE  TypeOK'
<1>0. api \in DataPlanes /\ copy \in DataPlanes
  BY DEF TypeOK
<1>1. /\ \A r \in Reasons : RolledOut(r) \in DataPlanes
      /\ \A r \in ReadyReasons, g \in 0 .. MaxGeneration :
           [api EXCEPT !.readyGeneration = g, !.ready = r] \in DataPlanes
      /\ copy.generation \in 0 .. MaxGeneration /\ copy.readyGeneration \in 0 .. MaxGeneration
      /\ copy.preview \in 0 .. MaxSelectors
  <2>1. copy.generation \in 0 .. MaxGeneration
    BY <1>0, DataPlaneFields
  <2>2. \A r \in Reasons : RolledOut(r) \in DataPlanes
    BY <1>0, <2>1, PatchTypes DEF RolledOut
  <2>3. \A r \in ReadyReasons, g \in 0 .. MaxGeneration :
           [api EXCEPT !.readyGeneration = g, !.ready = r] \in DataPlanes
    BY <1>0, PatchTypes
  <2>4. QED
    BY <1>0, <2>1, <2>2, <2>3, DataPlaneFields
<1>2. ReadyReasons = {None, "DependenciesNotReady", "WaitingToBecomeReady", "Ready"}
  BY DEF ReadyReasons
<1>3. {"Progressing", "WaitingForChange", "AwaitingPromotion", "PromotionInProgress",
       "PromotionFailed", "PromotionDone", "Failed"} \subseteq Reasons
  BY DEF Reasons
<1>4. /\ api' \in DataPlanes /\ copy' \in DataPlanes
      /\ UNCHANGED <<deployments, services, requests, podFailures>>
      /\ queued' \in BOOLEAN /\ promotions' \in Nat
      /\ UNCHANGED failures \/ ReconcileFails
  <2>1. CASE ReconcileStart
    BY <2>1 DEF ReconcileStart, TypeOK
  <2>2. CASE PruneRolloutStatus
    BY <1>0, <2>2, PatchTypes DEF PruneRolloutStatus, Patch, Proceed, TypeOK
  <2>3. CASE EnsureLiveReadyStatus
    <3>1. api' \in DataPlanes /\ copy' \in DataPlanes
      <4> DEFINE r == IF Labelled("live") # {} /\ \A s \in Labelled("live") : deployments[s].ready
                        THEN "Ready" ELSE "WaitingToBecomeReady"
      <4>1. [api EXCEPT !.readyGeneration = copy.readyGeneration, !.ready = r] \in DataPlanes
        BY <1>1, <1>2
      <4>2. QED
        BY <1>0, <2>3, <4>1 DEF EnsureLiveReadyStatus, EnsureDataPlaneReadyStatus, Patch
    <3>2. QED
      BY <2>3, <3>1 DEF EnsureLiveReadyStatus, EnsureDataPlaneReadyStatus, Proceed, Return, TypeOK
  <2>4. CASE InitSelectorInRolloutStatus
    <3>1. Fresh <= MaxSelectors => Fresh \in 0 .. MaxSelectors
      BY FreshIsNewer
    <3>2. \A s \in 0 .. MaxSelectors : [api EXCEPT !.preview = s] \in DataPlanes
      BY <1>0, PatchTypes
    <3>3. QED
      BY <1>0, <2>4, <3>1, <3>2 DEF InitSelectorInRolloutStatus, Patch, Proceed, TypeOK
  <2>5. CASE EnsureRolloutStarted
    <3>1. api' \in DataPlanes /\ copy' \in DataPlanes
      <4> DEFINE r == IF Labelled("live") # {} /\ \A s \in Labelled("live") : deployments[s].ready
                        THEN "Ready" ELSE "WaitingToBecomeReady"
      <4>1. [api EXCEPT !.readyGeneration = copy.generation, !.ready = r] \in DataPlanes
        BY <1>1, <1>2
      <4>2. RolledOut("Progressing") \in DataPlanes
        BY <1>1, <1>3
      <4>3. QED
        BY <1>0, <2>5, <4>1, <4>2 DEF EnsureRolloutStarted, EnsureDataPlaneReadyStatus, Patch
    <3>2. QED
      BY <2>5, <3>1 DEF EnsureRolloutStarted, EnsureDataPlaneReadyStatus, Proceed, Return, TypeOK
  <2>6. CASE DecidePromotion
    BY <1>0, <1>1, <1>3, <2>6 DEF DecidePromotion, Patch, Proceed, Return, TypeOK
  <2>7. CASE PreviewSelectorOverridesLive
    <3>1. [api EXCEPT !.selector = copy.preview] \in DataPlanes
      BY <1>0, <1>1, PatchTypes
    <3>2. promotions' \in Nat
      <4>1. promotions \in Nat /\ (promotions' = promotions \/ promotions' = promotions + 1)
        BY <2>7 DEF PreviewSelectorOverridesLive, TypeOK
      <4>2. QED
        BY <4>1
    <3>3. QED
      BY <1>0, <2>7, <3>1, <3>2 DEF PreviewSelectorOverridesLive, Patch, Proceed, Return, TypeOK
  <2>8. CASE WaitForLiveServices
    BY <1>0, <2>8 DEF WaitForLiveServices, Proceed, TypeOK
  <2>9. CASE ClearRolloutSelector
    <3>1. [api EXCEPT !.preview = 0] \in DataPlanes
      <4>1. 0 \in 0 .. MaxSelectors
        OBVIOUS
      <4>2. QED
        BY <1>0, <4>1, PatchTypes
    <3>2. QED
      BY <2>9, <3>1 DEF ClearRolloutSelector, Patch, Proceed, TypeOK
  <2>10. CASE SetPromotionDone
    BY <1>0, <1>1, <1>3, <2>10 DEF SetPromotionDone, Patch, Proceed, TypeOK
  <2>11. CASE ResetPromoteWhenReady
    BY <1>0, <2>11, PatchTypes DEF ResetPromoteWhenReady, Patch, Proceed, TypeOK
  <2>12. CASE InitStatus
    <3>1. Fresh <= MaxSelectors => Fresh \in 0 .. MaxSelectors
      BY FreshIsNewer
    <3>2. \A s \in 0 .. MaxSelectors : [api EXCEPT !.selector = s] \in DataPlanes
      BY <1>0, PatchTypes
    <3>3. [api EXCEPT !.ready = "DependenciesNotReady", !.readyGeneration = copy.generation] \in DataPlanes
      BY <1>0, <1>1, <1>2, PatchTypes
    <3>4. QED
      BY <1>0, <2>12, <3>1, <3>2, <3>3 DEF InitStatus, Patch, Proceed, Return, TypeOK
  <2>13. CASE EnsureReadyStatus
    <3>1. api' \in DataPlanes /\ copy' \in DataPlanes
      <4> DEFINE r == IF Labelled("live") # {} /\ \A s \in Labelled("live") : deployments[s].ready
                        THEN "Ready" ELSE "WaitingToBecomeReady"
      <4>1. [api EXCEPT !.readyGeneration = copy.generation, !.ready = r] \in DataPlanes
        BY <1>1, <1>2
      <4>2. QED
        BY <1>0, <2>13, <4>1 DEF EnsureReadyStatus, EnsureDataPlaneReadyStatus, Patch
    <3>2. QED
      BY <2>13, <3>1 DEF EnsureReadyStatus, EnsureDataPlaneReadyStatus, Return, TypeOK
  <2>14. CASE ReconcileFails
    <3>1. FailureReason(pc) # None => FailureReason(pc) \in Reasons
      BY <1>3 DEF FailureReason
    <3>2. QED
      BY <1>0, <1>1, <2>14, <3>1 DEF ReconcileFails, Patch, Return, TypeOK
  <2>15. QED
    BY <2>1, <2>2, <2>3, <2>4, <2>5, <2>6, <2>7, <2>8, <2>9, <2>10, <2>11, <2>12, <2>13, <2>14
<1>5. failures' \in 0 .. MaxFailures
  <2>1. failures \in 0 .. MaxFailures
    BY DEF TypeOK
  <2>2. CASE ReconcileFails
    BY <2>1, <2>2 DEF ReconcileFails
  <2>3. QED
    BY <1>4, <2>1, <2>2
<1>6. QED
  BY <1>4, <1>5 DEF TypeOK

\* The steps that write a Service.
LEMMA ServiceType ==
  ASSUME TypeOK, EnsurePreviewServices \/ EnsureLiveServices
  PROVE  TypeOK'
<1> DEFINE All == [{"live", "preview"} -> [admin : 0 .. MaxSelectors, ingress : 0 .. MaxSelectors]]
<1>1. copy.preview \in 0 .. MaxSelectors /\ copy.selector \in 0 .. MaxSelectors
  BY DataPlaneFields DEF TypeOK
<1>2. \A st \in {"live", "preview"}, s \in 0 .. MaxSelectors :
        /\ [services EXCEPT ![st].admin = s] \in All
        /\ [services EXCEPT ![st].ingress = s] \in All
  BY DEF TypeOK
<1>3. services' \in All
  <2>1. services \in All
    BY DEF TypeOK
  <2>2. CASE EnsurePreviewServices
    BY <1>1, <1>2, <2>1, <2>2 DEF EnsurePreviewServices, EnsureServices
  <2>3. CASE EnsureLiveServices
    BY <1>1, <1>2, <2>1, <2>3 DEF EnsureLiveServices, EnsureServices
  <2>4. QED
    BY <2>2, <2>3
<1>4. QED
  BY <1>3 DEF EnsurePreviewServices, EnsureLiveServices, EnsureServices, Proceed, Return, TypeOK

\* The steps that write, label or delete Deployments.
LEMMA DeploymentType ==
  ASSUME TypeOK,
         \/ PrunePreview \/ EnsurePreviewDeployment \/ LabelPreviewLive \/ ReduceLiveDeployments
         \/ EnsureLiveDeployment
  PROVE  TypeOK'
<1>1. /\ copy.preview \in 0 .. MaxSelectors /\ copy.selector \in 0 .. MaxSelectors
      /\ copy.generation \in 1 .. MaxGeneration
  BY DataPlaneFields DEF TypeOK
<1>2. DOMAIN deployments \subseteq 0 .. MaxSelectors /\ \A s \in DOMAIN deployments : deployments[s] \in Deployments
  BY DEF TypeOK
<1>3. \A r \in 0 .. 1 :
        /\ New("preview", r) \in Deployments /\ New("live", r) \in Deployments
        /\ \A s \in DOMAIN deployments : Updated(deployments[s], r) \in Deployments
  <2>1. \A r \in 0 .. 1 : New("preview", r) \in Deployments /\ New("live", r) \in Deployments
    BY <1>1 DEF New, Deployments
  <2>2. QED
    BY <1>1, <1>2, <2>1, DeploymentTypes DEF Updated
<1>4. PreviewReplicas \in 0 .. 1 /\ 1 \in 0 .. 1
  BY DEF PreviewReplicas
<1>5. DeploymentsOK'
  <2>1. CASE PrunePreview
    BY <1>2, <2>1 DEF PrunePreview, DeploymentsOK
  <2>2. CASE EnsurePreviewDeployment
    <3>1. ASSUME Labelled("preview") = {},
                 deployments' = [s \in DOMAIN deployments \cup {copy.preview} |->
                               IF s = copy.preview THEN New("preview", PreviewReplicas) ELSE deployments[s]]
          PROVE  DeploymentsOK'
      BY <1>1, <1>2, <1>3, <1>4, <3>1 DEF DeploymentsOK
    <3>2. ASSUME NEW s \in Labelled("preview"),
                 deployments' = [deployments EXCEPT ![s] = Updated(deployments[s], PreviewReplicas)]
          PROVE  DeploymentsOK'
      BY <1>2, <1>3, <1>4, <3>2 DEF DeploymentsOK, Labelled
    <3>3. QED
      BY <2>2, <3>1, <3>2 DEF EnsurePreviewDeployment
  <2>3. CASE LabelPreviewLive
    <3>1. [deployments[copy.preview] EXCEPT !.state = "live"] \in Deployments
      BY <1>2, <2>3, DeploymentTypes DEF LabelPreviewLive
    <3>2. QED
      BY <1>2, <2>3, <3>1 DEF LabelPreviewLive, DeploymentsOK
  <2>4. CASE ReduceLiveDeployments
    BY <1>2, <2>4 DEF ReduceLiveDeployments, DeploymentsOK
  <2>5. CASE EnsureLiveDeployment
    <3>1. ASSUME deployments' = [s \in DOMAIN deployments \cup {copy.selector} |->
                                   IF s = copy.selector THEN New("live", 1) ELSE deployments[s]]
          PROVE  DeploymentsOK'
      BY <1>1, <1>2, <1>3, <1>4, <3>1 DEF DeploymentsOK
    <3>2. ASSUME Cardinality(Labelled("live")) > 1,
                 deployments' = [s \in (DOMAIN deployments \ Labelled("live")) \cup {ToKeep(Labelled("live"))} |->
                                   deployments[s]]
          PROVE  DeploymentsOK'
      <4>1. ToKeep(Labelled("live")) \in DOMAIN deployments
        BY <3>2, KeptIsLive DEF Labelled
      <4>2. QED
        BY <1>2, <3>2, <4>1 DEF DeploymentsOK
    <3>3. ASSUME Labelled("live") = {copy.selector},
                 deployments' = [deployments EXCEPT ![copy.selector] = Updated(deployments[copy.selector], 1)]
          PROVE  DeploymentsOK'
      <4>1. copy.selector \in DOMAIN deployments
        BY <3>3 DEF Labelled
      <4>2. QED
        BY <1>2, <1>3, <1>4, <3>3, <4>1 DEF DeploymentsOK
    <3>4. CASE deployments' = deployments
      BY <1>2, <3>4 DEF DeploymentsOK
    <3>5. QED
      BY <2>5, <3>1, <3>2, <3>3, <3>4 DEF EnsureLiveDeployment
  <2>6. QED
    BY <2>1, <2>2, <2>3, <2>4, <2>5
<1>6. services' \in [{"live", "preview"} -> [admin : 0 .. MaxSelectors, ingress : 0 .. MaxSelectors]]
  <2>1. services' = services \/ services' = [services EXCEPT !["preview"] = NoServices]
    BY DEF PrunePreview, EnsurePreviewDeployment, LabelPreviewLive, ReduceLiveDeployments,
           EnsureLiveDeployment
  <2>2. NoServices \in [admin : 0 .. MaxSelectors, ingress : 0 .. MaxSelectors]
    BY DEF NoServices
  <2>3. QED
    BY <2>1, <2>2 DEF TypeOK
<1>7. UNCHANGED <<api, copy, requests, promotions, failures, podFailures>> /\ queued' \in BOOLEAN
  BY DEF PrunePreview, EnsurePreviewDeployment, LabelPreviewLive, ReduceLiveDeployments,
         EnsureLiveDeployment, Proceed, Return, TypeOK
<1>8. QED
  BY <1>5, <1>6, <1>7 DEF DeploymentsOK, TypeOK

\* The user and the Deployment controller.
LEMMA EnvironmentType ==
  ASSUME TypeOK,
         \/ EditSpec \/ RemoveRollout \/ RequestPromotion
         \/ \E s \in DOMAIN deployments : PodsReplaced(s) \/ PodsReady(s) \/ PodsFail(s)
  PROVE  TypeOK'
<1>1. CASE EditSpec \/ RemoveRollout
  <2>1. api' \in DataPlanes
    BY <1>1, PatchTypes DEF EditSpec, RemoveRollout, TypeOK
  <2>2. QED
    BY <1>1, <2>1 DEF EditSpec, RemoveRollout, Event, TypeOK
<1>2. CASE RequestPromotion
  <2>1. api' \in DataPlanes
    BY <1>2, PatchTypes DEF RequestPromotion, TypeOK
  <2>2. requests' \in 0 .. MaxRequests
    BY <1>2 DEF RequestPromotion, TypeOK
  <2>3. QED
    BY <1>2, <2>1, <2>2 DEF RequestPromotion, Event, TypeOK
<1>3. ASSUME NEW s \in DOMAIN deployments, PodsReplaced(s) \/ PodsReady(s) \/ PodsFail(s)
      PROVE  TypeOK'
  <2>1. /\ [deployments[s] EXCEPT !.ready = FALSE] \in Deployments
        /\ [deployments[s] EXCEPT !.ready = TRUE, !.pods = deployments[s].generation] \in Deployments
    BY DeploymentTypes DEF TypeOK
  <2>2. DeploymentsOK'
    BY <1>3, <2>1 DEF PodsReplaced, PodsReady, PodsFail, DeploymentsOK, TypeOK
  <2>3. podFailures' \in 0 .. MaxPodFailures
    <3>1. podFailures \in 0 .. MaxPodFailures
      BY DEF TypeOK
    <3>2. podFailures' = podFailures \/ (podFailures < MaxPodFailures /\ podFailures' = podFailures + 1)
      BY <1>3 DEF PodsReplaced, PodsReady, PodsFail
    <3>3. QED
      BY <3>1, <3>2
  <2>4. QED
    BY <1>3, <2>2, <2>3 DEF PodsReplaced, PodsReady, PodsFail, Event, DeploymentsOK, TypeOK
<1>4. QED
  BY <1>1, <1>2, <1>3

\* Every variable keeps its type, whatever the user, failures and Pods do.
THEOREM TypeCorrect == Spec => []TypeOK
<1>1. TypeOK /\ [Next]_vars => TypeOK'
  <2> SUFFICES ASSUME TypeOK, [Next]_vars PROVE TypeOK'
    OBVIOUS
  <2>1. CASE UNCHANGED vars
    BY <2>1 DEF vars, TypeOK
  <2>2. QED
    BY <2>1, PatchType, ServiceType, DeploymentType, EnvironmentType DEF Next, ReconcileStep
<1>2. QED
  BY <1>1, InitialType, PTL DEF Spec

-----------------------------------------------------------------------------
(* What the calls do to the DataPlane, field by field.                     *)

Live == Labelled("live")
Preview == Labelled("preview")
TwoLive == \E s, t \in Live : s # t

KeepsUser == /\ api'.generation = api.generation
             /\ api'.rollout = api.rollout
             /\ api'.promote = api.promote
KeepsSelectors == api'.selector = api.selector /\ api'.preview = api.preview
KeepsReady == api'.ready = api.ready /\ api'.readyGeneration = api.readyGeneration
KeepsReason == api'.reason = api.reason /\ api'.reasonGeneration = api.reasonGeneration

\* The labels and replicas stay as they are.
KeepsLabels ==
  /\ Live' = Live /\ Preview' = Preview /\ TwoLive' = TwoLive
  /\ DOMAIN deployments' = DOMAIN deployments
  /\ \A s \in DOMAIN deployments : deployments'[s].replicas = deployments[s].replicas

\* A step that writes no Deployment keeps their labels and replicas.
LEMMA SameLabels ==
  ASSUME deployments' = deployments
  PROVE  KeepsLabels
BY DEF KeepsLabels, Live, Preview, TwoLive, Labelled

\* Every Deployment is either live or a preview, and the number of live ones
\* that the reconcilers test says whether there are two different ones.
LEMMA LivePreview ==
  ASSUME TypeOK
  PROVE  /\ Live \subseteq DOMAIN deployments /\ Preview \subseteq DOMAIN deployments
         /\ DOMAIN deployments = Live \cup Preview /\ Live \cap Preview = {}
         /\ DOMAIN deployments \subseteq 0 .. MaxSelectors
         /\ Cardinality(Live) > 1 <=> TwoLive
         /\ Cardinality(Live) = 1 <=> Live # {} /\ ~TwoLive
<1>1. DOMAIN deployments \subseteq 0 .. MaxSelectors /\ \A s \in DOMAIN deployments : deployments[s].state \in {"live", "preview"}
  BY DeploymentTypes DEF TypeOK
<1>2. /\ Live \subseteq DOMAIN deployments /\ Preview \subseteq DOMAIN deployments
      /\ DOMAIN deployments = Live \cup Preview /\ Live \cap Preview = {}
  BY <1>1 DEF Live, Preview, Labelled
<1>3. Live \in SUBSET (0 .. MaxSelectors)
  BY <1>1, <1>2
<1>4. /\ Cardinality(Live) > 1 <=> TwoLive
      /\ Cardinality(Live) = 1 <=> Live # {} /\ ~TwoLive
  BY <1>3, CountToTwo DEF TwoLive
<1>5. QED
  BY <1>1, <1>2, <1>4

\* ensureRolledOutCondition.
LEMMA RolledOutFields ==
  ASSUME TypeOK, NEW r, Patch(RolledOut(r))
  PROVE  /\ copy' = api' /\ KeepsUser /\ KeepsSelectors /\ KeepsReady
         /\ api'.reason = r /\ api'.reasonGeneration = copy.generation
BY DEF Patch, RolledOut, KeepsUser, KeepsSelectors, KeepsReady, TypeOK, DataPlanes

\* ensureDataPlaneReadyStatus, in its two outcomes.
ReportEnds == api' = api /\ copy' = api /\ (TwoLive \/ Live = {})
Reports(g) ==
  /\ ~TwoLive
  /\ copy' = api' /\ KeepsUser /\ KeepsSelectors /\ KeepsReason
  /\ api'.readyGeneration = g
  /\ api'.ready = "WaitingToBecomeReady" \/ (Live # {} /\ api'.ready = "Ready")
  /\ Live = {} => api.ready # "WaitingToBecomeReady" \/ api.readyGeneration # g

\* What ensureDataPlaneReadyStatus writes, on the DataPlane it got again.
LEMMA ReportFields ==
  ASSUME TypeOK, NEW g \in 0 .. MaxGeneration, NEW r,
         r = IF Live # {} /\ \A s \in Live : deployments[s].ready THEN "Ready" ELSE "WaitingToBecomeReady",
         NEW reported, reported = [api EXCEPT !.readyGeneration = g, !.ready = r]
  PROVE  /\ Cardinality(Live) > 1 \/ (Live = {} /\ reported = api) => TwoLive \/ Live = {}
         /\ (Cardinality(Live) = 1 \/ (Live = {} /\ reported # api)) /\ Patch(reported) => Reports(g)
<1>1. Cardinality(Live) > 1 \/ (Live = {} /\ reported = api) => TwoLive \/ Live = {}
  BY LivePreview
<1>2. ASSUME Cardinality(Live) = 1 \/ (Live = {} /\ reported # api), Patch(reported)
      PROVE  Reports(g)
  <2>1. /\ copy' = api' /\ KeepsUser /\ KeepsSelectors /\ KeepsReason
        /\ api'.readyGeneration = g /\ api'.ready = r
    BY <1>2 DEF Patch, KeepsUser, KeepsSelectors, KeepsReason, TypeOK, DataPlanes
  <2>2. r = "WaitingToBecomeReady" \/ (Live # {} /\ r = "Ready")
    OBVIOUS
  <2>3. ~TwoLive
    <3>1. CASE Live = {}
      BY <3>1 DEF TwoLive
    <3>2. QED
      BY <1>2, <3>1, LivePreview
  <2>4. Live = {} => api.ready # "WaitingToBecomeReady" \/ api.readyGeneration # g
    <3> SUFFICES ASSUME Live = {}, api.ready = "WaitingToBecomeReady", api.readyGeneration = g
                 PROVE  FALSE
      OBVIOUS
    <3>1. r = api.ready
      OBVIOUS
    <3>2. reported = api
      BY <3>1 DEF TypeOK, DataPlanes
    <3>3. Cardinality(Live) # 1
      BY LivePreview
    <3>4. QED
      BY <1>2, <3>2, <3>3
  <2>5. QED
    BY <2>1, <2>2, <2>3, <2>4 DEF Reports
<1>3. QED
  BY <1>1, <1>2

\* Each step that patches the DataPlane.
LEMMA EnsureLiveReadyStatusDoes ==
  ASSUME TypeOK, EnsureLiveReadyStatus
  PROVE  /\ pc = "liveReady" /\ UNCHANGED <<deployments, services, requests, promotions>>
         /\ \/ ReportEnds /\ pc' = "idle"
            \/ Reports(copy.readyGeneration) /\ pc' = "initRolloutSelector"
<1> DEFINE r == IF Live # {} /\ \A s \in Live : deployments[s].ready THEN "Ready" ELSE "WaitingToBecomeReady"
<1> DEFINE reported == [api EXCEPT !.readyGeneration = copy.readyGeneration, !.ready = r]
<1>1. copy.readyGeneration \in 0 .. MaxGeneration
  BY DataPlaneFields DEF TypeOK
<1>2. /\ Cardinality(Live) > 1 \/ (Live = {} /\ reported = api) => TwoLive \/ Live = {}
      /\ (Cardinality(Live) = 1 \/ (Live = {} /\ reported # api)) /\ Patch(reported) => Reports(copy.readyGeneration)
  BY <1>1, ReportFields
<1>3. QED
  BY <1>2 DEF EnsureLiveReadyStatus, EnsureDataPlaneReadyStatus, Proceed, Return, ReportEnds, Live

\* The DataPlane reconciler reports at the generation of its copy.
LEMMA EnsureReadyStatusDoes ==
  ASSUME TypeOK, EnsureReadyStatus
  PROVE  /\ pc = "ready" /\ UNCHANGED <<deployments, services, requests, promotions>> /\ pc' = "idle"
         /\ ReportEnds \/ Reports(copy.generation)
<1> DEFINE r == IF Live # {} /\ \A s \in Live : deployments[s].ready THEN "Ready" ELSE "WaitingToBecomeReady"
<1> DEFINE reported == [api EXCEPT !.readyGeneration = copy.generation, !.ready = r]
<1>1. copy.generation \in 0 .. MaxGeneration
  BY DataPlaneFields DEF TypeOK
<1>2. /\ Cardinality(Live) > 1 \/ (Live = {} /\ reported = api) => TwoLive \/ Live = {}
      /\ (Cardinality(Live) = 1 \/ (Live = {} /\ reported # api)) /\ Patch(reported) => Reports(copy.generation)
  BY <1>1, ReportFields
<1>3. QED
  BY <1>2 DEF EnsureReadyStatus, EnsureDataPlaneReadyStatus, Return, ReportEnds, Live

\* Beginning a rollout, or bringing the Ready condition up to a promotion.
LEMMA EnsureRolloutStartedDoes ==
  ASSUME TypeOK, EnsureRolloutStarted
  PROVE  /\ pc = "rolledOut" /\ UNCHANGED <<deployments, services, requests, promotions>>
         /\ \/ ReportEnds /\ pc' = "idle"
            \/ /\ copy.reason = "PromotionDone" /\ copy.reasonGeneration = copy.generation
               /\ Reports(copy.generation) /\ pc' = "previewServices"
            \/ /\ copy' = api' /\ KeepsUser /\ KeepsSelectors /\ KeepsReady
               /\ api'.reason = "Progressing" /\ api'.reasonGeneration = copy.generation
               /\ pc' = "previewServices"
            \/ /\ copy.reasonGeneration = copy.generation
               /\ UNCHANGED <<api, copy>> /\ pc' = "previewServices"
<1> DEFINE r == IF Live # {} /\ \A s \in Live : deployments[s].ready THEN "Ready" ELSE "WaitingToBecomeReady"
<1> DEFINE reported == [api EXCEPT !.readyGeneration = copy.generation, !.ready = r]
<1>1. copy.generation \in 0 .. MaxGeneration
  BY DataPlaneFields DEF TypeOK
<1>2. /\ Cardinality(Live) > 1 \/ (Live = {} /\ reported = api) => TwoLive \/ Live = {}
      /\ (Cardinality(Live) = 1 \/ (Live = {} /\ reported # api)) /\ Patch(reported) => Reports(copy.generation)
  BY <1>1, ReportFields
<1>3. pc = "rolledOut" /\ UNCHANGED <<deployments, services, requests, promotions>>
  BY DEF EnsureRolloutStarted, EnsureDataPlaneReadyStatus
<1>4. CASE copy.reason = "PromotionDone" /\ copy.reasonGeneration = copy.generation
  BY <1>2, <1>3, <1>4 DEF EnsureRolloutStarted, EnsureDataPlaneReadyStatus, Proceed, Return, ReportEnds, Live
<1>5. CASE copy.reasonGeneration # copy.generation
  BY <1>3, <1>5, RolledOutFields DEF EnsureRolloutStarted, Proceed
<1>6. CASE ~(copy.reason = "PromotionDone" /\ copy.reasonGeneration = copy.generation)
           /\ copy.reasonGeneration = copy.generation
  BY <1>3, <1>6 DEF EnsureRolloutStarted, Proceed
<1>7. QED
  BY <1>4, <1>5, <1>6

\* Pruning empties the rollout's status and leaves the live side alone.
LEMMA PruneRolloutStatusDoes ==
  ASSUME TypeOK, PruneRolloutStatus
  PROVE  /\ pc = "pruneStatus" /\ UNCHANGED <<deployments, services, requests, promotions>>
         /\ pc' = "initReady" /\ KeepsUser /\ KeepsReady /\ api'.selector = api.selector
         /\ \/ UNCHANGED <<api, copy>>
            \/ copy' = api' /\ api'.preview = 0 /\ api'.reason = None /\ api'.reasonGeneration = 0
BY DEF PruneRolloutStatus, Patch, Proceed, KeepsUser, KeepsReady, TypeOK, DataPlanes

\* The rollout keeps its selector, or draws one that nothing has.
LEMMA InitSelectorInRolloutStatusDoes ==
  ASSUME TypeOK, InitSelectorInRolloutStatus
  PROVE  /\ pc = "initRolloutSelector" /\ UNCHANGED <<deployments, services, requests, promotions>>
         /\ pc' = "rolledOut" /\ KeepsUser /\ KeepsReady /\ KeepsReason /\ api'.selector = api.selector
         /\ \/ copy.preview # 0 /\ UNCHANGED <<api, copy>>
            \/ copy.preview = 0 /\ copy' = api' /\ api'.preview = Fresh
BY DEF InitSelectorInRolloutStatus, Patch, Proceed, KeepsUser, KeepsReady, KeepsReason, TypeOK, DataPlanes

\* The decision goes on only for a preview with replicas that may be promoted.
LEMMA DecidePromotionDoes ==
  ASSUME TypeOK, DecidePromotion
  PROVE  /\ pc = "promotion" /\ UNCHANGED <<deployments, services, requests, promotions>>
         /\ KeepsUser /\ KeepsSelectors /\ KeepsReady
         /\ \/ /\ pc' = "idle" /\ copy' = api' /\ api'.reasonGeneration = copy.generation
               /\ api'.reason \in {"WaitingForChange", "Progressing", "AwaitingPromotion"}
            \/ /\ pc' = "override" /\ CanProceedWithPromotion
               /\ \E s \in Preview : deployments[s].replicas # 0
               /\ \/ copy.reason = "PromotionFailed" /\ UNCHANGED <<api, copy>>
                  \/ /\ copy' = api' /\ api'.reasonGeneration = copy.generation
                     /\ api'.reason = "PromotionInProgress"
<1>1. pc = "promotion" /\ UNCHANGED <<deployments, services, requests, promotions>>
  BY DEF DecidePromotion
<1>2. PICK s \in Preview :
         LET d == deployments[s] IN
         \/ d.replicas = 0 /\ Patch(RolledOut("WaitingForChange")) /\ Return(FALSE)
         \/ /\ d.replicas # 0 /\ ~d.ready
            /\ Patch(RolledOut("Progressing")) /\ Return(FALSE)
         \/ /\ d.replicas # 0 /\ d.ready /\ ~CanProceedWithPromotion
            /\ Patch(RolledOut("AwaitingPromotion")) /\ Return(FALSE)
         \/ /\ d.replicas # 0 /\ d.ready /\ CanProceedWithPromotion
            /\ IF copy.reason = "PromotionFailed"
                 THEN UNCHANGED <<api, copy>>
                 ELSE Patch(RolledOut("PromotionInProgress"))
            /\ Proceed("override")
  BY DEF DecidePromotion, Preview
<1>3. CASE \E r \in {"WaitingForChange", "Progressing", "AwaitingPromotion"} : Patch(RolledOut(r)) /\ Return(FALSE)
  BY <1>1, <1>3, RolledOutFields DEF Return
<1>4. CASE /\ deployments[s].replicas # 0 /\ CanProceedWithPromotion /\ Proceed("override")
           /\ copy.reason = "PromotionFailed" /\ UNCHANGED <<api, copy>>
  BY <1>1, <1>4 DEF Proceed, KeepsUser, KeepsSelectors, KeepsReady
<1>5. CASE /\ deployments[s].replicas # 0 /\ CanProceedWithPromotion /\ Proceed("override")
           /\ Patch(RolledOut("PromotionInProgress"))
  BY <1>1, <1>5, RolledOutFields DEF Proceed
<1>6. QED
  BY <1>2, <1>3, <1>4, <1>5

\* The override counts a promotion exactly when it moves the live selector.
LEMMA PreviewSelectorOverridesLiveDoes ==
  ASSUME TypeOK, PreviewSelectorOverridesLive
  PROVE  /\ pc = "override" /\ UNCHANGED <<deployments, services, requests>>
         /\ KeepsUser /\ KeepsReady /\ KeepsReason /\ api'.preview = api.preview
         /\ \/ /\ copy.selector = copy.preview /\ pc' = "liveServices"
               /\ UNCHANGED <<api, copy, promotions>>
            \/ /\ copy.selector # copy.preview /\ pc' = "idle" /\ promotions' = promotions + 1
               /\ copy' = api' /\ api'.selector = copy.preview
BY DEF PreviewSelectorOverridesLive, Patch, Proceed, Return, KeepsUser, KeepsReady, KeepsReason, TypeOK, DataPlanes

\* Clearing the rollout's selector changes nothing else.
LEMMA ClearRolloutSelectorDoes ==
  ASSUME TypeOK, ClearRolloutSelector
  PROVE  /\ pc = "clearSelector" /\ UNCHANGED <<deployments, services, requests, promotions>>
         /\ pc' = "promotionDone" /\ copy' = api' /\ KeepsUser /\ KeepsReady /\ KeepsReason
         /\ api'.selector = api.selector /\ api'.preview = 0
BY DEF ClearRolloutSelector, Patch, Proceed, KeepsUser, KeepsReady, KeepsReason, TypeOK, DataPlanes

\* The end of a promotion is recorded at the generation of the copy.
LEMMA SetPromotionDoneDoes ==
  ASSUME TypeOK, SetPromotionDone
  PROVE  /\ pc = "promotionDone" /\ UNCHANGED <<deployments, services, requests, promotions>>
         /\ pc' = "resetPromote" /\ copy' = api' /\ KeepsUser /\ KeepsReady /\ KeepsSelectors
         /\ api'.reason = "PromotionDone" /\ api'.reasonGeneration = copy.generation
BY RolledOutFields DEF SetPromotionDone, Proceed

\* Resetting the annotation changes nothing else.
LEMMA ResetPromoteWhenReadyDoes ==
  ASSUME TypeOK, ResetPromoteWhenReady
  PROVE  /\ pc = "resetPromote" /\ UNCHANGED <<deployments, services, requests, promotions>>
         /\ pc' = "reduce" /\ KeepsReady /\ KeepsReason /\ KeepsSelectors
         /\ api'.generation = api.generation /\ api'.rollout = api.rollout
         /\ \/ copy.promote /\ copy' = api' /\ api'.promote = FALSE
            \/ ~copy.promote /\ UNCHANGED <<api, copy>>
BY DEF ResetPromoteWhenReady, Patch, Proceed, KeepsReady, KeepsReason, KeepsSelectors, TypeOK, DataPlanes

\* The DataPlane reconciler initialises the Ready condition, then the selector.
LEMMA InitStatusDoes ==
  ASSUME TypeOK, InitStatus
  PROVE  /\ pc = "initReady" /\ UNCHANGED <<deployments, services, requests, promotions>>
         /\ KeepsUser /\ KeepsReason /\ api'.preview = api.preview
         /\ \/ /\ copy.readyGeneration = 0 /\ pc' = "idle" /\ copy' = api' /\ api'.selector = api.selector
               /\ api'.ready = "DependenciesNotReady" /\ api'.readyGeneration = copy.generation
            \/ /\ copy.readyGeneration # 0 /\ copy.selector = 0 /\ pc' = "services"
               /\ copy' = api' /\ KeepsReady /\ api'.selector = Fresh
            \/ /\ copy.readyGeneration # 0 /\ copy.selector # 0 /\ pc' = "services"
               /\ UNCHANGED <<api, copy>>
BY DEF InitStatus, Patch, Proceed, Return, KeepsUser, KeepsReady, KeepsReason, TypeOK, DataPlanes

\* A failed reconcile ends, and at most records the failure.
LEMMA ReconcileFailsDoes ==
  ASSUME TypeOK, ReconcileFails
  PROVE  /\ pc # "idle" /\ UNCHANGED <<deployments, services, requests, promotions>>
         /\ pc' = "idle" /\ KeepsUser /\ KeepsSelectors /\ KeepsReady
         /\ \/ UNCHANGED <<api, copy>>
            \/ /\ copy' = api' /\ api'.reason \in {"Failed", "PromotionFailed"}
               /\ api'.reasonGeneration = copy.generation
<1>1. FailureReason(pc) # None => FailureReason(pc) \in {"Failed", "PromotionFailed"}
  BY DEF FailureReason
<1>2. CASE UNCHANGED <<api, copy>>
  BY <1>2 DEF ReconcileFails, Return, KeepsUser, KeepsSelectors, KeepsReady
<1>3. CASE FailureReason(pc) # None /\ Patch(RolledOut(FailureReason(pc)))
  BY <1>1, <1>3, RolledOutFields DEF ReconcileFails, Return
<1>4. QED
  BY <1>2, <1>3 DEF ReconcileFails

-----------------------------------------------------------------------------
(* What the calls do to Services and Deployments.                          *)

\* A write to one of the Services of a state.
LEMMA EnsureServicesDoes ==
  ASSUME TypeOK, NEW state \in {"live", "preview"}, NEW selector, NEW next,
         EnsureServices(state, selector, next)
  PROVE  /\ UNCHANGED <<api, copy, deployments, requests, promotions>>
         /\ \A s \in {"live", "preview"} \ {state} : services'[s] = services[s]
         /\ \/ /\ services[state].admin # selector /\ pc' = "idle"
               /\ services'[state].admin = selector /\ services'[state].ingress = services[state].ingress
            \/ /\ services[state].admin = selector /\ services[state].ingress # selector /\ pc' = "idle"
               /\ services'[state].admin = selector /\ services'[state].ingress = selector
            \/ /\ services[state].admin = selector /\ services[state].ingress = selector
               /\ UNCHANGED services /\ pc' = next
BY DEF EnsureServices, Proceed, Return, TypeOK

\* Pruning deletes the preview and no live Deployment.
LEMMA PrunePreviewDoes ==
  ASSUME TypeOK, PrunePreview
  PROVE  /\ pc = "prune" /\ pc' = "pruneStatus" /\ UNCHANGED <<api, copy, requests, promotions>>
         /\ Live' = Live /\ Preview' = {} /\ TwoLive' = TwoLive
         /\ DOMAIN deployments' \subseteq DOMAIN deployments
         /\ services'["preview"] = NoServices /\ services'["live"] = services["live"]
<1>1. deployments' = [s \in DOMAIN deployments \ Preview |-> deployments[s]]
  BY DEF PrunePreview, Preview
<1>2. DOMAIN deployments \ Preview = Live
  BY LivePreview
<1>3. Live' = Live /\ Preview' = {} /\ DOMAIN deployments' \subseteq DOMAIN deployments
  BY <1>1, <1>2 DEF Live, Preview, Labelled
<1>4. QED
  BY <1>3 DEF PrunePreview, Proceed, TwoLive, TypeOK

\* The preview Deployment is made, or updated to the replicas it should have.
LEMMA EnsurePreviewDeploymentDoes ==
  ASSUME TypeOK, EnsurePreviewDeployment, copy.preview \notin Live
  PROVE  /\ pc = "previewDeployment" /\ UNCHANGED <<api, copy, services, requests, promotions>>
         /\ Live' = Live /\ TwoLive' = TwoLive
         /\ \A s \in Live : deployments'[s] = deployments[s]
         /\ \/ /\ Preview = {} /\ Preview' = {copy.preview} /\ pc' = "idle"
            \/ /\ Preview' = Preview /\ pc' \in {"idle", "promotion"}
               /\ \E s \in Preview : deployments'[s].replicas = PreviewReplicas
         /\ DOMAIN deployments' = Live' \cup Preview'
<1>1. pc = "previewDeployment" /\ UNCHANGED <<api, copy, services, requests, promotions>>
  BY DEF EnsurePreviewDeployment
<1>2. CASE /\ Preview = {}
           /\ deployments' = [s \in DOMAIN deployments \cup {copy.preview} |->
                                IF s = copy.preview THEN New("preview", PreviewReplicas) ELSE deployments[s]]
           /\ Return(FALSE)
  <2>1. DOMAIN deployments = Live /\ copy.preview \notin DOMAIN deployments
    BY <1>2, LivePreview
  <2>2. \A s \in Live : deployments'[s] = deployments[s]
    BY <1>2, <2>1
  <2>3. deployments'[copy.preview].state = "preview" /\ DOMAIN deployments' = Live \cup {copy.preview}
    BY <1>2, <2>1 DEF New
  <2>4. \A s \in Live : deployments[s].state = "live"
    BY DEF Live, Labelled
  <2>5. Live' = Live
    BY <2>1, <2>2, <2>3, <2>4 DEF Live, Labelled
  <2>6. Preview' = {copy.preview}
    BY <2>1, <2>2, <2>3, <2>4 DEF Preview, Labelled
  <2>7. TwoLive' = TwoLive
    BY <2>5 DEF TwoLive
  <2>8. QED
    BY <1>1, <1>2, <2>2, <2>3, <2>5, <2>6, <2>7 DEF Return
<1>3. ASSUME NEW s \in Preview,
             deployments' = [deployments EXCEPT ![s] = Updated(deployments[s], PreviewReplicas)],
             pc' \in {"idle", "promotion"}
      PROVE  /\ Live' = Live /\ TwoLive' = TwoLive /\ Preview' = Preview
             /\ \A t \in Live : deployments'[t] = deployments[t]
             /\ deployments'[s].replicas = PreviewReplicas
             /\ DOMAIN deployments' = Live' \cup Preview'
  <2>1. s \in DOMAIN deployments /\ s \notin Live /\ deployments[s] \in Deployments
    BY LivePreview DEF TypeOK
  <2>2. deployments'[s].state = deployments[s].state /\ deployments'[s].replicas = PreviewReplicas
    BY <1>3, <2>1 DEF Updated, Deployments
  <2>3. DOMAIN deployments' = DOMAIN deployments /\ \A t \in DOMAIN deployments \ {s} : deployments'[t] = deployments[t]
    BY <1>3
  <2>4. Live' = Live /\ Preview' = Preview
    BY <2>1, <2>2, <2>3 DEF Live, Preview, Labelled
  <2>5. TwoLive' = TwoLive
    BY <2>4 DEF TwoLive
  <2>6. QED
    BY <2>1, <2>2, <2>3, <2>4, <2>5, LivePreview
<1>4. CASE \E s \in Preview :
             /\ deployments' = [deployments EXCEPT ![s] = Updated(deployments[s], PreviewReplicas)]
             /\ pc' \in {"idle", "promotion"}
  BY <1>1, <1>3, <1>4
<1>5. QED
  BY <1>2, <1>4 DEF EnsurePreviewDeployment, Proceed, Return, Preview

\* The label makes the preview live beside the old live Deployment.
LEMMA LabelPreviewLiveDoes ==
  ASSUME TypeOK, LabelPreviewLive
  PROVE  /\ pc = "label" /\ pc' = "clearSelector"
         /\ UNCHANGED <<api, copy, services, requests, promotions>>
         /\ Live' = Live \cup {copy.preview} /\ Preview' = Preview \ {copy.preview}
         /\ DOMAIN deployments' = DOMAIN deployments /\ copy.preview \in DOMAIN deployments
         /\ \A s \in DOMAIN deployments : deployments'[s].replicas = deployments[s].replicas
<1>1. /\ pc = "label" /\ pc' = "clearSelector"
      /\ UNCHANGED <<api, copy, services, requests, promotions>>
      /\ copy.preview \in DOMAIN deployments
      /\ deployments' = [deployments EXCEPT ![copy.preview].state = "live"]
  BY DEF LabelPreviewLive, Proceed
<1>2. deployments[copy.preview] \in Deployments
  BY <1>1 DEF TypeOK
<1>3. /\ DOMAIN deployments' = DOMAIN deployments
      /\ \A t \in DOMAIN deployments \ {copy.preview} : deployments'[t] = deployments[t]
      /\ deployments'[copy.preview].state = "live"
      /\ deployments'[copy.preview].replicas = deployments[copy.preview].replicas
  BY <1>1, <1>2 DEF Deployments
<1>4. Live' = Live \cup {copy.preview} /\ Preview' = Preview \ {copy.preview}
  BY <1>1, <1>3 DEF Live, Preview, Labelled
<1>5. QED
  BY <1>1, <1>3, <1>4

\* Reducing leaves one live Deployment, the newest.
LEMMA ReduceLiveDeploymentsDoes ==
  ASSUME TypeOK, ReduceLiveDeployments, Live # {}
  PROVE  /\ pc = "reduce" /\ pc' = "idle" /\ UNCHANGED <<api, copy, services, requests, promotions>>
         /\ Live' = {Max(Live)} /\ Preview' = Preview /\ ~TwoLive'
         /\ Max(Live) \in Live /\ \A s \in Live : s <= Max(Live)
         /\ DOMAIN deployments' = Live' \cup Preview'
         /\ \A s \in DOMAIN deployments' : deployments'[s] = deployments[s]
<1>1. Live \in SUBSET (0 .. MaxSelectors)
  BY LivePreview
<1>2. Max(Live) \in Live /\ \A s \in Live : s <= Max(Live)
  BY <1>1, MaxIsLargest
<1>3. deployments' = [s \in DOMAIN deployments \ (Live \ {Max(Live)}) |-> deployments[s]]
  BY DEF ReduceLiveDeployments, Live
<1>4. DOMAIN deployments' = {Max(Live)} \cup Preview
  BY <1>2, <1>3, LivePreview
<1>5. Live' = {Max(Live)} /\ Preview' = Preview
  BY <1>2, <1>3, <1>4, LivePreview DEF Live, Preview, Labelled
<1>6. ~TwoLive'
  BY <1>5 DEF TwoLive
<1>7. QED
  BY <1>2, <1>3, <1>4, <1>5, <1>6 DEF ReduceLiveDeployments, Return

\* The DataPlane reconciler makes, updates or reduces the live Deployment and
\* never touches a preview.
LEMMA EnsureLiveDeploymentDoes ==
  ASSUME TypeOK, EnsureLiveDeployment
  PROVE  /\ pc = "deployment" /\ UNCHANGED <<api, copy, services, requests, promotions>>
         /\ \/ /\ Live = {} /\ Live' = {copy.selector} /\ Preview' = Preview \ {copy.selector} /\ pc' = "idle"
            \/ /\ TwoLive /\ Live' # {} /\ Live' \subseteq Live /\ Preview' = Preview /\ pc' = "idle"
            \/ /\ Live # {} /\ Live' = Live /\ Preview' = Preview /\ pc' \in {"idle", "ready"}
               /\ DOMAIN deployments' = DOMAIN deployments
               /\ \A s \in Preview : deployments'[s] = deployments[s]
               /\ \A s \in Live : deployments'[s].replicas \in {1, deployments[s].replicas}
         /\ DOMAIN deployments' = Live' \cup Preview'
<1>1. pc = "deployment" /\ UNCHANGED <<api, copy, services, requests, promotions>>
  BY DEF EnsureLiveDeployment
<1>2. CASE /\ Live = {}
           /\ deployments' = [s \in DOMAIN deployments \cup {copy.selector} |->
                                IF s = copy.selector THEN New("live", 1) ELSE deployments[s]]
           /\ Return(FALSE)
  <2>1. DOMAIN deployments = Preview
    BY <1>2, LivePreview
  <2>2. deployments'[copy.selector].state = "live" /\ DOMAIN deployments' = Preview \cup {copy.selector}
    BY <1>2, <2>1 DEF New
  <2>3. \A s \in Preview \ {copy.selector} : deployments'[s] = deployments[s] /\ deployments[s].state = "preview"
    BY <1>2, <2>1 DEF Preview, Labelled
  <2>4. Live' = {copy.selector}
    BY <2>2, <2>3 DEF Live, Labelled
  <2>5. Preview' = Preview \ {copy.selector}
    BY <2>1, <2>2, <2>3 DEF Preview, Labelled
  <2>6. QED
    BY <1>1, <1>2, <2>2, <2>4, <2>5 DEF Return
<1>3. CASE /\ Cardinality(Live) > 1
           /\ deployments' = [s \in (DOMAIN deployments \ Live) \cup {ToKeep(Live)} |-> deployments[s]]
           /\ Return(TRUE)
  <2>1. ToKeep(Live) \in Live
    BY <1>3, KeptIsLive DEF Live
  <2>2. DOMAIN deployments' = Preview \cup {ToKeep(Live)} /\ \A s \in DOMAIN deployments' : deployments'[s] = deployments[s]
    BY <1>3, LivePreview
  <2>3. Live' = {ToKeep(Live)} /\ Preview' = Preview
    BY <2>1, <2>2 DEF Live, Preview, Labelled
  <2>4. QED
    BY <1>1, <1>3, <2>1, <2>2, <2>3, LivePreview DEF Return
<1>4. CASE /\ Live = {copy.selector}
           /\ deployments' = [deployments EXCEPT ![copy.selector] = Updated(deployments[copy.selector], 1)]
           /\ pc' \in {"idle", "ready"}
  <2>1. copy.selector \in DOMAIN deployments /\ deployments[copy.selector] \in Deployments
    BY <1>4, LivePreview DEF TypeOK
  <2>2. deployments'[copy.selector].state = deployments[copy.selector].state /\ deployments'[copy.selector].replicas = 1
    BY <1>4, <2>1 DEF Updated, Deployments
  <2>3. DOMAIN deployments' = DOMAIN deployments
        /\ \A t \in DOMAIN deployments \ {copy.selector} : deployments'[t] = deployments[t]
    BY <1>4
  <2>4. Live' = Live /\ Preview' = Preview
    BY <2>1, <2>2, <2>3 DEF Live, Preview, Labelled
  <2>5. QED
    BY <1>1, <1>4, <2>2, <2>3, <2>4, LivePreview
<1>5. CASE Cardinality(Live) = 1 /\ deployments' = deployments /\ Return(TRUE)
  <2>1. Live # {} /\ Live' = Live /\ Preview' = Preview
    BY <1>5, LivePreview DEF Live, Preview, Labelled
  <2>2. QED
    BY <1>1, <1>5, <2>1, LivePreview DEF Return
<1>6. QED
  BY <1>2, <1>3, <1>4, <1>5 DEF EnsureLiveDeployment, Return, Proceed, Live

\* The Deployment controller writes only the status.
LEMMA PodsDo ==
  ASSUME TypeOK, NEW s \in DOMAIN deployments, PodsReplaced(s) \/ PodsReady(s) \/ PodsFail(s)
  PROVE  UNCHANGED <<api, copy, services, pc, requests, promotions>> /\ KeepsLabels
<1>1. UNCHANGED <<api, copy, services, pc, requests, promotions>>
  BY DEF PodsReplaced, PodsReady, PodsFail, Event
<1>2. /\ DOMAIN deployments' = DOMAIN deployments
      /\ \A t \in DOMAIN deployments \ {s} : deployments'[t] = deployments[t]
      /\ deployments'[s].state = deployments[s].state /\ deployments'[s].replicas = deployments[s].replicas
  <2>1. deployments[s] \in Deployments
    BY DEF TypeOK
  <2>2. QED
    BY <2>1 DEF PodsReplaced, PodsReady, PodsFail, Deployments
<1>3. Live' = Live /\ Preview' = Preview
  BY <1>2 DEF Live, Preview, Labelled
<1>4. TwoLive' = TwoLive
  BY <1>3 DEF TwoLive
<1>5. QED
  BY <1>1, <1>2, <1>3, <1>4 DEF KeepsLabels

\* A reconcile starts, or waits for the live Services.
LEMMA ReconcileStartDoes ==
  ASSUME TypeOK, ReconcileStart
  PROVE  /\ pc = "idle" /\ UNCHANGED <<api, deployments, services, requests, promotions>> /\ copy' = api
         /\ \/ pc' = "prune" /\ ~api.rollout
            \/ pc' = "initReady" /\ api.rollout /\ ShouldDelegate(api)
            \/ pc' = "liveReady" /\ api.rollout /\ ~ShouldDelegate(api)
BY DEF ReconcileStart

\* Waiting for the live Services changes nothing but where the reconcile is.
LEMMA WaitForLiveServicesDoes ==
  ASSUME TypeOK, WaitForLiveServices
  PROVE  /\ pc = "liveServices" /\ UNCHANGED <<api, copy, deployments, services, requests, promotions>>
         /\ \/ /\ pc' = "label"
               /\ services["live"].admin = copy.preview /\ services["live"].ingress = copy.preview
            \/ /\ pc' = "initReady"
               /\ ~(services["live"].admin = copy.preview /\ services["live"].ingress = copy.preview)
<1>1. services["live"] = [admin |-> copy.preview, ingress |-> copy.preview]
        <=> services["live"].admin = copy.preview /\ services["live"].ingress = copy.preview
  BY DEF TypeOK
<1>2. QED
  BY <1>1 DEF WaitForLiveServices, Proceed

\* The user edits what the reconcilers do not write.
LEMMA UserDoes ==
  ASSUME TypeOK, EditSpec \/ RemoveRollout \/ RequestPromotion
  PROVE  /\ UNCHANGED <<copy, deployments, services, pc, promotions>>
         /\ KeepsSelectors /\ KeepsReady /\ KeepsReason
         /\ api.generation <= api'.generation
         /\ \/ api'.promote = api.promote /\ requests' = requests
            \/ api'.promote = TRUE /\ requests' = requests + 1
         /\ api'.rollout \in {FALSE, api.rollout}
<1>1. api \in DataPlanes /\ api.generation \in Nat /\ api.rollout \in BOOLEAN
  BY DataPlaneFields DEF TypeOK
<1>2. CASE EditSpec
  BY <1>1, <1>2 DEF EditSpec, Event, KeepsSelectors, KeepsReady, KeepsReason, DataPlanes
<1>3. CASE RemoveRollout
  BY <1>1, <1>3 DEF RemoveRollout, Event, KeepsSelectors, KeepsReady, KeepsReason, DataPlanes
<1>4. CASE RequestPromotion
  BY <1>1, <1>4 DEF RequestPromotion, Event, KeepsSelectors, KeepsReady, KeepsReason, DataPlanes
<1>5. QED
  BY <1>2, <1>3, <1>4

-----------------------------------------------------------------------------
(* The invariant of a rollout.                                             *)

\* The calls of a blue/green reconcile in their order, and those of the others.
Staging  == {"initRolloutSelector", "rolledOut", "previewServices"}
Deciding == {"previewDeployment", "promotion", "override", "liveServices", "label"}
Closing  == {"clearSelector", "promotionDone", "resetPromote", "reduce"}
RolloutSteps == {"liveReady"} \cup Staging \cup Deciding \cup Closing
PruneSteps == {"prune", "pruneStatus"}
LiveSteps == {"initReady", "services", "deployment", "ready"}

\* A rollout is configured, or a reconcile that found one goes on.  It does not
\* come back once it was removed.
InRollout == api.rollout \/ pc \in RolloutSteps

\* The live selector is the preview's: the promotion is not finished.
Overridden == api.selector = api.preview /\ api.preview # 0
Promoting == Overridden \/ TwoLive

\* The copy has what the reconcilers wrote; of the rest it may be behind.
CopyFollows ==
  /\ api.readyGeneration <= api.generation /\ api.reasonGeneration <= api.generation
  /\ pc # "idle" =>
       /\ copy.selector = api.selector /\ copy.preview = api.preview
       /\ copy.ready = api.ready /\ copy.readyGeneration = api.readyGeneration
       /\ copy.reason = api.reason /\ copy.reasonGeneration = api.reasonGeneration
       /\ copy.generation <= api.generation
       /\ copy.readyGeneration <= copy.generation /\ copy.reasonGeneration <= copy.generation
       /\ copy.promote => api.promote

\* There is one preview Deployment, and it has the selector of the rollout.  That
\* is not the live one's, unless a promotion was interrupted after the label.
Named ==
  /\ 0 \notin DOMAIN deployments
  /\ \A s, t \in Preview : s = t
  /\ InRollout => /\ \A s \in Preview : s = api.preview
                  /\ api.preview \in Live => TwoLive
  /\ pc \in Closing => Preview = {}

\* Where the reconcile is.
Positions ==
  /\ pc \in {"idle"} \cup RolloutSteps \cup PruneSteps \cup LiveSteps
  /\ pc \in PruneSteps => ~api.rollout
  /\ pc \in RolloutSteps => api.readyGeneration # 0
  /\ pc \in Staging \cup Deciding => ~TwoLive
  /\ pc \in (Staging \cup Deciding \cup {"clearSelector"}) \ {"initRolloutSelector"} => api.preview # 0
  /\ pc \in Closing => TwoLive
  /\ pc \in Closing \ {"clearSelector"} => api.preview = 0
  /\ pc \in LiveSteps \ {"initReady"} => api.selector # 0
  /\ pc \in {"liveServices", "label", "clearSelector"} => api.selector = api.preview

\* A preview is promoted when its generation is not live yet and, but for
\* AutomaticPromotion, the annotation is there.
Decided ==
  /\ pc \in {"previewServices", "previewDeployment", "promotion"} =>
       api.readyGeneration <= api.reasonGeneration
  /\ pc = "promotion" => \A s \in Preview : deployments[s].replicas = PreviewReplicas
  /\ pc \in {"override", "liveServices", "label"} =>
       api.readyGeneration < api.reasonGeneration /\ api.reason # "PromotionDone"
  /\ pc \in {"override", "liveServices", "label", "clearSelector", "promotionDone", "resetPromote"} =>
       Automatic \/ copy.promote

\* Without a live Deployment a rollout gets as far as its first Service, once.
LiveFirst ==
  /\ pc \in Deciding \cup Closing => Live # {}
  /\ Overridden => Live # {}
  /\ api.readyGeneration = 0 => services["preview"].admin = 0
  /\ Live = {} =>
       /\ Preview = {} /\ services["preview"].ingress = 0
       /\ services["preview"].admin # 0 => api.ready = "WaitingToBecomeReady"
       /\ pc \in Staging => services["preview"].admin = 0 /\ api.ready = "WaitingToBecomeReady"

\* While a promotion is not finished the Ready condition is behind, so that the
\* DataPlane reconciler gets no further than the Services.
Held ==
  InRollout =>
    /\ Promoting => 0 < api.readyGeneration /\ api.readyGeneration < api.generation
    /\ Overridden => api.reason # "PromotionDone"
    /\ pc \in {"deployment", "ready"} => ~Promoting
    /\ pc \in {"initReady", "services"} =>
         \/ ~Promoting
         \/ api.selector # 0 /\ ~(services["live"].admin = api.selector /\ services["live"].ingress = api.selector)

RolloutInv == CopyFollows /\ Named /\ Positions /\ Decided /\ LiveFirst /\ Held

\* It reports on the live Deployment and keeps the generation.
LEMMA EnsureLiveReadyStatusKeeps ==
  ASSUME TypeOK, RolloutInv, EnsureLiveReadyStatus
  PROVE  RolloutInv'
<1>1. CopyFollows /\ Named /\ Positions /\ Decided /\ LiveFirst /\ Held
  BY DEF RolloutInv
<1>2. KeepsLabels
  BY EnsureLiveReadyStatusDoes, SameLabels
<1>3. api \in DataPlanes /\ copy \in DataPlanes
  BY DEF TypeOK
<1>4. CopyFollows'
  BY <1>1, <1>3, EnsureLiveReadyStatusDoes, DataPlaneFields
     DEF KeepsUser, KeepsReason, CopyFollows, ReportEnds, Reports
<1>5. Named'
  BY <1>1, <1>2, EnsureLiveReadyStatusDoes
     DEF KeepsSelectors, KeepsLabels, Named, InRollout, Positions, Closing, PruneSteps,
     LiveSteps, ReportEnds, Reports
<1>6. Positions'
  BY <1>1, <1>2, EnsureLiveReadyStatusDoes
     DEF KeepsLabels, Positions, Staging, Deciding, Closing, RolloutSteps, PruneSteps,
     LiveSteps, CopyFollows, Reports
<1>7. Decided'
  BY EnsureLiveReadyStatusDoes DEF Decided
<1>8. LiveFirst'
  BY <1>1, <1>2, EnsureLiveReadyStatusDoes
     DEF KeepsSelectors, KeepsLabels, LiveFirst, Overridden, Staging, Deciding, Closing,
     CopyFollows, ReportEnds, Reports
<1>9. Held'
  BY <1>1, <1>2, EnsureLiveReadyStatusDoes
     DEF KeepsUser, KeepsSelectors, KeepsReason, KeepsLabels, Held, InRollout, Promoting,
     Overridden, Positions, PruneSteps, LiveSteps, CopyFollows, ReportEnds, Reports
<1>10. QED
  BY <1>4, <1>5, <1>6, <1>7, <1>8, <1>9 DEF RolloutInv

\* The DataPlane reconciler reports; no promotion is under way.
LEMMA EnsureReadyStatusKeeps ==
  ASSUME TypeOK, RolloutInv, EnsureReadyStatus
  PROVE  RolloutInv'
<1>1. CopyFollows /\ Named /\ Positions /\ Decided /\ LiveFirst /\ Held
  BY DEF RolloutInv
<1>2. KeepsLabels
  BY EnsureReadyStatusDoes, SameLabels
<1>3. api \in DataPlanes /\ copy \in DataPlanes
  BY DEF TypeOK
<1>4. CopyFollows'
  BY <1>1, EnsureReadyStatusDoes DEF KeepsUser, KeepsReason, CopyFollows, ReportEnds, Reports
<1>5. Named'
  BY <1>1, <1>2, EnsureReadyStatusDoes
     DEF KeepsUser, KeepsSelectors, KeepsLabels, Named, InRollout, Staging, Deciding, Closing,
     RolloutSteps, ReportEnds, Reports
<1>6. Positions'
  BY EnsureReadyStatusDoes
     DEF Positions, Staging, Deciding, Closing, RolloutSteps, PruneSteps, LiveSteps
<1>7. Decided'
  BY EnsureReadyStatusDoes DEF Decided
<1>8. LiveFirst'
  BY <1>1, <1>2, <1>3, EnsureReadyStatusDoes, DataPlaneFields
     DEF KeepsSelectors, KeepsLabels, LiveFirst, Overridden, Staging, Deciding, Closing,
     ReportEnds, Reports
<1>9. Held'
  BY <1>1, <1>2, EnsureReadyStatusDoes
     DEF KeepsUser, KeepsSelectors, KeepsLabels, Held, InRollout, Promoting, Overridden,
     Staging, Deciding, Closing, RolloutSteps, ReportEnds, Reports
<1>10. QED
  BY <1>4, <1>5, <1>6, <1>7, <1>8, <1>9 DEF RolloutInv

\* The report after a promotion, or the start of a rollout.
LEMMA EnsureRolloutStartedKeeps ==
  ASSUME TypeOK, RolloutInv, EnsureRolloutStarted
  PROVE  RolloutInv'
<1>1. CopyFollows /\ Named /\ Positions /\ Decided /\ LiveFirst /\ Held
  BY DEF RolloutInv
<1>2. KeepsLabels
  BY EnsureRolloutStartedDoes, SameLabels
<1>3. api \in DataPlanes /\ copy \in DataPlanes
  BY DEF TypeOK
<1>4. CopyFollows'
  BY <1>1, <1>3, EnsureRolloutStartedDoes, DataPlaneFields
     DEF KeepsUser, KeepsReady, KeepsReason, CopyFollows, ReportEnds, Reports
<1>5. Named'
  BY <1>1, <1>2, EnsureRolloutStartedDoes
     DEF KeepsSelectors, KeepsLabels, Named, InRollout, Positions, Closing, PruneSteps,
     LiveSteps, ReportEnds, Reports
<1>6. Positions'
  BY <1>1, <1>2, <1>3, EnsureRolloutStartedDoes, DataPlaneFields
     DEF KeepsSelectors, KeepsReady, KeepsLabels, Positions, Staging, Closing, RolloutSteps,
     PruneSteps, LiveSteps, ReportEnds, Reports
<1>7. Decided'
  BY <1>1, EnsureRolloutStartedDoes DEF KeepsReady, KeepsReason, Decided, CopyFollows, Reports
<1>8. LiveFirst'
  BY <1>1, <1>2, <1>3, EnsureRolloutStartedDoes, DataPlaneFields
     DEF KeepsSelectors, KeepsReady, KeepsLabels, LiveFirst, Overridden, Positions, Deciding,
     Closing, RolloutSteps, PruneSteps, LiveSteps, ReportEnds, Reports
<1>9. Held'
  BY <1>1, <1>2, EnsureRolloutStartedDoes
     DEF KeepsUser, KeepsSelectors, KeepsReady, KeepsLabels, Held, InRollout, Promoting,
     Overridden, Positions, PruneSteps, LiveSteps, CopyFollows, ReportEnds, Reports
<1>10. QED
  BY <1>4, <1>5, <1>6, <1>7, <1>8, <1>9 DEF RolloutInv

\* The status of a rollout that was removed.
LEMMA PruneRolloutStatusKeeps ==
  ASSUME TypeOK, RolloutInv, PruneRolloutStatus
  PROVE  RolloutInv'
<1>1. CopyFollows /\ Named /\ Positions /\ Decided /\ LiveFirst /\ Held
  BY DEF RolloutInv
<1>2. KeepsLabels
  BY PruneRolloutStatusDoes, SameLabels
<1>3. api \in DataPlanes /\ copy \in DataPlanes
  BY DEF TypeOK
<1>4. CopyFollows'
  BY <1>1, <1>3, PruneRolloutStatusDoes, DataPlaneFields DEF KeepsUser, KeepsReady, CopyFollows
<1>5. Named'
  BY <1>1, <1>2, PruneRolloutStatusDoes
     DEF KeepsUser, KeepsLabels, Named, InRollout, Positions, Staging, Deciding, Closing,
     RolloutSteps, LiveSteps
<1>6. Positions'
  BY PruneRolloutStatusDoes
     DEF Positions, Staging, Deciding, Closing, RolloutSteps, PruneSteps, LiveSteps
<1>7. Decided'
  BY PruneRolloutStatusDoes DEF Decided
<1>8. LiveFirst'
  BY <1>1, <1>2, PruneRolloutStatusDoes
     DEF KeepsReady, KeepsLabels, LiveFirst, Overridden, Staging, Deciding, Closing
<1>9. Held'
  BY <1>1, PruneRolloutStatusDoes
     DEF KeepsUser, Held, InRollout, Positions, Staging, Deciding, Closing, RolloutSteps,
     LiveSteps
<1>10. QED
  BY <1>4, <1>5, <1>6, <1>7, <1>8, <1>9 DEF RolloutInv

\* The selector of the rollout.
LEMMA InitSelectorInRolloutStatusKeeps ==
  ASSUME TypeOK, RolloutInv, InitSelectorInRolloutStatus
  PROVE  RolloutInv'
<1>1. CopyFollows /\ Named /\ Positions /\ Decided /\ LiveFirst /\ Held
  BY DEF RolloutInv
<1>2. KeepsLabels
  BY InitSelectorInRolloutStatusDoes, SameLabels
<1>3. api \in DataPlanes /\ copy \in DataPlanes
  BY DEF TypeOK
<1>4. CopyFollows'
  BY <1>1, <1>3, InitSelectorInRolloutStatusDoes, DataPlaneFields
     DEF KeepsUser, KeepsReady, KeepsReason, CopyFollows
<1>5. Named'
  BY <1>1, <1>2, InitSelectorInRolloutStatusDoes, FreshIsNewer, LivePreview
     DEF KeepsLabels, Named, InRollout, Positions, Closing, PruneSteps, LiveSteps, CopyFollows
<1>6. Positions'
  BY <1>1, <1>2, InitSelectorInRolloutStatusDoes, FreshIsNewer
     DEF KeepsReady, KeepsLabels, Positions, Staging, Closing, RolloutSteps, PruneSteps,
     LiveSteps, CopyFollows
<1>7. Decided'
  BY InitSelectorInRolloutStatusDoes DEF Decided
<1>8. LiveFirst'
  BY <1>1, <1>2, InitSelectorInRolloutStatusDoes, FreshIsNewer
     DEF KeepsReady, KeepsLabels, LiveFirst, Overridden, Positions, Deciding, Closing,
     RolloutSteps, PruneSteps, LiveSteps
<1>9. Held'
  BY <1>1, <1>2, InitSelectorInRolloutStatusDoes, FreshIsNewer
     DEF KeepsLabels, Held, InRollout, Promoting, Overridden, Positions, Closing, RolloutSteps,
     PruneSteps, LiveSteps
<1>10. QED
  BY <1>4, <1>5, <1>6, <1>7, <1>8, <1>9 DEF RolloutInv

\* The decision to promote.
LEMMA DecidePromotionKeeps ==
  ASSUME TypeOK, RolloutInv, DecidePromotion
  PROVE  RolloutInv'
<1>1. CopyFollows /\ Named /\ Positions /\ Decided /\ LiveFirst /\ Held
  BY DEF RolloutInv
<1>2. KeepsLabels
  BY DecidePromotionDoes, SameLabels
<1>3. api \in DataPlanes /\ copy \in DataPlanes
  BY DEF TypeOK
<1>4. CopyFollows'
  BY <1>1, <1>3, DecidePromotionDoes, DataPlaneFields DEF KeepsUser, KeepsReady, CopyFollows
<1>5. Named'
  BY <1>1, <1>2, DecidePromotionDoes
     DEF KeepsSelectors, KeepsLabels, Named, InRollout, Positions, Closing, PruneSteps,
     LiveSteps
<1>6. Positions'
  BY <1>1, <1>2, DecidePromotionDoes
     DEF KeepsSelectors, KeepsReady, KeepsLabels, Positions, Deciding, Closing, RolloutSteps,
     PruneSteps, LiveSteps
<1>7. Decided'
  BY <1>1, <1>3, DecidePromotionDoes, DataPlaneFields
     DEF KeepsUser, KeepsReady, Decided, PreviewReplicas, CopyFollows, CanProceedWithPromotion,
     Positions, PruneSteps, LiveSteps
<1>8. LiveFirst'
  BY <1>1, <1>2, DecidePromotionDoes DEF KeepsReady, KeepsLabels, LiveFirst, Deciding
<1>9. Held'
  BY <1>1, <1>2, DecidePromotionDoes
     DEF KeepsUser, KeepsSelectors, KeepsReady, KeepsLabels, Held, InRollout, Promoting,
     Overridden, Positions, PruneSteps, LiveSteps
<1>10. QED
  BY <1>4, <1>5, <1>6, <1>7, <1>8, <1>9 DEF RolloutInv

\* The promotion.
LEMMA PreviewSelectorOverridesLiveKeeps ==
  ASSUME TypeOK, RolloutInv, PreviewSelectorOverridesLive
  PROVE  RolloutInv'
<1>1. CopyFollows /\ Named /\ Positions /\ Decided /\ LiveFirst /\ Held
  BY DEF RolloutInv
<1>2. KeepsLabels
  BY PreviewSelectorOverridesLiveDoes, SameLabels
<1>3. api \in DataPlanes /\ copy \in DataPlanes
  BY DEF TypeOK
<1>4. CopyFollows'
  BY <1>1, PreviewSelectorOverridesLiveDoes DEF KeepsUser, KeepsReady, KeepsReason, CopyFollows
<1>5. Named'
  BY <1>1, <1>2, PreviewSelectorOverridesLiveDoes
     DEF KeepsLabels, Named, InRollout, Positions, Closing, PruneSteps, LiveSteps
<1>6. Positions'
  BY <1>1, <1>2, PreviewSelectorOverridesLiveDoes
     DEF KeepsLabels, Positions, Staging, Deciding, Closing, RolloutSteps, PruneSteps,
     CopyFollows
<1>7. Decided'
  BY <1>1, PreviewSelectorOverridesLiveDoes DEF Decided
<1>8. LiveFirst'
  BY <1>1, <1>2, PreviewSelectorOverridesLiveDoes
     DEF KeepsReady, KeepsLabels, LiveFirst, Deciding
<1>9. Held'
  BY <1>1, <1>3, PreviewSelectorOverridesLiveDoes, DataPlaneFields
     DEF KeepsUser, KeepsReady, KeepsReason, Held, Positions, PruneSteps, LiveSteps,
     CopyFollows, Decided
<1>10. QED
  BY <1>4, <1>5, <1>6, <1>7, <1>8, <1>9 DEF RolloutInv

\* Two Deployments are live when the selector is cleared.
LEMMA ClearRolloutSelectorKeeps ==
  ASSUME TypeOK, RolloutInv, ClearRolloutSelector
  PROVE  RolloutInv'
<1>1. CopyFollows /\ Named /\ Positions /\ Decided /\ LiveFirst /\ Held
  BY DEF RolloutInv
<1>2. KeepsLabels
  BY ClearRolloutSelectorDoes, SameLabels
<1>3. api \in DataPlanes /\ copy \in DataPlanes
  BY DEF TypeOK
<1>4. CopyFollows'
  BY <1>1, <1>3, ClearRolloutSelectorDoes, DataPlaneFields
     DEF KeepsUser, KeepsReady, KeepsReason, CopyFollows
<1>5. Named'
  BY <1>1, <1>2, ClearRolloutSelectorDoes DEF KeepsLabels, Named, Positions, Closing
<1>6. Positions'
  BY <1>1, <1>2, ClearRolloutSelectorDoes
     DEF KeepsReady, KeepsLabels, Positions, Staging, Deciding, Closing, RolloutSteps,
     PruneSteps
<1>7. Decided'
  BY <1>1, ClearRolloutSelectorDoes DEF KeepsUser, Decided, CopyFollows
<1>8. LiveFirst'
  BY <1>1, <1>2, ClearRolloutSelectorDoes
     DEF KeepsReady, KeepsLabels, LiveFirst, Overridden, Positions
<1>9. Held'
  BY <1>1, ClearRolloutSelectorDoes
     DEF KeepsUser, KeepsReady, Held, InRollout, Promoting, Overridden, Positions, PruneSteps,
     LiveSteps
<1>10. QED
  BY <1>4, <1>5, <1>6, <1>7, <1>8, <1>9 DEF RolloutInv

\* SetPromotionDone keeps the invariant.
LEMMA SetPromotionDoneKeeps ==
  ASSUME TypeOK, RolloutInv, SetPromotionDone
  PROVE  RolloutInv'
<1>1. CopyFollows /\ Named /\ Positions /\ Decided /\ LiveFirst /\ Held
  BY DEF RolloutInv
<1>2. KeepsLabels
  BY SetPromotionDoneDoes, SameLabels
<1>3. api \in DataPlanes /\ copy \in DataPlanes
  BY DEF TypeOK
<1>4. CopyFollows'
  BY <1>1, <1>3, SetPromotionDoneDoes, DataPlaneFields DEF KeepsUser, KeepsReady, CopyFollows
<1>5. Named'
  BY <1>1, <1>2, SetPromotionDoneDoes DEF KeepsLabels, Named, Positions, Closing
<1>6. Positions'
  BY <1>1, <1>2, SetPromotionDoneDoes
     DEF KeepsSelectors, KeepsReady, KeepsLabels, Positions, Staging, Deciding, Closing,
     RolloutSteps, PruneSteps, LiveSteps
<1>7. Decided'
  BY <1>1, SetPromotionDoneDoes DEF KeepsUser, Decided, CopyFollows
<1>8. LiveFirst'
  BY <1>1, <1>2, SetPromotionDoneDoes DEF KeepsReady, KeepsLabels, LiveFirst, Closing
<1>9. Held'
  BY <1>1, SetPromotionDoneDoes
     DEF KeepsUser, KeepsSelectors, KeepsReady, Held, InRollout, Promoting, Overridden,
     Positions, Closing, PruneSteps, LiveSteps
<1>10. QED
  BY <1>4, <1>5, <1>6, <1>7, <1>8, <1>9 DEF RolloutInv

\* ResetPromoteWhenReady keeps the invariant.
LEMMA ResetPromoteWhenReadyKeeps ==
  ASSUME TypeOK, RolloutInv, ResetPromoteWhenReady
  PROVE  RolloutInv'
<1>1. CopyFollows /\ Named /\ Positions /\ Decided /\ LiveFirst /\ Held
  BY DEF RolloutInv
<1>2. KeepsLabels
  BY ResetPromoteWhenReadyDoes, SameLabels
<1>3. api \in DataPlanes /\ copy \in DataPlanes
  BY DEF TypeOK
<1>4. CopyFollows'
  <2>1. CASE copy' = api' /\ api'.promote = FALSE
    BY <1>1, <1>3, <2>1, ResetPromoteWhenReadyDoes, DataPlaneFields
       DEF KeepsReady, KeepsReason, CopyFollows
  <2>2. CASE UNCHANGED <<api, copy>>
    BY <1>1, <2>2, ResetPromoteWhenReadyDoes DEF CopyFollows
  <2>3. QED
    BY <2>1, <2>2, ResetPromoteWhenReadyDoes
<1>5. Named'
  BY <1>1, <1>2, ResetPromoteWhenReadyDoes DEF KeepsLabels, Named, Positions, Closing
<1>6. Positions'
  BY <1>1, <1>2, ResetPromoteWhenReadyDoes
     DEF KeepsSelectors, KeepsReady, KeepsLabels, Positions, Staging, Deciding, Closing,
     RolloutSteps, PruneSteps, LiveSteps
<1>7. Decided'
  BY ResetPromoteWhenReadyDoes DEF Decided
<1>8. LiveFirst'
  BY <1>1, <1>2, ResetPromoteWhenReadyDoes DEF KeepsReady, KeepsLabels, LiveFirst, Closing
<1>9. Held'
  BY <1>1, ResetPromoteWhenReadyDoes
     DEF KeepsSelectors, KeepsReady, Held, InRollout, Promoting, Overridden, Positions, Closing,
     PruneSteps, LiveSteps
<1>10. QED
  BY <1>4, <1>5, <1>6, <1>7, <1>8, <1>9 DEF RolloutInv

\* InitStatus keeps the invariant.
LEMMA InitStatusKeeps ==
  ASSUME TypeOK, RolloutInv, InitStatus
  PROVE  RolloutInv'
<1>1. CopyFollows /\ Named /\ Positions /\ Decided /\ LiveFirst /\ Held
  BY DEF RolloutInv
<1>2. KeepsLabels
  BY InitStatusDoes, SameLabels
<1>3. api \in DataPlanes /\ copy \in DataPlanes
  BY DEF TypeOK
<1>4. CopyFollows'
  BY <1>1, <1>3, InitStatusDoes, DataPlaneFields
     DEF KeepsUser, KeepsReady, KeepsReason, CopyFollows
<1>5. Named'
  BY <1>1, <1>2, InitStatusDoes
     DEF KeepsUser, KeepsLabels, Named, InRollout, Staging, Deciding, Closing, RolloutSteps
<1>6. Positions'
  BY <1>1, InitStatusDoes, FreshIsNewer
     DEF Positions, Staging, Deciding, Closing, RolloutSteps, PruneSteps, LiveSteps, CopyFollows
<1>7. Decided'
  BY InitStatusDoes DEF Decided
<1>8. LiveFirst'
  BY <1>1, <1>2, InitStatusDoes, FreshIsNewer
     DEF KeepsReady, KeepsLabels, LiveFirst, Overridden, Staging, Deciding, Closing, CopyFollows
<1>9. Held'
  BY <1>1, <1>2, InitStatusDoes, FreshIsNewer
     DEF KeepsUser, KeepsLabels, Held, InRollout, Promoting, Overridden, Staging, Deciding,
     Closing, RolloutSteps, CopyFollows
<1>10. QED
  BY <1>4, <1>5, <1>6, <1>7, <1>8, <1>9 DEF RolloutInv

\* A failed reconcile keeps the invariant.
LEMMA ReconcileFailsKeeps ==
  ASSUME TypeOK, RolloutInv, ReconcileFails
  PROVE  RolloutInv'
<1>1. CopyFollows /\ Named /\ Positions /\ Decided /\ LiveFirst /\ Held
  BY DEF RolloutInv
<1>2. KeepsLabels
  BY ReconcileFailsDoes, SameLabels
<1>3. api \in DataPlanes /\ copy \in DataPlanes
  BY DEF TypeOK
<1>4. CopyFollows'
  BY <1>1, ReconcileFailsDoes DEF KeepsUser, KeepsReady, CopyFollows
<1>5. Named'
  BY <1>1, <1>2, ReconcileFailsDoes
     DEF KeepsUser, KeepsSelectors, KeepsLabels, Named, InRollout, Staging, Deciding, Closing,
     RolloutSteps
<1>6. Positions'
  BY ReconcileFailsDoes
     DEF Positions, Staging, Deciding, Closing, RolloutSteps, PruneSteps, LiveSteps
<1>7. Decided'
  BY ReconcileFailsDoes DEF Decided
<1>8. LiveFirst'
  BY <1>1, <1>2, ReconcileFailsDoes
     DEF KeepsSelectors, KeepsReady, KeepsLabels, LiveFirst, Overridden, Staging, Deciding,
     Closing
<1>9. Held'
  BY <1>1, <1>2, ReconcileFailsDoes
     DEF KeepsUser, KeepsSelectors, KeepsReady, KeepsLabels, Held, InRollout, Promoting,
     Overridden, Staging, Deciding, Closing, RolloutSteps
<1>10. QED
  BY <1>4, <1>5, <1>6, <1>7, <1>8, <1>9 DEF RolloutInv

\* A new reconcile: nothing is delegated while a promotion is not finished.
LEMMA ReconcileStartKeeps ==
  ASSUME TypeOK, RolloutInv, ReconcileStart
  PROVE  RolloutInv'
<1>1. CopyFollows /\ Named /\ Positions /\ Decided /\ LiveFirst /\ Held
  BY DEF RolloutInv
<1>2. KeepsLabels
  BY ReconcileStartDoes, SameLabels
<1>3. api \in DataPlanes
  BY DEF TypeOK
<1>4. CopyFollows'
  BY <1>1, <1>3, ReconcileStartDoes, DataPlaneFields DEF CopyFollows
<1>5. Named'
  BY <1>1, <1>2, ReconcileStartDoes
     DEF Named, InRollout, Staging, Deciding, Closing, RolloutSteps, KeepsLabels
<1>6. Positions'
  BY ReconcileStartDoes
     DEF Positions, Staging, Deciding, Closing, RolloutSteps, PruneSteps, LiveSteps,
     ShouldDelegate
<1>7. Decided'
  BY ReconcileStartDoes DEF Decided
<1>8. LiveFirst'
  BY <1>1, <1>2, ReconcileStartDoes
     DEF LiveFirst, Overridden, Staging, Deciding, Closing, KeepsLabels
<1>9. Held'
  BY <1>1, <1>2, <1>3, ReconcileStartDoes, DataPlaneFields
     DEF Held, InRollout, Promoting, Overridden, Staging, Deciding, Closing, RolloutSteps,
     ShouldDelegate, KeepsLabels
<1>10. QED
  BY <1>4, <1>5, <1>6, <1>7, <1>8, <1>9 DEF RolloutInv

\* Either the Services have moved, or the DataPlane reconciler is to move them.
LEMMA WaitForLiveServicesKeeps ==
  ASSUME TypeOK, RolloutInv, WaitForLiveServices
  PROVE  RolloutInv'
<1>1. CopyFollows /\ Named /\ Positions /\ Decided /\ LiveFirst /\ Held
  BY DEF RolloutInv
<1>2. KeepsLabels
  BY WaitForLiveServicesDoes, SameLabels
<1>3. api \in DataPlanes /\ copy \in DataPlanes
  BY DEF TypeOK
<1>4. CopyFollows'
  BY <1>1, WaitForLiveServicesDoes DEF CopyFollows
<1>5. Named'
  BY <1>1, <1>2, WaitForLiveServicesDoes
     DEF Named, InRollout, Positions, Closing, PruneSteps, LiveSteps, KeepsLabels
<1>6. Positions'
  BY <1>1, <1>2, WaitForLiveServicesDoes
     DEF Positions, Deciding, Closing, RolloutSteps, PruneSteps, LiveSteps, KeepsLabels
<1>7. Decided'
  BY <1>1, WaitForLiveServicesDoes DEF Decided
<1>8. LiveFirst'
  BY <1>1, <1>2, WaitForLiveServicesDoes
     DEF LiveFirst, Overridden, Positions, RolloutSteps, PruneSteps, KeepsLabels
<1>9. Held'
  BY <1>1, WaitForLiveServicesDoes
     DEF Held, InRollout, Promoting, Overridden, Positions, Closing, RolloutSteps, PruneSteps,
     LiveSteps, CopyFollows
<1>10. QED
  BY <1>4, <1>5, <1>6, <1>7, <1>8, <1>9 DEF RolloutInv

\* Edits only raise the generation, set the annotation and remove the rollout.
LEMMA UserKeeps ==
  ASSUME TypeOK, RolloutInv, EditSpec \/ RemoveRollout \/ RequestPromotion
  PROVE  RolloutInv'
<1>1. CopyFollows /\ Named /\ Positions /\ Decided /\ LiveFirst /\ Held
  BY DEF RolloutInv
<1>2. KeepsLabels
  BY UserDoes, SameLabels
<1>3. /\ api \in DataPlanes /\ copy \in DataPlanes
      /\ api' \in DataPlanes
  BY EnvironmentType DEF TypeOK
<1>4. /\ {api.generation, api'.generation, copy.generation} \subseteq Nat
      /\ {api.readyGeneration, api.reasonGeneration, copy.readyGeneration, copy.reasonGeneration} \subseteq Nat
  BY <1>3, DataPlaneFields
<1>5. api'.generation >= api.generation /\ (api.promote => api'.promote) /\ (api'.rollout => api.rollout)
  BY UserDoes
<1>6. UNCHANGED <<copy, services, pc>> /\ KeepsSelectors /\ KeepsReady /\ KeepsReason
  BY UserDoes
<1>7. CopyFollows'
  BY <1>1, <1>4, <1>5, <1>6 DEF CopyFollows, KeepsSelectors, KeepsReady, KeepsReason
<1>8. Named'
  BY <1>1, <1>2, <1>4, <1>5, <1>6 DEF Named, InRollout, KeepsLabels, KeepsSelectors
<1>9. Positions'
  BY <1>1, <1>2, <1>4, <1>5, <1>6 DEF Positions, KeepsLabels, KeepsSelectors, KeepsReady
<1>10. Decided'
  BY <1>1, <1>2, <1>4, <1>5, <1>6, LivePreview
     DEF Decided, PreviewReplicas, KeepsLabels, KeepsReady, KeepsReason
<1>11. LiveFirst'
  BY <1>1, <1>2, <1>4, <1>5, <1>6
     DEF LiveFirst, Overridden, KeepsLabels, KeepsSelectors, KeepsReady
<1>12. Held'
  BY <1>1, <1>2, <1>4, <1>5, <1>6
     DEF Held, InRollout, Promoting, Overridden, KeepsLabels, KeepsSelectors, KeepsReady,
     KeepsReason
<1>13. QED
  BY <1>7, <1>8, <1>9, <1>10, <1>11, <1>12 DEF RolloutInv

\* The status of a Deployment does not matter.
LEMMA PodsKeeps ==
  ASSUME TypeOK, RolloutInv, NEW s0 \in DOMAIN deployments, PodsReplaced(s0) \/ PodsReady(s0) \/ PodsFail(s0)
  PROVE  RolloutInv'
<1>1. CopyFollows /\ Named /\ Positions /\ Decided /\ LiveFirst /\ Held
  BY DEF RolloutInv
<1>2. UNCHANGED <<api, copy, services, pc>> /\ KeepsLabels
  BY PodsDo
<1>3. Preview \subseteq DOMAIN deployments
  BY LivePreview
<1>4. CopyFollows'
  BY <1>1, <1>2 DEF CopyFollows
<1>5. Named'
  BY <1>1, <1>2 DEF Named, InRollout, KeepsLabels
<1>6. Positions'
  BY <1>1, <1>2 DEF Positions, KeepsLabels
<1>7. Decided'
  BY <1>1, <1>2, <1>3 DEF Decided, PreviewReplicas, KeepsLabels
<1>8. LiveFirst'
  BY <1>1, <1>2 DEF LiveFirst, Overridden, KeepsLabels
<1>9. Held'
  BY <1>1, <1>2 DEF Held, InRollout, Promoting, Overridden, KeepsLabels
<1>10. QED
  BY <1>4, <1>5, <1>6, <1>7, <1>8, <1>9 DEF RolloutInv

\* So does a step that changes nothing.
LEMMA StutterKeeps ==
  ASSUME TypeOK, RolloutInv, UNCHANGED vars
  PROVE  RolloutInv'
<1>1. CopyFollows /\ Named /\ Positions /\ Decided /\ LiveFirst /\ Held
  BY DEF RolloutInv
<1>2. UNCHANGED <<api, copy, services, pc, deployments>> /\ KeepsLabels
  BY SameLabels DEF vars
<1>3. CopyFollows'
  BY <1>1, <1>2 DEF CopyFollows
<1>4. Named'
  BY <1>1, <1>2 DEF Named, InRollout, KeepsLabels
<1>5. Positions'
  BY <1>1, <1>2 DEF Positions, KeepsLabels
<1>6. Decided'
  BY <1>1, <1>2 DEF Decided, PreviewReplicas, KeepsLabels
<1>7. LiveFirst'
  BY <1>1, <1>2 DEF LiveFirst, Overridden, KeepsLabels
<1>8. Held'
  BY <1>1, <1>2 DEF Held, InRollout, Promoting, Overridden, KeepsLabels
<1>9. QED
  BY <1>3, <1>4, <1>5, <1>6, <1>7, <1>8 DEF RolloutInv

\* Without a live Deployment the first Service ends the rollout for good.
LEMMA EnsurePreviewServicesKeeps ==
  ASSUME TypeOK, RolloutInv, EnsurePreviewServices
  PROVE  RolloutInv'
<1>1. CopyFollows /\ Named /\ Positions /\ Decided /\ LiveFirst /\ Held
  BY DEF RolloutInv
<1>2. KeepsLabels
  BY EnsureServicesDoes, SameLabels DEF EnsurePreviewServices
<1>3. api \in DataPlanes /\ copy \in DataPlanes
  BY DEF TypeOK
<1>4. CopyFollows'
  BY <1>1, EnsureServicesDoes DEF CopyFollows, EnsurePreviewServices
<1>5. Named'
  BY <1>1, <1>2, EnsureServicesDoes
     DEF Named, InRollout, Positions, Closing, PruneSteps, LiveSteps, KeepsLabels,
     EnsurePreviewServices
<1>6. Positions'
  BY <1>1, <1>2, EnsureServicesDoes
     DEF Positions, Deciding, Closing, RolloutSteps, PruneSteps, LiveSteps, KeepsLabels,
     EnsurePreviewServices
<1>7. Decided'
  BY <1>1, EnsureServicesDoes DEF Decided, EnsurePreviewServices
<1>8. LiveFirst'
  BY <1>1, <1>2, EnsureServicesDoes
     DEF LiveFirst, Overridden, Positions, Staging, Deciding, Closing, PruneSteps, LiveSteps,
     KeepsLabels, EnsurePreviewServices, CopyFollows
<1>9. Held'
  BY <1>1, <1>2, EnsureServicesDoes
     DEF Held, InRollout, Promoting, Overridden, Positions, PruneSteps, LiveSteps, KeepsLabels,
     EnsurePreviewServices
<1>10. QED
  BY <1>4, <1>5, <1>6, <1>7, <1>8, <1>9 DEF RolloutInv

\* While a promotion is not finished a Service is written and the reconcile ends.
LEMMA EnsureLiveServicesKeeps ==
  ASSUME TypeOK, RolloutInv, EnsureLiveServices
  PROVE  RolloutInv'
<1>1. CopyFollows /\ Named /\ Positions /\ Decided /\ LiveFirst /\ Held
  BY DEF RolloutInv
<1>2. KeepsLabels
  BY EnsureServicesDoes, SameLabels DEF EnsureLiveServices
<1>3. api \in DataPlanes /\ copy \in DataPlanes
  BY DEF TypeOK
<1>4. CopyFollows'
  BY <1>1, EnsureServicesDoes DEF CopyFollows, EnsureLiveServices
<1>5. Named'
  BY <1>1, <1>2, EnsureServicesDoes
     DEF Named, InRollout, Staging, Deciding, Closing, RolloutSteps, KeepsLabels,
     EnsureLiveServices
<1>6. Positions'
  BY <1>1, EnsureServicesDoes
     DEF Positions, Staging, Deciding, Closing, RolloutSteps, PruneSteps, LiveSteps,
     EnsureLiveServices
<1>7. Decided'
  BY EnsureServicesDoes DEF Decided, EnsureLiveServices
<1>8. LiveFirst'
  BY <1>1, <1>2, EnsureServicesDoes
     DEF LiveFirst, Overridden, Staging, Deciding, Closing, KeepsLabels, EnsureLiveServices
<1>9. Held'
  BY <1>1, <1>2, EnsureServicesDoes
     DEF Held, InRollout, Promoting, Overridden, Staging, Deciding, Closing, RolloutSteps,
     KeepsLabels, EnsureLiveServices, CopyFollows
<1>10. QED
  BY <1>4, <1>5, <1>6, <1>7, <1>8, <1>9 DEF RolloutInv

\* The rollout was removed.
LEMMA PrunePreviewKeeps ==
  ASSUME TypeOK, RolloutInv, PrunePreview
  PROVE  RolloutInv'
<1>1. CopyFollows /\ Named /\ Positions /\ Decided /\ LiveFirst /\ Held
  BY DEF RolloutInv
<1>2. Live \cap Preview = {}
  BY LivePreview
<1>3. CopyFollows'
  BY <1>1, PrunePreviewDoes DEF CopyFollows
<1>4. Named'
  BY <1>1, PrunePreviewDoes DEF Named, InRollout, Staging, Deciding, Closing, RolloutSteps
<1>5. Positions'
  BY <1>1, PrunePreviewDoes
     DEF Positions, Staging, Deciding, Closing, RolloutSteps, PruneSteps, LiveSteps
<1>6. Decided'
  BY PrunePreviewDoes DEF Decided
<1>7. LiveFirst'
  BY <1>1, PrunePreviewDoes DEF LiveFirst, Overridden, Staging, Deciding, Closing, NoServices
<1>8. Held'
  BY <1>1, PrunePreviewDoes
     DEF Held, InRollout, Promoting, Overridden, Staging, Deciding, Closing, RolloutSteps
<1>9. QED
  BY <1>3, <1>4, <1>5, <1>6, <1>7, <1>8 DEF RolloutInv

\* The preview Deployment gets the selector of the rollout.
LEMMA EnsurePreviewDeploymentKeeps ==
  ASSUME TypeOK, RolloutInv, EnsurePreviewDeployment
  PROVE  RolloutInv'
<1>1. CopyFollows /\ Named /\ Positions /\ Decided /\ LiveFirst /\ Held
  BY DEF RolloutInv
<1>2. copy.preview \notin Live /\ copy.preview = api.preview /\ api.preview # 0
  BY <1>1
     DEF EnsurePreviewDeployment, CopyFollows, Named, Positions, InRollout, Deciding,
     RolloutSteps
<1>3. api \in DataPlanes /\ copy \in DataPlanes
  BY DEF TypeOK
<1>4. CopyFollows'
  BY <1>1, <1>2, EnsurePreviewDeploymentDoes DEF CopyFollows
<1>5. Named'
  BY <1>1, <1>2, EnsurePreviewDeploymentDoes, LivePreview
     DEF Named, InRollout, Positions, Closing, PruneSteps, LiveSteps
<1>6. Positions'
  BY <1>1, <1>2, EnsurePreviewDeploymentDoes
     DEF Positions, Deciding, Closing, RolloutSteps, PruneSteps, LiveSteps
<1>7. Decided'
  BY <1>1, <1>2, EnsurePreviewDeploymentDoes DEF Decided, PreviewReplicas, Named
<1>8. LiveFirst'
  BY <1>1, <1>2, EnsurePreviewDeploymentDoes DEF LiveFirst, Deciding
<1>9. Held'
  BY <1>1, <1>2, EnsurePreviewDeploymentDoes
     DEF Held, InRollout, Promoting, Overridden, Positions, PruneSteps, LiveSteps
<1>10. QED
  BY <1>4, <1>5, <1>6, <1>7, <1>8, <1>9 DEF RolloutInv

\* Now two Deployments are live.
LEMMA LabelPreviewLiveKeeps ==
  ASSUME TypeOK, RolloutInv, LabelPreviewLive
  PROVE  RolloutInv'
<1>1. CopyFollows /\ Named /\ Positions /\ Decided /\ LiveFirst /\ Held
  BY DEF RolloutInv
<1>2. TwoLive' /\ Preview' = {}
  BY <1>1, LabelPreviewLiveDoes
     DEF TwoLive, CopyFollows, Named, LiveFirst, InRollout, Deciding, RolloutSteps
<1>3. CopyFollows'
  BY <1>1, LabelPreviewLiveDoes DEF CopyFollows
<1>4. Named'
  BY <1>1, <1>2, LabelPreviewLiveDoes DEF Named
<1>5. Positions'
  BY <1>1, <1>2, LabelPreviewLiveDoes
     DEF Positions, Staging, Deciding, Closing, RolloutSteps, PruneSteps
<1>6. Decided'
  BY <1>1, LabelPreviewLiveDoes DEF Decided
<1>7. LiveFirst'
  BY <1>1, LabelPreviewLiveDoes DEF LiveFirst
<1>8. Held'
  BY <1>1, LabelPreviewLiveDoes
     DEF Held, InRollout, Promoting, Overridden, Positions, RolloutSteps, PruneSteps, LiveSteps
<1>9. QED
  BY <1>3, <1>4, <1>5, <1>6, <1>7, <1>8 DEF RolloutInv

\* The promotion is finished.
LEMMA ReduceLiveDeploymentsKeeps ==
  ASSUME TypeOK, RolloutInv, ReduceLiveDeployments
  PROVE  RolloutInv'
<1>1. CopyFollows /\ Named /\ Positions /\ Decided /\ LiveFirst /\ Held
  BY DEF RolloutInv
<1>2. Live # {}
  BY <1>1 DEF ReduceLiveDeployments, LiveFirst, Closing
<1>3. CopyFollows'
  BY <1>1, <1>2, ReduceLiveDeploymentsDoes DEF CopyFollows
<1>4. Named'
  BY <1>1, <1>2, ReduceLiveDeploymentsDoes, LivePreview DEF Named, Positions, Closing
<1>5. Positions'
  BY <1>2, ReduceLiveDeploymentsDoes
     DEF Positions, Staging, Deciding, Closing, RolloutSteps, PruneSteps, LiveSteps
<1>6. Decided'
  BY <1>2, ReduceLiveDeploymentsDoes DEF Decided
<1>7. LiveFirst'
  BY <1>1, <1>2, ReduceLiveDeploymentsDoes DEF LiveFirst
<1>8. Held'
  BY <1>1, <1>2, ReduceLiveDeploymentsDoes
     DEF Held, InRollout, Promoting, Overridden, Positions, PruneSteps, LiveSteps
<1>9. QED
  BY <1>3, <1>4, <1>5, <1>6, <1>7, <1>8 DEF RolloutInv

\* The live Deployment has the live selector, which is not that of the rollout.
LEMMA EnsureLiveDeploymentKeeps ==
  ASSUME TypeOK, RolloutInv, EnsureLiveDeployment
  PROVE  RolloutInv'
<1>1. CopyFollows /\ Named /\ Positions /\ Decided /\ LiveFirst /\ Held
  BY DEF RolloutInv
<1>2. (TwoLive' => TwoLive) /\ (Live' = Live => TwoLive' = TwoLive)
  BY EnsureLiveDeploymentDoes DEF TwoLive
<1>3. CopyFollows'
  BY <1>1, EnsureLiveDeploymentDoes DEF CopyFollows
<1>4. Named'
  BY <1>1, EnsureLiveDeploymentDoes, LivePreview
     DEF Named, InRollout, Positions, Staging, Deciding, Closing, RolloutSteps, LiveSteps, Held,
     Promoting, Overridden, CopyFollows
<1>5. Positions'
  BY <1>1, EnsureLiveDeploymentDoes
     DEF Positions, Staging, Deciding, Closing, RolloutSteps, PruneSteps, LiveSteps
<1>6. Decided'
  BY EnsureLiveDeploymentDoes DEF Decided
<1>7. LiveFirst'
  BY <1>1, EnsureLiveDeploymentDoes DEF LiveFirst
<1>8. Held'
  BY <1>1, <1>2, EnsureLiveDeploymentDoes
     DEF Held, InRollout, Promoting, Overridden, Staging, Deciding, Closing, RolloutSteps
<1>9. QED
  BY <1>3, <1>4, <1>5, <1>6, <1>7, <1>8 DEF RolloutInv

\* The invariant of the rollout, for every behaviour.
THEOREM RolloutInvariance == Spec => []RolloutInv
<1>1. Init => RolloutInv
  <2> SUFFICES ASSUME Init PROVE RolloutInv
    OBVIOUS
  <2>1. DOMAIN deployments = {} /\ Live = {} /\ Preview = {} /\ ~TwoLive
    BY DEF Init, Live, Preview, TwoLive, Labelled
  <2>2. services["preview"].admin = 0 /\ services["preview"].ingress = 0
    BY DEF Init, NoServices
  <2>3. /\ api.generation = 1 /\ api.selector = 0 /\ api.preview = 0 /\ api.readyGeneration = 0
        /\ api.reasonGeneration = 0 /\ pc = "idle"
    BY DEF Init
  <2>4. QED
    BY <2>1, <2>2, <2>3 DEF RolloutInv, CopyFollows, Named, Positions, Decided, LiveFirst, Held, InRollout, Promoting,
       Overridden, Staging, Deciding, Closing, RolloutSteps, PruneSteps, LiveSteps
<1>2. TypeOK /\ RolloutInv /\ [Next]_vars => RolloutInv'
  <2> SUFFICES ASSUME TypeOK, RolloutInv, [Next]_vars PROVE RolloutInv'
    OBVIOUS
  <2>1. CASE ReconcileStep
    BY <2>1, ReconcileStartKeeps, PrunePreviewKeeps, PruneRolloutStatusKeeps, EnsureLiveReadyStatusKeeps, InitSelectorInRolloutStatusKeeps,
       EnsureRolloutStartedKeeps, EnsurePreviewServicesKeeps, EnsurePreviewDeploymentKeeps, DecidePromotionKeeps, PreviewSelectorOverridesLiveKeeps,
       WaitForLiveServicesKeeps, LabelPreviewLiveKeeps, ClearRolloutSelectorKeeps, SetPromotionDoneKeeps, ResetPromoteWhenReadyKeeps,
       ReduceLiveDeploymentsKeeps, InitStatusKeeps, EnsureLiveServicesKeeps, EnsureLiveDeploymentKeeps, EnsureReadyStatusKeeps
       DEF ReconcileStep
  <2>2. QED
    BY <2>1, ReconcileFailsKeeps, UserKeeps, PodsKeeps, StutterKeeps DEF Next
<1>3. QED
  BY <1>1, <1>2, TypeCorrect, PTL DEF Spec

-----------------------------------------------------------------------------
(* Promotions.                                                             *)

\* The annotation is a request that no promotion has answered, unless a promotion
\* is under way that will reset it.
Open == api.promote /\ InRollout /\ (pc = "reduce" \/ ~Promoting)
Account == ~Automatic => promotions <= requests /\ (Open => promotions + 1 <= requests)

\* Only the user opens a request.
LEMMA OpenedByUser ==
  ASSUME TypeOK, RolloutInv, ReconcileStep \/ ReconcileFails, ~Automatic, Open'
  PROVE  Open
<1>1. CopyFollows /\ Named /\ Positions /\ Decided /\ LiveFirst /\ Held
  BY DEF RolloutInv
<1>2. api \in DataPlanes /\ copy \in DataPlanes
  BY DEF TypeOK
<1> USE DEF Open, InRollout, Promoting, Overridden, CopyFollows, Positions, Staging, Deciding, Closing, RolloutSteps, PruneSteps, LiveSteps
<1>3. CASE ReconcileStart
  BY <1>3, ReconcileStartDoes, SameLabels DEF KeepsLabels
<1>4. CASE PrunePreview
  BY <1>4, PrunePreviewDoes
<1>5. CASE PruneRolloutStatus
  BY <1>1, <1>5, PruneRolloutStatusDoes DEF KeepsUser
<1>6. CASE EnsureLiveReadyStatus
  BY <1>1, <1>6, EnsureLiveReadyStatusDoes, SameLabels
     DEF ReportEnds, Reports, KeepsLabels, KeepsUser, KeepsSelectors
<1>7. CASE InitSelectorInRolloutStatus
  BY <1>1, <1>7, InitSelectorInRolloutStatusDoes DEF KeepsUser
<1>8. CASE EnsureRolloutStarted
  BY <1>1, <1>8, EnsureRolloutStartedDoes DEF ReportEnds, Reports, KeepsUser, KeepsSelectors
<1>9. CASE EnsurePreviewServices
  BY <1>1, <1>9, EnsureServicesDoes DEF EnsurePreviewServices
<1>10. CASE EnsurePreviewDeployment
  <2>1. copy.preview \notin Live
    BY <1>1, <1>10 DEF EnsurePreviewDeployment, Named
  <2>2. QED
    BY <1>1, <1>2, <1>10, <2>1, EnsurePreviewDeploymentDoes DEF Named, KeepsUser, KeepsSelectors
<1>11. CASE DecidePromotion
  BY <1>1, <1>11, DecidePromotionDoes DEF KeepsUser, KeepsSelectors
<1>12. CASE PreviewSelectorOverridesLive
  BY <1>1, <1>12, PreviewSelectorOverridesLiveDoes
<1>13. CASE WaitForLiveServices
  BY <1>1, <1>13, WaitForLiveServicesDoes
<1>14. CASE LabelPreviewLive
  BY <1>14, LabelPreviewLiveDoes DEF TwoLive
<1>15. CASE ClearRolloutSelector
  BY <1>1, <1>15, ClearRolloutSelectorDoes, SameLabels DEF KeepsLabels
<1>16. CASE SetPromotionDone
  BY <1>1, <1>16, SetPromotionDoneDoes, SameLabels DEF KeepsLabels
<1>17. CASE ResetPromoteWhenReady
  BY <1>1, <1>17, ResetPromoteWhenReadyDoes DEF Decided
<1>18. CASE ReduceLiveDeployments
  BY <1>18 DEF ReduceLiveDeployments
<1>19. CASE InitStatus
  BY <1>1, <1>19, InitStatusDoes, SameLabels DEF KeepsLabels, KeepsUser
<1>20. CASE EnsureLiveServices
  BY <1>20, EnsureServicesDoes, SameLabels DEF EnsureLiveServices, KeepsLabels
<1>21. CASE EnsureLiveDeployment
  BY <1>1, <1>21, EnsureLiveDeploymentDoes DEF Held
<1>22. CASE EnsureReadyStatus
  BY <1>1, <1>22, EnsureReadyStatusDoes, SameLabels
     DEF ReportEnds, Reports, KeepsLabels, KeepsUser, KeepsSelectors
<1>23. CASE ReconcileFails
  BY <1>1, <1>23, ReconcileFailsDoes, SameLabels DEF KeepsLabels, KeepsUser, KeepsSelectors
<1>24. QED
  BY <1>3, <1>4, <1>5, <1>6, <1>7, <1>8, <1>9, <1>10, <1>11, <1>12, <1>13, <1>14, <1>15,
     <1>16, <1>17, <1>18, <1>19, <1>20, <1>21, <1>22, <1>23
     DEF ReconcileStep

\* A promotion answers an open request.
LEMMA StepKeepsAccount ==
  ASSUME TypeOK, RolloutInv, Account, [Next]_vars
  PROVE  Account'
<1> SUFFICES ASSUME ~Automatic PROVE promotions' <= requests' /\ (Open' => promotions' + 1 <= requests')
  BY DEF Account
<1>1. promotions \in Nat /\ requests \in Nat /\ promotions <= requests /\ (Open => promotions + 1 <= requests)
  BY DEF TypeOK, Account
<1>2. CASE ReconcileStep \/ ReconcileFails
  <2>1. Open' => Open
    BY <1>2, OpenedByUser
  <2>2. requests' = requests
    BY <1>2 DEF ReconcileStep, ReconcileStart, PrunePreview, PruneRolloutStatus, EnsureLiveReadyStatus,
       InitSelectorInRolloutStatus, EnsureRolloutStarted, EnsurePreviewServices, EnsureLiveServices, EnsureServices,
       EnsurePreviewDeployment, DecidePromotion, PreviewSelectorOverridesLive, WaitForLiveServices,
       LabelPreviewLive, ClearRolloutSelector, SetPromotionDone, ResetPromoteWhenReady, ReduceLiveDeployments,
       InitStatus, EnsureLiveDeployment, EnsureReadyStatus, ReconcileFails
  <2>3. CASE promotions' = promotions
    BY <1>1, <2>1, <2>2, <2>3
  <2>4. CASE promotions' # promotions
    <3>1. PreviewSelectorOverridesLive
      BY <1>2, <2>4 DEF ReconcileStep, ReconcileStart, PrunePreview, PruneRolloutStatus, EnsureLiveReadyStatus,
         InitSelectorInRolloutStatus, EnsureRolloutStarted, EnsurePreviewServices, EnsureLiveServices, EnsureServices,
         EnsurePreviewDeployment, DecidePromotion, WaitForLiveServices,
         LabelPreviewLive, ClearRolloutSelector, SetPromotionDone, ResetPromoteWhenReady, ReduceLiveDeployments,
         InitStatus, EnsureLiveDeployment, EnsureReadyStatus, ReconcileFails
    <3>2. /\ pc = "override" /\ pc' = "idle" /\ promotions' = promotions + 1
          /\ copy.selector # copy.preview
          /\ api'.selector = copy.preview /\ api'.preview = api.preview
      BY <2>4, <3>1, PreviewSelectorOverridesLiveDoes
    <3>3. CopyFollows /\ Positions /\ Decided
      BY DEF RolloutInv
    <3>4. Open
      BY <3>2, <3>3 DEF Open, InRollout, Promoting, Overridden, CopyFollows, Positions, Decided,
         Staging, Deciding, Closing, RolloutSteps
    <3>5. Overridden'
      BY <3>2, <3>3 DEF Overridden, CopyFollows, Positions, Staging, Deciding, Closing, RolloutSteps
    <3>6. ~Open'
      BY <3>2, <3>5 DEF Open, Promoting
    <3>7. QED
      BY <1>1, <2>2, <3>2, <3>4, <3>6
  <2>5. QED
    BY <2>3, <2>4
<1>3. CASE EditSpec \/ RemoveRollout \/ RequestPromotion
  <2>1. /\ promotions' = promotions /\ pc' = pc
        /\ api'.selector = api.selector /\ api'.preview = api.preview
        /\ api'.rollout => api.rollout
        /\ requests' = requests + 1 \/ (requests' = requests /\ api'.promote = api.promote)
    BY <1>3, UserDoes DEF KeepsSelectors
  <2>2. TwoLive' = TwoLive
    BY <1>3, UserDoes, SameLabels DEF KeepsLabels
  <2>3. CASE requests' = requests + 1
    BY <1>1, <2>1, <2>3
  <2>4. CASE requests' = requests /\ api'.promote = api.promote
    <3>1. Open' => Open
      BY <2>1, <2>2, <2>4 DEF Open, InRollout, Promoting, Overridden
    <3>2. QED
      BY <1>1, <2>1, <2>4, <3>1
  <2>5. QED
    BY <2>1, <2>3, <2>4
<1>4. ASSUME NEW s \in DOMAIN deployments, PodsReplaced(s) \/ PodsReady(s) \/ PodsFail(s)
      PROVE  promotions' <= requests' /\ (Open' => promotions' + 1 <= requests')
  BY <1>1, <1>4, PodsDo DEF Open, InRollout, Promoting, Overridden, KeepsLabels
<1>5. CASE UNCHANGED vars
  BY <1>1, <1>5 DEF vars, Open, InRollout, Promoting, Overridden, TwoLive, Live, Labelled
<1>6. QED
  BY <1>2, <1>3, <1>4, <1>5 DEF Next

\* With BreakBeforePromotion every promotion answers a request of its own, however
\* reconciles fail between the selector, the label, the reset of the annotation and
\* the deletion, and whatever is edited meanwhile.
THEOREM PromotionsRequested == Spec => []PromotedOnRequest
<1>1. Init => Account
  BY DEF Init, Account, Open
<1>2. TypeOK /\ RolloutInv /\ Account /\ [Next]_vars => Account'
  BY StepKeepsAccount
<1>3. Account => PromotedOnRequest
  BY DEF Account, PromotedOnRequest
<1>4. QED
  BY <1>1, <1>2, <1>3, TypeCorrect, RolloutInvariance, PTL DEF Spec

-----------------------------------------------------------------------------
(* Traffic.                                                                *)

Ingress == services["live"].ingress

\* A rollout that has begun without a live Deployment stays behind its generation.
Reported ==
  Live = {} =>
    /\ api.ready # "Ready" /\ api.reason # "PromotionDone"
    /\ InRollout =>
         /\ api.preview # 0 \/ pc \in RolloutSteps =>
              0 < api.readyGeneration /\ api.readyGeneration < api.generation
         /\ pc \in LiveSteps => api.preview = 0

\* While the live selector is the preview's, the preview keeps its replicas.
Behind ==
  InRollout /\ Overridden =>
    /\ pc # "idle" => api.readyGeneration < copy.generation
    /\ pc \in {"previewServices", "previewDeployment", "promotion"} =>
         api.readyGeneration < api.reasonGeneration

\* The live ingress Service has the live selector, or will get it.
Selected ==
  /\ InRollout /\ Ingress # 0 => Ingress = api.selector \/ Overridden
  /\ pc \in {"label", "clearSelector"} => Ingress = api.selector

\* The preview is newer than the live Deployment, and so is the promoted one.
Newest ==
  InRollout =>
    /\ TwoLive => /\ api.selector \in Live /\ Ingress = api.selector
                  /\ \A s \in Live : s <= api.selector
    /\ api.preview # 0 /\ ~TwoLive => \A s \in Live : s < api.preview

\* The preview that is promoted has replicas.
Backed ==
  InRollout /\ (Overridden \/ pc = "override") =>
    api.preview \in DOMAIN deployments /\ deployments[api.preview].replicas # 0

TrafficInv == Reported /\ Behind /\ Selected /\ Newest /\ Backed

\* The rollout's selector is not a live Deployment's when its preview is made.
LEMMA PreviewApart ==
  ASSUME RolloutInv, EnsurePreviewDeployment
  PROVE  copy.preview \notin Live
BY DEF RolloutInv, EnsurePreviewDeployment, CopyFollows, Named, Positions, InRollout,
   Staging, Deciding, Closing, RolloutSteps

\* There is a live Deployment when they are reduced.
LEMMA ReducesTwo ==
  ASSUME RolloutInv, ReduceLiveDeployments
  PROVE  Live # {}
BY DEF RolloutInv, ReduceLiveDeployments, LiveFirst, Closing

\* What of the generations the user changes.
LEMMA UserTypes ==
  ASSUME TypeOK, EditSpec \/ RemoveRollout \/ RequestPromotion
  PROVE  api.generation \in Nat /\ api'.generation \in Nat /\ api.readyGeneration \in Nat
<1>1. api \in DataPlanes /\ api' \in DataPlanes
  BY EnvironmentType DEF TypeOK
<1>2. QED
  BY <1>1, DataPlaneFields

\* A rollout without a live Deployment does not catch up.
LEMMA ReportedKept ==
  ASSUME TypeOK, RolloutInv, TrafficInv, [Next]_vars
  PROVE  Reported'
<1>1. CopyFollows /\ Named /\ Positions /\ Decided /\ LiveFirst /\ Held
  BY DEF RolloutInv
<1>2. Reported /\ Behind /\ Selected /\ Newest /\ Backed
  BY DEF TrafficInv
<1>3. api \in DataPlanes /\ copy \in DataPlanes
  BY DEF TypeOK
<1> USE DEF InRollout, Promoting, Overridden, Ingress, CopyFollows, Reported, Positions, LiveFirst,
            Staging, Deciding, Closing, RolloutSteps, PruneSteps, LiveSteps, KeepsUser, KeepsSelectors, KeepsReady, KeepsReason, KeepsLabels
<1>4. CASE ReconcileStart
  BY <1>1, <1>2, <1>3, <1>4, ReconcileStartDoes, SameLabels, DataPlaneFields DEF ShouldDelegate
<1>5. CASE PrunePreview
  BY <1>2, <1>5, PrunePreviewDoes
<1>6. CASE PruneRolloutStatus
  BY <1>1, <1>2, <1>6, PruneRolloutStatusDoes, SameLabels DEF None
<1>7. CASE EnsureLiveReadyStatus
  BY <1>1, <1>2, <1>7, EnsureLiveReadyStatusDoes, SameLabels DEF ReportEnds, Reports
<1>8. CASE InitSelectorInRolloutStatus
  BY <1>2, <1>8, InitSelectorInRolloutStatusDoes, SameLabels
<1>9. CASE EnsureRolloutStarted
  BY <1>1, <1>2, <1>9, EnsureRolloutStartedDoes, SameLabels DEF ReportEnds
<1>10. CASE EnsurePreviewServices
  BY <1>2, <1>10, EnsureServicesDoes, SameLabels DEF EnsurePreviewServices
<1>11. CASE EnsurePreviewDeployment
  BY <1>1, <1>11, EnsurePreviewDeploymentDoes, PreviewApart
<1>12. CASE DecidePromotion
  BY <1>1, <1>12, DecidePromotionDoes, SameLabels
<1>13. CASE PreviewSelectorOverridesLive
  BY <1>1, <1>13, PreviewSelectorOverridesLiveDoes, SameLabels
<1>14. CASE WaitForLiveServices
  BY <1>1, <1>14, WaitForLiveServicesDoes, SameLabels
<1>15. CASE LabelPreviewLive
  BY <1>15, LabelPreviewLiveDoes
<1>16. CASE ClearRolloutSelector
  BY <1>1, <1>16, ClearRolloutSelectorDoes, SameLabels
<1>17. CASE SetPromotionDone
  BY <1>1, <1>17, SetPromotionDoneDoes, SameLabels
<1>18. CASE ResetPromoteWhenReady
  BY <1>1, <1>18, ResetPromoteWhenReadyDoes, SameLabels
<1>19. CASE ReduceLiveDeployments
  BY <1>19, ReduceLiveDeploymentsDoes, ReducesTwo
<1>20. CASE InitStatus
  BY <1>2, <1>20, InitStatusDoes, SameLabels
<1>21. CASE EnsureLiveServices
  BY <1>2, <1>21, EnsureServicesDoes, SameLabels DEF EnsureLiveServices
<1>22. CASE EnsureLiveDeployment
  BY <1>22, EnsureLiveDeploymentDoes
<1>23. CASE EnsureReadyStatus
  BY <1>2, <1>23, EnsureReadyStatusDoes, SameLabels DEF ReportEnds, Reports
<1>24. CASE ReconcileFails
  BY <1>2, <1>24, ReconcileFailsDoes, SameLabels
<1>25. CASE EditSpec \/ RemoveRollout \/ RequestPromotion
  <2>1. KeepsLabels
    BY <1>25, UserDoes, SameLabels
  <2>2. /\ UNCHANGED <<services, pc>> /\ KeepsSelectors /\ KeepsReady /\ KeepsReason
        /\ api'.rollout => api.rollout
        /\ api.generation <= api'.generation
    BY <1>25, UserDoes
  <2>3. QED
    BY <1>2, <1>25, <2>1, <2>2, UserTypes
<1>26. ASSUME NEW s \in DOMAIN deployments, PodsReplaced(s) \/ PodsReady(s) \/ PodsFail(s)
      PROVE  Reported'
  BY <1>2, <1>26, PodsDo
<1>27. CASE UNCHANGED vars
  BY <1>2, <1>27, SameLabels DEF vars
<1>28. QED
  BY <1>4, <1>5, <1>6, <1>7, <1>8, <1>9, <1>10, <1>11, <1>12, <1>13, <1>14, <1>15, <1>16,
     <1>17, <1>18, <1>19, <1>20, <1>21, <1>22, <1>23, <1>24, <1>25, <1>26, <1>27
     DEF Next, ReconcileStep

\* A promotion keeps the Ready condition behind the copy.
LEMMA BehindKept ==
  ASSUME TypeOK, RolloutInv, TrafficInv, [Next]_vars
  PROVE  Behind'
<1>1. CopyFollows /\ Named /\ Positions /\ Decided /\ LiveFirst /\ Held
  BY DEF RolloutInv
<1>2. Reported /\ Behind /\ Selected /\ Newest /\ Backed
  BY DEF TrafficInv
<1>3. api \in DataPlanes /\ copy \in DataPlanes
  BY DEF TypeOK
<1> USE DEF InRollout, Promoting, Overridden, Ingress, CopyFollows, Behind, Positions, Held,
            Staging, Deciding, Closing, RolloutSteps, PruneSteps, LiveSteps, KeepsUser, KeepsSelectors, KeepsReady, KeepsReason, KeepsLabels
<1>4. CASE ReconcileStart
  BY <1>1, <1>4, ReconcileStartDoes
<1>5. CASE PrunePreview
  BY <1>1, <1>5, PrunePreviewDoes
<1>6. CASE PruneRolloutStatus
  BY <1>1, <1>6, PruneRolloutStatusDoes
<1>7. CASE EnsureLiveReadyStatus
  BY <1>1, <1>7, EnsureLiveReadyStatusDoes DEF Reports
<1>8. CASE InitSelectorInRolloutStatus
  BY <1>2, <1>8, InitSelectorInRolloutStatusDoes, FreshIsNewer
<1>9. CASE EnsureRolloutStarted
  BY <1>1, <1>2, <1>9, EnsureRolloutStartedDoes DEF Reports
<1>10. CASE EnsurePreviewServices
  BY <1>2, <1>10, EnsureServicesDoes DEF EnsurePreviewServices
<1>11. CASE EnsurePreviewDeployment
  BY <1>2, <1>11, EnsurePreviewDeploymentDoes, PreviewApart
<1>12. CASE DecidePromotion
  BY <1>1, <1>2, <1>12, DecidePromotionDoes
<1>13. CASE PreviewSelectorOverridesLive
  BY <1>2, <1>13, PreviewSelectorOverridesLiveDoes
<1>14. CASE WaitForLiveServices
  BY <1>2, <1>14, WaitForLiveServicesDoes
<1>15. CASE LabelPreviewLive
  BY <1>2, <1>15, LabelPreviewLiveDoes
<1>16. CASE ClearRolloutSelector
  BY <1>16, ClearRolloutSelectorDoes
<1>17. CASE SetPromotionDone
  BY <1>1, <1>17, SetPromotionDoneDoes
<1>18. CASE ResetPromoteWhenReady
  BY <1>1, <1>18, ResetPromoteWhenReadyDoes
<1>19. CASE ReduceLiveDeployments
  BY <1>19, ReduceLiveDeploymentsDoes, ReducesTwo
<1>20. CASE InitStatus
  BY <1>2, <1>20, InitStatusDoes, FreshIsNewer
<1>21. CASE EnsureLiveServices
  BY <1>1, <1>21, EnsureServicesDoes DEF EnsureLiveServices
<1>22. CASE EnsureLiveDeployment
  BY <1>1, <1>22, EnsureLiveDeploymentDoes
<1>23. CASE EnsureReadyStatus
  BY <1>23, EnsureReadyStatusDoes
<1>24. CASE ReconcileFails
  BY <1>24, ReconcileFailsDoes
<1>25. CASE EditSpec \/ RemoveRollout \/ RequestPromotion
  BY <1>2, <1>25, UserDoes, UserTypes
<1>26. ASSUME NEW s \in DOMAIN deployments, PodsReplaced(s) \/ PodsReady(s) \/ PodsFail(s)
      PROVE  Behind'
  BY <1>2, <1>26, PodsDo
<1>27. CASE UNCHANGED vars
  BY <1>2, <1>27 DEF vars
<1>28. QED
  BY <1>4, <1>5, <1>6, <1>7, <1>8, <1>9, <1>10, <1>11, <1>12, <1>13, <1>14, <1>15, <1>16,
     <1>17, <1>18, <1>19, <1>20, <1>21, <1>22, <1>23, <1>24, <1>25, <1>26, <1>27
     DEF Next, ReconcileStep

\* The live ingress Service follows the live selector.
LEMMA SelectedKept ==
  ASSUME TypeOK, RolloutInv, TrafficInv, [Next]_vars
  PROVE  Selected'
<1>1. CopyFollows /\ Named /\ Positions /\ Decided /\ LiveFirst /\ Held
  BY DEF RolloutInv
<1>2. Reported /\ Behind /\ Selected /\ Newest /\ Backed
  BY DEF TrafficInv
<1>3. api \in DataPlanes /\ copy \in DataPlanes
  BY DEF TypeOK
<1> USE DEF InRollout, Promoting, Overridden, Ingress, CopyFollows, Selected, Positions, Held,
            Staging, Deciding, Closing, RolloutSteps, PruneSteps, LiveSteps, KeepsUser, KeepsSelectors, KeepsReady, KeepsReason, KeepsLabels
<1>4. CASE ReconcileStart
  BY <1>2, <1>4, ReconcileStartDoes
<1>5. CASE PrunePreview
  BY <1>1, <1>5, PrunePreviewDoes
<1>6. CASE PruneRolloutStatus
  BY <1>1, <1>6, PruneRolloutStatusDoes
<1>7. CASE EnsureLiveReadyStatus
  BY <1>2, <1>7, EnsureLiveReadyStatusDoes DEF ReportEnds, Reports
<1>8. CASE InitSelectorInRolloutStatus
  BY <1>1, <1>2, <1>8, InitSelectorInRolloutStatusDoes
<1>9. CASE EnsureRolloutStarted
  BY <1>2, <1>9, EnsureRolloutStartedDoes DEF ReportEnds, Reports
<1>10. CASE EnsurePreviewServices
  BY <1>2, <1>10, EnsureServicesDoes DEF EnsurePreviewServices
<1>11. CASE EnsurePreviewDeployment
  BY <1>2, <1>11, EnsurePreviewDeploymentDoes, PreviewApart
<1>12. CASE DecidePromotion
  BY <1>2, <1>12, DecidePromotionDoes
<1>13. CASE PreviewSelectorOverridesLive
  BY <1>1, <1>13, PreviewSelectorOverridesLiveDoes
<1>14. CASE WaitForLiveServices
  BY <1>1, <1>14, WaitForLiveServicesDoes
<1>15. CASE LabelPreviewLive
  BY <1>2, <1>15, LabelPreviewLiveDoes
<1>16. CASE ClearRolloutSelector
  BY <1>2, <1>16, ClearRolloutSelectorDoes
<1>17. CASE SetPromotionDone
  BY <1>2, <1>17, SetPromotionDoneDoes
<1>18. CASE ResetPromoteWhenReady
  BY <1>2, <1>18, ResetPromoteWhenReadyDoes
<1>19. CASE ReduceLiveDeployments
  BY <1>2, <1>19, ReduceLiveDeploymentsDoes, ReducesTwo
<1>20. CASE InitStatus
  BY <1>1, <1>2, <1>20, InitStatusDoes
<1>21. CASE EnsureLiveServices
  BY <1>1, <1>2, <1>21, EnsureServicesDoes DEF EnsureLiveServices
<1>22. CASE EnsureLiveDeployment
  BY <1>2, <1>22, EnsureLiveDeploymentDoes
<1>23. CASE EnsureReadyStatus
  BY <1>2, <1>23, EnsureReadyStatusDoes DEF ReportEnds, Reports
<1>24. CASE ReconcileFails
  BY <1>2, <1>24, ReconcileFailsDoes
<1>25. CASE EditSpec \/ RemoveRollout \/ RequestPromotion
  BY <1>2, <1>25, UserDoes, UserTypes
<1>26. ASSUME NEW s \in DOMAIN deployments, PodsReplaced(s) \/ PodsReady(s) \/ PodsFail(s)
      PROVE  Selected'
  BY <1>2, <1>26, PodsDo
<1>27. CASE UNCHANGED vars
  BY <1>2, <1>27 DEF vars
<1>28. QED
  BY <1>4, <1>5, <1>6, <1>7, <1>8, <1>9, <1>10, <1>11, <1>12, <1>13, <1>14, <1>15, <1>16,
     <1>17, <1>18, <1>19, <1>20, <1>21, <1>22, <1>23, <1>24, <1>25, <1>26, <1>27
     DEF Next, ReconcileStep

\* Selectors are drawn in order.
LEMMA NewestKept ==
  ASSUME TypeOK, RolloutInv, TrafficInv, [Next]_vars
  PROVE  Newest'
<1>1. CopyFollows /\ Named /\ Positions /\ Decided /\ LiveFirst /\ Held
  BY DEF RolloutInv
<1>2. Reported /\ Behind /\ Selected /\ Newest /\ Backed
  BY DEF TrafficInv
<1>3. api \in DataPlanes /\ copy \in DataPlanes
  BY DEF TypeOK
<1> USE DEF InRollout, Promoting, Overridden, Ingress, CopyFollows, Newest, Selected, Reported, Positions, Named, Held,
            Staging, Deciding, Closing, RolloutSteps, PruneSteps, LiveSteps, KeepsUser, KeepsSelectors, KeepsReady, KeepsReason, KeepsLabels
<1>4. CASE ReconcileStart
  BY <1>2, <1>4, ReconcileStartDoes, SameLabels
<1>5. CASE PrunePreview
  BY <1>1, <1>5, PrunePreviewDoes
<1>6. CASE PruneRolloutStatus
  BY <1>1, <1>6, PruneRolloutStatusDoes
<1>7. CASE EnsureLiveReadyStatus
  BY <1>2, <1>7, EnsureLiveReadyStatusDoes, SameLabels DEF ReportEnds, Reports
<1>8. CASE InitSelectorInRolloutStatus
  BY <1>2, <1>8, InitSelectorInRolloutStatusDoes, FreshIsNewer, SameLabels, LivePreview
<1>9. CASE EnsureRolloutStarted
  BY <1>2, <1>9, EnsureRolloutStartedDoes, SameLabels DEF ReportEnds, Reports
<1>10. CASE EnsurePreviewServices
  BY <1>2, <1>10, EnsureServicesDoes, SameLabels DEF EnsurePreviewServices
<1>11. CASE EnsurePreviewDeployment
  BY <1>2, <1>11, EnsurePreviewDeploymentDoes, PreviewApart
<1>12. CASE DecidePromotion
  BY <1>2, <1>12, DecidePromotionDoes, SameLabels
<1>13. CASE PreviewSelectorOverridesLive
  BY <1>1, <1>2, <1>13, PreviewSelectorOverridesLiveDoes, SameLabels
<1>14. CASE WaitForLiveServices
  BY <1>2, <1>14, WaitForLiveServicesDoes, SameLabels
<1>15. CASE LabelPreviewLive
  BY <1>1, <1>2, <1>15, LabelPreviewLiveDoes, LivePreview DEF LiveFirst, TwoLive
<1>16. CASE ClearRolloutSelector
  BY <1>2, <1>16, ClearRolloutSelectorDoes, SameLabels
<1>17. CASE SetPromotionDone
  BY <1>2, <1>17, SetPromotionDoneDoes, SameLabels
<1>18. CASE ResetPromoteWhenReady
  BY <1>2, <1>18, ResetPromoteWhenReadyDoes, SameLabels
<1>19. CASE ReduceLiveDeployments
  BY <1>1, <1>19, ReduceLiveDeploymentsDoes, ReducesTwo
<1>20. CASE InitStatus
  BY <1>1, <1>2, <1>20, InitStatusDoes, SameLabels
<1>21. CASE EnsureLiveServices
  BY <1>1, <1>2, <1>21, EnsureServicesDoes, SameLabels DEF EnsureLiveServices
<1>22. CASE EnsureLiveDeployment
  BY <1>1, <1>2, <1>22, EnsureLiveDeploymentDoes DEF TwoLive
<1>23. CASE EnsureReadyStatus
  BY <1>2, <1>23, EnsureReadyStatusDoes, SameLabels DEF ReportEnds, Reports
<1>24. CASE ReconcileFails
  BY <1>2, <1>24, ReconcileFailsDoes, SameLabels
<1>25. CASE EditSpec \/ RemoveRollout \/ RequestPromotion
  <2>1. KeepsLabels
    BY <1>25, UserDoes, SameLabels
  <2>2. /\ UNCHANGED <<services, pc>> /\ KeepsSelectors /\ KeepsReady /\ KeepsReason
        /\ api'.rollout => api.rollout
        /\ api.generation <= api'.generation
    BY <1>25, UserDoes
  <2>3. QED
    BY <1>2, <1>25, <2>1, <2>2, UserTypes
<1>26. ASSUME NEW s \in DOMAIN deployments, PodsReplaced(s) \/ PodsReady(s) \/ PodsFail(s)
      PROVE  Newest'
  BY <1>2, <1>26, PodsDo
<1>27. CASE UNCHANGED vars
  BY <1>2, <1>27, SameLabels DEF vars
<1>28. QED
  BY <1>4, <1>5, <1>6, <1>7, <1>8, <1>9, <1>10, <1>11, <1>12, <1>13, <1>14, <1>15, <1>16,
     <1>17, <1>18, <1>19, <1>20, <1>21, <1>22, <1>23, <1>24, <1>25, <1>26, <1>27
     DEF Next, ReconcileStep

\* Nothing scales down or deletes a preview that is being promoted.
LEMMA BackedKept ==
  ASSUME TypeOK, RolloutInv, TrafficInv, [Next]_vars
  PROVE  Backed'
<1>1. CopyFollows /\ Named /\ Positions /\ Decided /\ LiveFirst /\ Held
  BY DEF RolloutInv
<1>2. Reported /\ Behind /\ Selected /\ Newest /\ Backed
  BY DEF TrafficInv
<1>3. api \in DataPlanes /\ copy \in DataPlanes
  BY DEF TypeOK
<1> USE DEF InRollout, Promoting, Overridden, Ingress, CopyFollows, Backed, Behind, Positions, Named, Held,
            Staging, Deciding, Closing, RolloutSteps, PruneSteps, LiveSteps, KeepsUser, KeepsSelectors, KeepsReady, KeepsReason, KeepsLabels
<1>4. CASE ReconcileStart
  BY <1>2, <1>4, ReconcileStartDoes
<1>5. CASE PrunePreview
  BY <1>1, <1>5, PrunePreviewDoes
<1>6. CASE PruneRolloutStatus
  BY <1>1, <1>6, PruneRolloutStatusDoes
<1>7. CASE EnsureLiveReadyStatus
  BY <1>2, <1>7, EnsureLiveReadyStatusDoes DEF ReportEnds, Reports
<1>8. CASE InitSelectorInRolloutStatus
  BY <1>2, <1>8, InitSelectorInRolloutStatusDoes, FreshIsNewer
<1>9. CASE EnsureRolloutStarted
  BY <1>2, <1>9, EnsureRolloutStartedDoes DEF ReportEnds, Reports
<1>10. CASE EnsurePreviewServices
  BY <1>2, <1>10, EnsureServicesDoes DEF EnsurePreviewServices
<1>11. CASE EnsurePreviewDeployment
  BY <1>1, <1>2, <1>3, <1>11, EnsurePreviewDeploymentDoes, DataPlaneFields, LivePreview,
     PreviewApart
     DEF PreviewReplicas
<1>12. CASE DecidePromotion
  BY <1>1, <1>2, <1>12, DecidePromotionDoes, LivePreview
<1>13. CASE PreviewSelectorOverridesLive
  BY <1>2, <1>13, PreviewSelectorOverridesLiveDoes
<1>14. CASE WaitForLiveServices
  BY <1>2, <1>14, WaitForLiveServicesDoes
<1>15. CASE LabelPreviewLive
  BY <1>2, <1>15, LabelPreviewLiveDoes
<1>16. CASE ClearRolloutSelector
  BY <1>16, ClearRolloutSelectorDoes
<1>17. CASE SetPromotionDone
  BY <1>1, <1>17, SetPromotionDoneDoes
<1>18. CASE ResetPromoteWhenReady
  BY <1>1, <1>18, ResetPromoteWhenReadyDoes
<1>19. CASE ReduceLiveDeployments
  BY <1>1, <1>19, ReduceLiveDeploymentsDoes, ReducesTwo
<1>20. CASE InitStatus
  BY <1>2, <1>20, InitStatusDoes, FreshIsNewer
<1>21. CASE EnsureLiveServices
  BY <1>2, <1>21, EnsureServicesDoes DEF EnsureLiveServices
<1>22. CASE EnsureLiveDeployment
  BY <1>1, <1>22, EnsureLiveDeploymentDoes
<1>23. CASE EnsureReadyStatus
  BY <1>1, <1>23, EnsureReadyStatusDoes DEF ReportEnds, Reports
<1>24. CASE ReconcileFails
  BY <1>2, <1>24, ReconcileFailsDoes
<1>25. CASE EditSpec \/ RemoveRollout \/ RequestPromotion
  BY <1>2, <1>25, UserDoes, UserTypes
<1>26. ASSUME NEW s \in DOMAIN deployments, PodsReplaced(s) \/ PodsReady(s) \/ PodsFail(s)
      PROVE  Backed'
  BY <1>2, <1>26, PodsDo
<1>27. CASE UNCHANGED vars
  BY <1>2, <1>27 DEF vars
<1>28. QED
  BY <1>4, <1>5, <1>6, <1>7, <1>8, <1>9, <1>10, <1>11, <1>12, <1>13, <1>14, <1>15, <1>16,
     <1>17, <1>18, <1>19, <1>20, <1>21, <1>22, <1>23, <1>24, <1>25, <1>26, <1>27
     DEF Next, ReconcileStep

\* The invariant of the traffic, for every behaviour.
THEOREM TrafficInvariance == Spec => []TrafficInv
<1>1. Init => TrafficInv
  <2> SUFFICES ASSUME Init PROVE TrafficInv
    OBVIOUS
  <2>1. Live = {} /\ ~TwoLive
    BY DEF Init, Live, TwoLive, Labelled
  <2>2. /\ api.selector = 0 /\ api.preview = 0 /\ api.ready = None /\ api.reason = None
        /\ pc = "idle" /\ Ingress = 0
    BY DEF Init, Ingress, NoServices
  <2>3. QED
    BY <2>1, <2>2 DEF TrafficInv, Reported, Behind, Selected, Newest, Backed, InRollout, Overridden, None,
       Staging, Deciding, Closing, RolloutSteps, LiveSteps
<1>2. TypeOK /\ RolloutInv /\ TrafficInv /\ [Next]_vars => TrafficInv'
  BY ReportedKept, BehindKept, SelectedKept, NewestKept, BackedKept DEF TrafficInv
<1>3. QED
  BY <1>1, <1>2, TypeCorrect, RolloutInvariance, PTL DEF Spec

\* A rollout that was removed is not configured again.
LEMMA RolloutStays ==
  ASSUME TypeOK, Next, api'.rollout
  PROVE  api.rollout
<1>1. CASE ReconcileStep \/ ReconcileFails
  <2>1. api'.rollout = api.rollout
    BY <1>1, ReconcileStartDoes, PrunePreviewDoes, PruneRolloutStatusDoes, EnsureLiveReadyStatusDoes,
       InitSelectorInRolloutStatusDoes, EnsureRolloutStartedDoes, DecidePromotionDoes,
       PreviewSelectorOverridesLiveDoes, WaitForLiveServicesDoes, LabelPreviewLiveDoes, ClearRolloutSelectorDoes,
       SetPromotionDoneDoes, ResetPromoteWhenReadyDoes, InitStatusDoes, EnsureLiveDeploymentDoes,
       EnsureReadyStatusDoes, ReconcileFailsDoes
       DEF ReconcileStep, EnsurePreviewServices, EnsureLiveServices, EnsureServices, EnsurePreviewDeployment,
       ReduceLiveDeployments, ReportEnds, Reports, KeepsUser
  <2>2. QED
    BY <2>1
<1>2. CASE EditSpec \/ RemoveRollout \/ RequestPromotion
  <2>1. api.rollout \in BOOLEAN /\ api'.rollout \in {FALSE, api.rollout}
    BY <1>2, UserDoes, DataPlaneFields DEF TypeOK
  <2>2. QED
    BY <2>1
<1>3. ASSUME NEW s \in DOMAIN deployments, PodsReplaced(s) \/ PodsReady(s) \/ PodsFail(s)
      PROVE  api.rollout
  BY <1>3, PodsDo
<1>4. QED
  BY <1>1, <1>2, <1>3 DEF Next

\* The live ingress Service and the Deployment it selects, at each step.
LEMMA StepServes ==
  ASSUME TypeOK, RolloutInv, TrafficInv, Next, api'.rollout, Serving
  PROVE  Serving'
<1>1. CopyFollows /\ Named /\ Positions /\ LiveFirst /\ Held
  BY DEF RolloutInv
<1>2. Selected /\ Newest /\ Backed /\ Backed'
  BY BackedKept DEF TrafficInv
<1>3. api.rollout /\ InRollout
  BY RolloutStays DEF InRollout
<1>4. Ingress \in DOMAIN deployments /\ deployments[Ingress].replicas # 0 /\ Ingress # 0
  BY <1>1 DEF Serving, Ingress, Named
<1>5. SUFFICES Ingress' \in DOMAIN deployments' /\ deployments'[Ingress'].replicas # 0
  BY DEF Serving, Ingress
<1>6. CASE UNCHANGED <<deployments, services>>
  BY <1>4, <1>6 DEF Ingress
<1>7. CASE PrunePreview
  BY <1>1, <1>3, <1>7, PrunePreviewDoes DEF Positions, PruneSteps
<1>8. CASE EnsurePreviewServices
  <2>1. deployments' = deployments /\ services'["live"] = services["live"]
    BY <1>8, EnsureServicesDoes DEF EnsurePreviewServices
  <2>2. QED
    BY <1>4, <2>1 DEF Ingress
<1>9. CASE EnsurePreviewDeployment
  <2>1. /\ UNCHANGED <<api, services>>
        /\ \A s \in Live : deployments'[s] = deployments[s]
        /\ DOMAIN deployments' = Live' \cup Preview' /\ Live' = Live
    BY <1>9, PreviewApart, EnsurePreviewDeploymentDoes
  <2>2. Ingress' = Ingress
    BY <2>1 DEF Ingress
  <2>3. CASE Ingress \in Live
    BY <1>4, <2>1, <2>2, <2>3
  <2>4. CASE Ingress \in Preview
    <3>1. Ingress = api.preview /\ Overridden
      BY <1>1, <1>2, <1>3, <1>4, <2>4 DEF Named, Selected, Overridden
    <3>2. InRollout' /\ Overridden'
      BY <1>3, <2>1, <3>1 DEF InRollout, Overridden
    <3>3. QED
      BY <1>2, <2>1, <2>2, <3>1, <3>2 DEF Backed
  <2>5. QED
    BY <1>4, <2>3, <2>4, LivePreview
<1>10. CASE LabelPreviewLive
  BY <1>4, <1>10, LabelPreviewLiveDoes DEF Ingress
<1>11. CASE ReduceLiveDeployments
  <2>1. Ingress = api.selector /\ api.selector \in Live /\ \A s \in Live : s <= api.selector
    BY <1>1, <1>2, <1>3, <1>11 DEF ReduceLiveDeployments, Positions, Closing, Newest
  <2>2. PICK m \in Live : Live' = {m} /\ \A s \in Live : s <= m
    BY <1>11, ReducesTwo, ReduceLiveDeploymentsDoes
  <2>3. m \in Nat /\ api.selector \in Nat
    BY <2>1, LivePreview
  <2>4. m = api.selector
    BY <2>1, <2>2, <2>3
  <2>5. /\ Ingress' = Ingress /\ DOMAIN deployments' = Live' \cup Preview'
        /\ \A s \in DOMAIN deployments' : deployments'[s] = deployments[s]
    BY <1>11, ReducesTwo, ReduceLiveDeploymentsDoes DEF Ingress
  <2>6. QED
    BY <1>4, <2>1, <2>2, <2>4, <2>5
<1>12. CASE EnsureLiveServices
  <2>1. deployments' = deployments /\ copy.selector = api.selector
    BY <1>1, <1>12, EnsureServicesDoes DEF EnsureLiveServices, CopyFollows
  <2>2. CASE Ingress' = Ingress
    BY <1>4, <2>1, <2>2
  <2>3. CASE Ingress' = api.selector /\ Ingress # api.selector
    BY <1>2, <1>3, <1>4, <2>1, <2>3 DEF Selected, Backed, Overridden
  <2>4. QED
    BY <1>12, <2>1, <2>2, <2>3, EnsureServicesDoes DEF EnsureLiveServices, Ingress
<1>13. CASE EnsureLiveDeployment
  <2>1. Ingress' = Ingress /\ pc = "deployment" /\ ~TwoLive
    BY <1>1, <1>3, <1>13, EnsureLiveDeploymentDoes DEF Ingress, Held, Promoting
  <2>2. Live # {}
    BY <1>1, <1>4, LivePreview DEF LiveFirst
  <2>3. /\ DOMAIN deployments' = DOMAIN deployments
        /\ \A s \in Preview : deployments'[s] = deployments[s]
        /\ \A s \in Live : deployments'[s].replicas \in {1, deployments[s].replicas}
    BY <1>13, <2>1, <2>2, EnsureLiveDeploymentDoes
  <2>4. QED
    BY <1>4, <2>1, <2>3, LivePreview
<1>14. ASSUME NEW s \in DOMAIN deployments, PodsReplaced(s) \/ PodsReady(s) \/ PodsFail(s)
       PROVE  Ingress' \in DOMAIN deployments' /\ deployments'[Ingress'].replicas # 0
  BY <1>4, <1>14, PodsDo DEF KeepsLabels, Ingress
<1>15. UNCHANGED <<deployments, services>> \/ PrunePreview \/ EnsurePreviewServices \/ EnsurePreviewDeployment
         \/ LabelPreviewLive \/ ReduceLiveDeployments \/ EnsureLiveServices \/ EnsureLiveDeployment
         \/ \E s \in DOMAIN deployments : PodsReplaced(s) \/ PodsReady(s) \/ PodsFail(s)
  BY ReconcileStartDoes, PruneRolloutStatusDoes, EnsureLiveReadyStatusDoes, InitSelectorInRolloutStatusDoes,
     EnsureRolloutStartedDoes, DecidePromotionDoes, PreviewSelectorOverridesLiveDoes, WaitForLiveServicesDoes,
     ClearRolloutSelectorDoes, SetPromotionDoneDoes, ResetPromoteWhenReadyDoes, InitStatusDoes,
     EnsureReadyStatusDoes, ReconcileFailsDoes, UserDoes
     DEF Next, ReconcileStep
<1>16. QED
  BY <1>6, <1>7, <1>8, <1>9, <1>10, <1>11, <1>12, <1>13, <1>14, <1>15

\* Under a rollout the live ingress Service, once it selects a Deployment with
\* replicas, goes on doing so: through the promotion, the deletion of the old
\* Deployment, a new edit of the spec and a failure of any call between them.
THEOREM TrafficKept == Spec => TrafficServed
<1>1. TypeOK /\ RolloutInv /\ TrafficInv /\ [Next]_vars => [api'.rollout /\ Serving => Serving']_vars
  BY StepServes
<1>2. QED
  BY <1>1, TypeCorrect, RolloutInvariance, TrafficInvariance, PTL DEF Spec, TrafficServed

=============================================================================
