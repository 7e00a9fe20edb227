-------------------------- MODULE KonnectSyncProofs --------------------------
(***************************************************************************)
(* Proofs about KonnectSync, for any configurations and any numbers of     *)
(* changes, goroutines under way and failures.                             *)
(*                                                                         *)
(* The hash is set in the step that ends a successful upload and in no     *)
(* other; an upload that fails may change Konnect, and then it is torn.    *)
(* The content whose upload is under way is the one that was decided upon, *)
(* whatever is handed over meanwhile.                                      *)
(***************************************************************************)
EXTENDS KonnectSync, TLAPS

\* The inductive invariant.
SyncInv == TypeOK /\ SHATellsTruth

\* Nothing was uploaded at the start.
LEMMA SyncInit == Init => SyncInv
  <1> SUFFICES ASSUME Init PROVE SyncInv
    OBVIOUS
  <1>1. /\ 0 \in 0..MaxChanges /\ 0 \in 0..MaxInFlight
        /\ 0 \in 0..MaxUpdateFailures /\ 0 \in 0..MaxUploadFailures
    BY BoundsAssumption
  <1>2. flying \in [Contents -> 0..MaxInFlight] /\ NoNotes \in [BOOLEAN -> 0..MaxInFlight]
    BY <1>1 DEF Init, NoNotes
  <1>3. TypeOK
    BY <1>1, <1>2, ContentsAssumption DEF Init, TypeOK
  <1>4. QED BY <1>3, ContentsAssumption DEF Init, SyncInv, SHATellsTruth

\* One more goroutine is under way, and no more than there may be.
LEMMA PostType ==
  ASSUME NEW S, NEW notes \in [S -> 0..MaxInFlight], NEW b \in S, notes[b] < MaxInFlight
  PROVE  [notes EXCEPT ![b] = @ + 1] \in [S -> 0..MaxInFlight]
  <1>1. notes[b] + 1 \in 0..MaxInFlight
    BY BoundsAssumption
  <1>2. QED BY <1>1

\* One goroutine less.
LEMMA TakeType ==
  ASSUME NEW S, NEW notes \in [S -> 0..MaxInFlight], NEW b \in S, notes[b] > 0
  PROVE  [notes EXCEPT ![b] = @ - 1] \in [S -> 0..MaxInFlight]
  <1>1. notes[b] - 1 \in 0..MaxInFlight
    BY BoundsAssumption
  <1>2. QED BY <1>1

\* The steps of the gateways and of the hand-over do not reach Konnect.
LEMMA HandoverInv ==
  ASSUME SyncInv,
         \/ \E c \in Contents : WantedChanges(c) \/ UpdateKongState(c)
         \/ UpdateSucceeds \/ UpdateFails
  PROVE  SyncInv'
  <1>0. TypeOK
    BY DEF SyncInv
  <1>1. /\ UNCHANGED <<client, sha, uploading, backoffVars, remoteVars, konnectNotes, agentVars>>
        /\ fallback' = fallback
    BY DEF WantedChanges, UpdateKongState, UpdateSucceeds, UpdateFails
  <1>2. gatewayNotes' \in [BOOLEAN -> 0..MaxInFlight]
    <2>1. gatewayNotes \in [BOOLEAN -> 0..MaxInFlight]
      BY <1>0 DEF TypeOK
    <2>2. \/ gatewayNotes' = gatewayNotes
          \/ \E b \in BOOLEAN : /\ gatewayNotes[b] < MaxInFlight
                                /\ gatewayNotes' = [gatewayNotes EXCEPT ![b] = @ + 1]
      BY DEF WantedChanges, UpdateKongState, UpdateSucceeds, UpdateFails, Post
    <2>3. QED BY <2>1, <2>2, PostType
  <1>3. flying' \in [Contents -> 0..MaxInFlight]
    <2>1. flying \in [Contents -> 0..MaxInFlight] /\ wanted \in Contents
      BY <1>0 DEF TypeOK
    <2>2. \/ flying' = flying
          \/ flying[wanted] < MaxInFlight /\ flying' = [flying EXCEPT ![wanted] = @ + 1]
          \/ \E c \in Contents : flying[c] > 0 /\ flying' = [flying EXCEPT ![c] = @ - 1]
      BY DEF WantedChanges, UpdateKongState, UpdateSucceeds, UpdateFails
    <2>3. QED BY <2>1, <2>2, PostType, TakeType
  <1>4. /\ changes' \in 0..MaxChanges /\ updateFailures' \in 0..MaxUpdateFailures
        /\ wanted' \in Contents /\ handed' \in BOOLEAN
        /\ targetKongState' \in Contents \cup {None}
    <2>1. /\ changes' = changes \/ (changes < MaxChanges /\ changes' = changes + 1)
          /\ \/ updateFailures' = updateFailures
             \/ updateFailures < MaxUpdateFailures /\ updateFailures' = updateFailures + 1
      BY DEF WantedChanges, UpdateKongState, UpdateSucceeds, UpdateFails
    <2>2. /\ wanted' = wanted \/ wanted' \in Contents
          /\ handed' = handed \/ handed' \in BOOLEAN
          /\ targetKongState' = targetKongState \/ targetKongState' \in Contents
      BY DEF WantedChanges, UpdateKongState, UpdateSucceeds, UpdateFails
    <2>3. changes' \in 0..MaxChanges /\ updateFailures' \in 0..MaxUpdateFailures
      BY <1>0, <2>1, BoundsAssumption DEF TypeOK
    <2>4. QED BY <1>0, <2>2, <2>3 DEF TypeOK
  <1>5. TypeOK'
    BY <1>0, <1>1, <1>2, <1>3, <1>4 DEF TypeOK, backoffVars, remoteVars, agentVars
  <1>6. QED BY <1>1, <1>5 DEF SyncInv, SHATellsTruth, remoteVars

\* Start, the ticks and the timer change neither Konnect nor the hash; an upload
\* begins with the content that was last handed over.
LEMMA TickInv ==
  ASSUME SyncInv, Start \/ Tick \/ BackoffElapses
  PROVE  SyncInv'
  <1>0. TypeOK
    BY DEF SyncInv
  <1>1. UNCHANGED <<handoverVars, targetKongState, sha, lastFailedConfigHash, remoteVars,
                    gatewayNotes, agentVars>>
    BY DEF Start, Tick, TickUnchanged, TickSkipped, TickUpload, BackoffElapses, backoffVars
  <1>2. konnectNotes' \in [BOOLEAN -> 0..MaxInFlight]
    <2>1. konnectNotes \in [BOOLEAN -> 0..MaxInFlight]
      BY <1>0 DEF TypeOK
    <2>2. \/ konnectNotes' = konnectNotes
          \/ \E b \in BOOLEAN : /\ konnectNotes[b] < MaxInFlight
                                /\ konnectNotes' = [konnectNotes EXCEPT ![b] = @ + 1]
      BY DEF Start, Tick, TickUnchanged, TickSkipped, TickUpload, BackoffElapses, Post
    <2>3. QED BY <2>1, <2>2, PostType
  <1>3. /\ client' \in {"none", "ready", "failed"} /\ waiting' \in BOOLEAN
        /\ uploading' \in Contents \cup {None}
    BY <1>0
    DEF Start, Tick, TickUnchanged, TickSkipped, TickUpload, Ticking, BackoffElapses,
        backoffVars, TypeOK
  <1>4. TypeOK'
    BY <1>0, <1>1, <1>2, <1>3 DEF TypeOK, handoverVars, remoteVars, agentVars
  <1>5. QED BY <1>1, <1>4 DEF SyncInv, SHATellsTruth, remoteVars

\* An upload that succeeds makes Konnect and the hash agree.
LEMMA UploadSucceedsInv ==
  ASSUME SyncInv, UploadSucceeds
  PROVE  SyncInv'
  <1>0. TypeOK
    BY DEF SyncInv
  <1>1. konnectNotes' \in [BOOLEAN -> 0..MaxInFlight]
    <2>1. konnectNotes \in [BOOLEAN -> 0..MaxInFlight]
      BY <1>0 DEF TypeOK
    <2>2. konnectNotes[FALSE] < MaxInFlight
          /\ konnectNotes' = [konnectNotes EXCEPT ![FALSE] = @ + 1]
      BY DEF UploadSucceeds, Post
    <2>3. QED BY <2>1, <2>2, PostType
  <1>2. TypeOK'
    BY <1>0, <1>1 DEF UploadSucceeds, TypeOK, handoverVars, agentVars
  <1>3. QED BY <1>2 DEF UploadSucceeds, SyncInv, SHATellsTruth

\* An upload that fails leaves the hash, and Konnect as it is unless it is torn.
LEMMA UploadFailsInv ==
  ASSUME SyncInv, UploadRefused \/ UploadRateLimited \/ UploadBreaks
  PROVE  SyncInv'
  <1>0. TypeOK
    BY DEF SyncInv
  <1>1. PICK outcomes, lastFailed :
          /\ UploadFails(outcomes, lastFailed)
          /\ outcomes \subseteq {konnect, Torn, uploading}
          /\ lastFailed \in {None, uploading, lastFailedConfigHash}
    BY DEF UploadRefused, UploadRateLimited, UploadBreaks
  <1>2. uploadFailures' \in 0..MaxUploadFailures
    <2>1. \/ uploadFailures' = uploadFailures
          \/ uploadFailures < MaxUploadFailures /\ uploadFailures' = uploadFailures + 1
      BY DEF UploadRefused, UploadRateLimited, UploadBreaks
    <2>2. QED BY <1>0, <2>1, BoundsAssumption DEF TypeOK
  <1>3. konnectNotes' \in [BOOLEAN -> 0..MaxInFlight]
    <2>1. konnectNotes \in [BOOLEAN -> 0..MaxInFlight]
      BY <1>0 DEF TypeOK
    <2>2. konnectNotes[TRUE] < MaxInFlight
          /\ konnectNotes' = [konnectNotes EXCEPT ![TRUE] = @ + 1]
      BY <1>1 DEF UploadFails, Post
    <2>3. QED BY <2>1, <2>2, PostType
  <1>4. /\ uploading # None /\ uploading' = None /\ konnect' \in outcomes
        /\ torn' = (torn \/ konnect' # konnect) /\ waiting' = TRUE
        /\ lastFailedConfigHash' = lastFailed
        /\ UNCHANGED <<handoverVars, targetKongState, client, sha, gatewayNotes, agentVars>>
    BY <1>1 DEF UploadFails
  <1>5. konnect' \in Contents \cup {None, Torn} /\ refused' \in SUBSET Contents
    <2>1. refused' \in {refused \cup {uploading}, refused \ {uploading}}
      BY DEF UploadRefused, UploadRateLimited, UploadBreaks
    <2>2. QED BY <1>0, <1>1, <1>4, <2>1 DEF TypeOK
  <1>6. TypeOK'
    BY <1>0, <1>1, <1>2, <1>3, <1>4, <1>5 DEF TypeOK, handoverVars, agentVars
  <1>7. QED BY <1>4, <1>5, <1>6 DEF SyncInv, SHATellsTruth

\* Notifications reach the node agent or are dropped.
LEMMA StatusInv ==
  ASSUME SyncInv, NEW b \in BOOLEAN,
         GatewayStatusArrives(b) \/ KonnectStatusArrives(b) \/ StatusTimesOut(b)
  PROVE  SyncInv'
  <1>0. TypeOK
    BY DEF SyncInv
  <1>1. /\ UNCHANGED <<handoverVars, targetKongState, client, sha, uploading, backoffVars,
                       remoteVars>>
        /\ gatewayFailed' \in BOOLEAN /\ konnectFailed' \in BOOLEAN
    BY <1>0 DEF GatewayStatusArrives, KonnectStatusArrives, StatusTimesOut, agentVars, TypeOK
  <1>2. /\ gatewayNotes' \in [BOOLEAN -> 0..MaxInFlight]
        /\ konnectNotes' \in [BOOLEAN -> 0..MaxInFlight]
    <2>1. /\ gatewayNotes \in [BOOLEAN -> 0..MaxInFlight]
          /\ konnectNotes \in [BOOLEAN -> 0..MaxInFlight]
      BY <1>0 DEF TypeOK
    <2>2. /\ \/ gatewayNotes' = gatewayNotes
             \/ gatewayNotes[b] > 0 /\ gatewayNotes' = [gatewayNotes EXCEPT ![b] = @ - 1]
          /\ \/ konnectNotes' = konnectNotes
             \/ konnectNotes[b] > 0 /\ konnectNotes' = [konnectNotes EXCEPT ![b] = @ - 1]
      BY DEF GatewayStatusArrives, KonnectStatusArrives, StatusTimesOut
    <2>3. QED BY <2>1, <2>2, TakeType
  <1>3. TypeOK'
    BY <1>0, <1>1, <1>2 DEF TypeOK, handoverVars, backoffVars, remoteVars
  <1>4. QED BY <1>1, <1>3 DEF SyncInv, SHATellsTruth, remoteVars

\* The inductive invariant holds in every reachable state.
THEOREM SyncInvariance == Spec => []SyncInv
  <1>1. SyncInv /\ UNCHANGED vars => SyncInv'
    BY DEF SyncInv, TypeOK, SHATellsTruth, vars, handoverVars, backoffVars, remoteVars, agentVars
  <1>2. SyncInv /\ [Next]_vars => SyncInv'
    BY <1>1, HandoverInv, TickInv, UploadSucceedsInv, UploadFailsInv, StatusInv
    DEF Next, Tick
  <1>3. QED BY SyncInit, <1>2, PTL DEF Spec

\* The variables of the synchronisation keep their types.
THEOREM SyncTypeCorrect == Spec => []TypeOK
  BY SyncInvariance, PTL DEF SyncInv

\* The hash of the last successful upload describes what Konnect has, unless an
\* upload that failed later changed it.
THEOREM SHAIsTruth == Spec => []SHATellsTruth
  BY SyncInvariance, PTL DEF SyncInv
=============================================================================
