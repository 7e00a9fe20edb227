---------------------------- MODULE ControlPlane ----------------------------
(***************************************************************************)
(* The ControlPlane reconciler (controller/controlplane/controller.go)     *)
(* driving the multi-instance manager.  A ControlPlane's UID is the ID of  *)
(* its instance, so the two modules share the set IDs.                     *)
(*                                                                         *)
(* controller-runtime runs at most one Reconcile per object at a time; it  *)
(* reads the object from an informer cache that lags the API server.  The  *)
(* calls Reconcile makes to the manager are separate steps because the     *)
(* manager's lock is released between them.  An Update carries the         *)
(* resourceVersion that was read, so it fails unless the object is still   *)
(* the one that was read; it may also fail for any other reason.  A patch  *)
(* carries no resourceVersion, but it replaces the list of conditions, so  *)
(* whoever patches another condition writes back the Ready of his copy.    *)
(*                                                                         *)
(* A configuration stands for what is computed from the spec, the grants   *)
(* and the secrets.  InvalidConfigs are those of specs with options, watch *)
(* namespaces or extensions that the operator does not allow; Reconcile    *)
(* stops at them and leaves the instance alone.                            *)
(***************************************************************************)
EXTENDS MultiInstance

CONSTANTS InvalidConfigs, \* configurations whose options are not valid
          FailuresHappen, \* managers may return an error from Run
          MaxRestarts,    \* bound on restarts of the operator process
          MaxOutages,     \* bound on how often prerequisites go away
          MaxEdits        \* bound on edits and deletions of the objects

ASSUME FailuresHappenAssumption == FailuresHappen \in BOOLEAN
ASSUME CPBoundsAssumption == MaxRestarts \in Nat /\ MaxOutages \in Nat /\ MaxEdits \in Nat
ASSUME ConfigsAssumption == Configs # {}

VARIABLES
  obj,       \* ControlPlane objects in the API server
  cache,     \* the same in the informer cache
  ready,     \* their Ready condition in the API server
  readyCache,  \* the same in the informer cache
  unseen,    \* objects that changed since the informer's last event of them
  view,      \* the copy Reconcile works on
  readyView, \* its Ready condition
  cpc,       \* program counter of Reconcile
  dirty,     \* the controller's workqueue
  met,       \* ControlPlanes whose DataPlane, Services, extension and secrets
             \*   are there and in their status
  restarts,  \* restarts of the operator so far
  outages,   \* how often prerequisites went away so far
  edits      \* edits and deletions so far

statusVars == <<ready, readyCache, unseen>>
envVars == <<met, restarts, outages, edits>>
cpVars  == <<obj, cache, ready, readyCache, unseen, view, readyView, cpc, dirty,
             met, restarts, outages, edits>>
allVars == <<vars, cpVars>>

Phases == {"none", "live", "deleting", "gone"}
Objects == [phase : Phases, fin : BOOLEAN, spec : Configs]
CPStates == {"idle", "stop", "removeFinalizer", "addFinalizer", "checkReady",
             "compareHash", "stopOutdated", "schedule", "sending",
             "patchNotReady", "patchReady"}

\* Types, and the API server's rule that a deleted object is there exactly as
\* long as it has a finalizer.
CPTypeOK ==
  /\ TypeOK
  /\ obj \in [IDs -> Objects]
  /\ cache \in [IDs -> Objects]
  /\ ready \in [IDs -> BOOLEAN]
  /\ readyCache \in [IDs -> BOOLEAN]
  /\ unseen \in SUBSET IDs
  /\ view \in [IDs -> Objects]
  /\ readyView \in [IDs -> BOOLEAN]
  /\ cpc \in [IDs -> CPStates]
  /\ dirty \in SUBSET IDs
  /\ met \in SUBSET IDs
  /\ restarts \in 0..MaxRestarts /\ outages \in 0..MaxOutages /\ edits \in 0..MaxEdits
  /\ \A id \in IDs : /\ obj[id].phase = "deleting" => obj[id].fin
                     /\ obj[id].phase \in {"none", "gone"} => ~obj[id].fin

\* An object that was not created yet.
NoObject == [phase |-> "none", fin |-> FALSE,
             spec |-> CHOOSE c \in Configs : TRUE]

CPInit ==
  /\ Init
  /\ obj = [i \in IDs |-> NoObject]
  /\ cache = obj
  /\ ready = [i \in IDs |-> FALSE]
  /\ readyCache = ready
  /\ unseen = {}
  /\ view = obj
  /\ readyView = ready
  /\ cpc = [i \in IDs |-> "idle"]
  /\ dirty = {}
  /\ met = {}
  /\ restarts = 0 /\ outages = 0 /\ edits = 0

Goto(id, l) == cpc' = [cpc EXCEPT ![id] = l] /\ UNCHANGED <<view, readyView, dirty>>

\* Reconcile returns; an error or a Result that asks for it queues id again.
Return(id) ==
  /\ cpc' = [cpc EXCEPT ![id] = "idle"]
  /\ view' = [view EXCEPT ![id] = NoObject]
  /\ readyView' = [readyView EXCEPT ![id] = FALSE]
  /\ UNCHANGED dirty

ReturnRequeue(id) ==
  /\ cpc' = [cpc EXCEPT ![id] = "idle"]
  /\ view' = [view EXCEPT ![id] = NoObject]
  /\ readyView' = [readyView EXCEPT ![id] = FALSE]
  /\ dirty' = dirty \cup {id}

-----------------------------------------------------------------------------
(* Users, the API server and the informer.                                 *)

UserCreate(id, c) ==
  /\ obj[id].phase = "none"
  /\ obj' = [obj EXCEPT ![id].phase = "live", ![id].spec = c]
  /\ unseen' = unseen \cup {id}
  /\ UNCHANGED <<vars, cache, ready, readyCache, view, readyView, cpc, dirty, envVars>>

UserEdit(id, c) ==
  /\ obj[id].phase = "live"
  /\ obj[id].spec # c
  /\ edits < MaxEdits
  /\ edits' = edits + 1
  /\ obj' = [obj EXCEPT ![id].spec = c]
  /\ unseen' = unseen \cup {id}
  /\ UNCHANGED <<vars, cache, ready, readyCache, view, readyView, cpc, dirty, met, restarts,
                 outages>>

\* An object with a finalizer stays, marked as deleted, until it is removed.
UserDelete(id) ==
  /\ obj[id].phase = "live"
  /\ edits < MaxEdits
  /\ edits' = edits + 1
  /\ obj' = [obj EXCEPT ![id].phase = IF obj[id].fin THEN "deleting" ELSE "gone"]
  /\ unseen' = unseen \cup {id}
  /\ UNCHANGED <<vars, cache, ready, readyCache, view, readyView, cpc, dirty, met, restarts,
                 outages>>

\* The informer receives a watch event, which also queues the object.
CacheSync(id) ==
  /\ id \in unseen
  /\ unseen' = unseen \ {id}
  /\ cache' = [cache EXCEPT ![id] = obj[id]]
  /\ readyCache' = [readyCache EXCEPT ![id] = ready[id]]
  /\ dirty' = dirty \cup {id}
  /\ UNCHANGED <<vars, obj, ready, view, readyView, cpc, envVars>>

\* Something that Reconcile waits for goes away, or an edit asks for another,
PrerequisiteLost(id) ==
  /\ id \in met /\ outages < MaxOutages
  /\ met' = met \ {id}
  /\ outages' = outages + 1
  /\ UNCHANGED <<vars, obj, cache, statusVars, view, readyView, cpc, dirty, restarts, edits>>

\* and is there, which queues the object: the DataPlane, the extension and the
\* grants are watched, the mTLS secret is owned, and what Reconcile writes into
\* the status is an event of the object itself.
PrerequisiteMet(id) ==
  /\ id \notin met
  /\ met' = met \cup {id}
  /\ dirty' = dirty \cup {id}
  /\ UNCHANGED <<vars, obj, cache, statusVars, view, readyView, cpc, restarts, outages, edits>>

-----------------------------------------------------------------------------
(* Reconcile.                                                              *)

\* Mutant: the instance is scheduled before the finalizer is there.
ReconcileStartWithoutFinalizer(id) ==
  /\ cpc[id] = "idle"
  /\ id \in dirty
  /\ dirty' = dirty \ {id}
  /\ view' = [view EXCEPT ![id] = cache[id]]
  /\ readyView' = [readyView EXCEPT ![id] = readyCache[id]]
  /\ cpc' = [cpc EXCEPT ![id] =
               CASE cache[id].phase = "deleting" -> "stop"
                 [] cache[id].phase = "live"     -> "checkReady"
                 [] OTHER                        -> "idle"]
  /\ UNCHANGED <<vars, obj, cache, statusVars, envVars>>

\* Reads the object and takes one of its ways; an object that is gone from the
\* cache is nothing to do.
ReconcileStart(id) ==
  /\ cpc[id] = "idle"
  /\ id \in dirty
  /\ dirty' = dirty \ {id}
  /\ view' = [view EXCEPT ![id] = cache[id]]
  /\ readyView' = [readyView EXCEPT ![id] = readyCache[id]]
  /\ cpc' = [cpc EXCEPT ![id] =
               CASE cache[id].phase = "deleting"           -> "stop"
                 [] cache[id].phase = "live" /\ cache[id].fin -> "checkReady"
                 [] cache[id].phase = "live"                -> "addFinalizer"
                 [] OTHER                                   -> "idle"]
  /\ UNCHANGED <<vars, obj, cache, statusVars, envVars>>

\* The status of an object is patched; one that is gone stays so.
PatchReady(id, value) ==
  IF obj[id].phase = "gone" THEN UNCHANGED <<ready, unseen>>
  ELSE ready' = [ready EXCEPT ![id] = value] /\ unseen' = unseen \cup {id}

\* A patch of conditions other than Ready.
WriteBack(id) == PatchReady(id, readyView[id])

\* ApplyExtensions patches a condition; the response replaces the copy.
ReconcilePatchCondition(id) ==
  /\ cpc[id] = "checkReady"
  /\ obj[id].phase # "gone"
  /\ WriteBack(id)
  /\ view' = [view EXCEPT ![id] = obj[id]]
  /\ UNCHANGED <<vars, obj, cache, readyCache, readyView, cpc, dirty, envVars>>

\* A call fails or something is not there yet, and the error queues the object
\* again; for an extension that is not there Reconcile returns without an error
\* and waits for the watch.  A status condition may have been set.
ReconcileReturnsEarly(id) ==
  /\ cpc[id] = "checkReady"
  /\ ReturnRequeue(id) \/ (id \notin met /\ Return(id))
  /\ WriteBack(id) \/ UNCHANGED <<ready, unseen>>
  /\ UNCHANGED <<vars, obj, cache, readyCache, envVars>>

\* The options or the extensions of the spec are not valid: Reconcile says so in
\* the status and stops.  Watch namespaces that are not allowed are an error.
ReconcileInvalid(id) ==
  /\ cpc[id] = "checkReady"
  /\ view[id].spec \in InvalidConfigs
  /\ Return(id) \/ ReturnRequeue(id)
  /\ WriteBack(id) \/ UNCHANGED <<ready, unseen>>
  /\ UNCHANGED <<vars, obj, cache, readyCache, envVars>>

\* A call of StopInstance: InstanceNotFoundError changes nothing.
StopInstanceFound(id) == LockFree /\ StopInstance(id)
StopInstanceNotFound(id) == LockFree /\ instances[id] = None /\ UNCHANGED vars

ReconcileStop(id) ==
  /\ cpc[id] = "stop"
  /\ StopInstanceFound(id) \/ StopInstanceNotFound(id)
  /\ Goto(id, "removeFinalizer")
  /\ UNCHANGED <<obj, cache, statusVars, envVars>>

\* The API server drops a deleted object with its last finalizer.
ReconcileRemoveFinalizer(id) ==
  /\ cpc[id] = "removeFinalizer"
  /\ view[id] = obj[id]
  /\ obj' = [obj EXCEPT ![id].fin = FALSE, ![id].phase = "gone"]
  /\ unseen' = unseen \cup {id}
  /\ Return(id)
  /\ UNCHANGED <<vars, cache, ready, readyCache, envVars>>

\* Mutant: the finalizer is written without the resourceVersion that was read.
ReconcileAddFinalizerBlind(id) ==
  /\ cpc[id] = "addFinalizer"
  /\ obj' = [obj EXCEPT ![id].fin = TRUE]
  /\ unseen' = unseen \cup {id}
  /\ ReturnRequeue(id)
  /\ UNCHANGED <<vars, cache, ready, readyCache, envVars>>

ReconcileAddFinalizer(id) ==
  /\ cpc[id] = "addFinalizer"
  /\ view[id] = obj[id]
  /\ obj' = [obj EXCEPT ![id].fin = TRUE]
  /\ unseen' = unseen \cup {id}
  /\ ReturnRequeue(id)
  /\ UNCHANGED <<vars, cache, ready, readyCache, envVars>>

\* Mutant: a failed Update is not retried.
ReconcileUpdateNotRetried(id) ==
  /\ cpc[id] \in {"removeFinalizer", "addFinalizer"}
  /\ Return(id)
  /\ UNCHANGED <<vars, obj, cache, statusVars, envVars>>

\* The Update of either finalizer fails: a conflict, NotFound or any error.
ReconcileUpdateFails(id) ==
  /\ cpc[id] \in {"removeFinalizer", "addFinalizer"}
  /\ ReturnRequeue(id)
  /\ UNCHANGED <<vars, obj, cache, statusVars, envVars>>

ReconcileCheckReady(id) ==
  /\ cpc[id] = "checkReady"
  /\ id \in met /\ view[id].spec \notin InvalidConfigs
  /\ LockFree
  /\ Goto(id, IF instances[id] = None THEN "schedule"
              ELSE IF IsInstanceReady(id) THEN "compareHash" ELSE "patchNotReady")
  /\ UNCHANGED <<vars, obj, cache, statusVars, envVars>>

\* Mutant: the hashes are not compared.
ReconcileCompareNothing(id) ==
  /\ cpc[id] = "compareHash"
  /\ LockFree
  /\ Goto(id, "patchReady")
  /\ UNCHANGED <<vars, obj, cache, statusVars, envVars>>

\* GetInstanceConfigHash may find that the instance left the map meanwhile.
ReconcileCompareHash(id) ==
  /\ cpc[id] = "compareHash"
  /\ LockFree
  /\ IF instances[id] = None
       THEN ReturnRequeue(id)
       ELSE Goto(id, IF GetInstanceConfigHash(id) = view[id].spec
                       THEN "patchReady" ELSE "stopOutdated")
  /\ UNCHANGED <<vars, obj, cache, statusVars, envVars>>

\* Mutant: the outdated instance is not stopped before the new one is scheduled.
ReconcileKeepOutdated(id) ==
  /\ cpc[id] = "stopOutdated"
  /\ Goto(id, "schedule")
  /\ UNCHANGED <<vars, obj, cache, statusVars, envVars>>

ReconcileStopOutdated(id) ==
  /\ cpc[id] = "stopOutdated"
  /\ \/ StopInstanceFound(id) /\ Goto(id, "schedule")
     \/ StopInstanceNotFound(id) /\ ReturnRequeue(id)
  /\ UNCHANGED <<obj, cache, statusVars, envVars>>

ReconcileSchedule(id, h) ==
  /\ cpc[id] = "schedule"
  /\ ScheduleInstance(id, h, view[id].spec)
  /\ Goto(id, "sending")
  /\ UNCHANGED <<obj, cache, statusVars, envVars>>

\* InstanceWithIDAlreadyScheduledError: the stopped instance has not left the
\* map yet; the error makes controller-runtime retry.
ReconcileAlreadyScheduled(id) ==
  /\ cpc[id] = "schedule"
  /\ LockFree
  /\ instances[id] # None
  /\ ReturnRequeue(id)
  /\ UNCHANGED <<vars, obj, cache, statusVars, envVars>>

\* NewManager fails: no endpoints or no client is ready yet.
ReconcileNewManagerFails(id) ==
  /\ cpc[id] = "schedule"
  /\ Goto(id, "patchNotReady")
  /\ UNCHANGED <<vars, obj, cache, statusVars, envVars>>

\* ScheduleInstance returns once its send has completed.
ReconcileScheduled(id) ==
  /\ cpc[id] = "sending"
  /\ blocked # id
  /\ Goto(id, "patchNotReady")
  /\ UNCHANGED <<vars, obj, cache, statusVars, envVars>>

\* patchStatus compares with the cached object, and patches without a
\* resourceVersion; the object may be gone.  SetReady says TRUE only if all other
\* conditions do, the one about the grants too.  Reconcile asks to run again only
\* if the instance is not ready.
ReconcilePatchStatus(id) ==
  /\ cpc[id] \in {"patchNotReady", "patchReady"}
  /\ \E new \in IF cpc[id] = "patchReady" THEN BOOLEAN ELSE {FALSE} :
       IF readyCache[id] = new THEN UNCHANGED <<ready, unseen>> ELSE PatchReady(id, new)
  /\ IF cpc[id] = "patchReady" THEN Return(id) ELSE ReturnRequeue(id)
  /\ UNCHANGED <<vars, obj, cache, readyCache, envVars>>

ReconcilePatchStatusFails(id) ==
  /\ cpc[id] \in {"patchNotReady", "patchReady"}
  /\ ReturnRequeue(id)
  /\ UNCHANGED <<vars, obj, cache, statusVars, envVars>>

ReconcileStep(id) ==
  \/ ReconcileStart(id)
  \/ ReconcilePatchCondition(id)
  \/ ReconcileReturnsEarly(id)
  \/ ReconcileInvalid(id)
  \/ ReconcileStop(id)
  \/ ReconcileRemoveFinalizer(id)
  \/ ReconcileAddFinalizer(id)
  \/ ReconcileUpdateFails(id)
  \/ ReconcileCheckReady(id)
  \/ ReconcileCompareHash(id)
  \/ ReconcileStopOutdated(id)
  \/ \E h \in Handles : ReconcileSchedule(id, h)
  \/ ReconcileAlreadyScheduled(id)
  \/ ReconcileNewManagerFails(id)
  \/ ReconcileScheduled(id)
  \/ ReconcilePatchStatus(id)
  \/ ReconcilePatchStatusFails(id)

-----------------------------------------------------------------------------
\* The operator process dies with all its instances and starts again; its
\* informer lists the objects anew.
OperatorRestart ==
  /\ restarts < MaxRestarts
  /\ restarts' = restarts + 1
  /\ instances' = [i \in IDs |-> None]
  /\ queue' = << >>
  /\ blocked' = None
  /\ hid' = [h \in Handles |-> None]
  /\ hcfg' = [h \in Handles |-> None]
  /\ stopCh' = {}
  /\ run' = [h \in Handles |-> "idle"]
  /\ sync' = [h \in Handles |-> "waiting"]
  /\ gpc' = [g \in Gors |-> "free"]
  /\ gid' = [g \in Gors |-> None]
  /\ gobj' = [g \in Gors |-> None]
  /\ diag' = [i \in IDs |-> None]
  /\ validators' = [i \in IDs |-> None]
  /\ cache' = obj
  /\ readyCache' = ready
  /\ unseen' = {}
  /\ view' = [i \in IDs |-> NoObject]
  /\ readyView' = [i \in IDs |-> FALSE]
  /\ cpc' = [i \in IDs |-> "idle"]
  /\ dirty' = IDs
  /\ UNCHANGED <<obj, ready, met, outages, edits, ctxVars>>

InstanceFails(h) == FailuresHappen /\ InstanceFail(h)

CPNext ==
  \/ \E id \in IDs, c \in Configs : UserCreate(id, c) \/ UserEdit(id, c)
  \/ \E id \in IDs : UserDelete(id)
  \/ \E id \in IDs : CacheSync(id)
  \/ \E id \in IDs : PrerequisiteLost(id)
  \/ \E id \in IDs : PrerequisiteMet(id)
  \/ \E id \in IDs : ReconcileStep(id)
  \/ OperatorRestart
  \/ ManagerStep /\ UNCHANGED cpVars
  \/ \E h \in Handles : InstanceElected(h) /\ UNCHANGED cpVars
  \/ \E h \in Handles : InstanceApplied(h) /\ UNCHANGED cpVars
  \/ \E h \in Handles : InstanceFails(h) /\ UNCHANGED cpVars

\* Reconciles are retried or triggered by watches and requeues until they
\* need not be; what Reconcile waits for arrives; failing calls of the API server
\* and of NewManager do not fail for ever (strong fairness of what comes after
\* them; an invalid spec disables ReconcileCheckReady); goroutines that can run do.
CPFairness ==
  /\ \A id \in IDs :
       /\ WF_allVars(CacheSync(id))
       /\ WF_allVars(PrerequisiteMet(id))
       /\ WF_allVars(ReconcileStep(id))
       /\ SF_allVars(ReconcileRemoveFinalizer(id) \/ ReconcileAddFinalizer(id))
       /\ SF_allVars(ReconcileCheckReady(id))
       /\ SF_allVars(\E h \in Handles : ReconcileSchedule(id, h))
  /\ WF_allVars(ScheduleUnblock /\ UNCHANGED cpVars)
  /\ \A g \in Gors :
       /\ WF_allVars(StartReceive(g) /\ UNCHANGED cpVars)
       /\ SF_allVars((RunInstanceLookup(g) \/ RunInstanceStopped(g)) /\ UNCHANGED cpVars)
       /\ WF_allVars(RunInstanceSpawn(g) /\ UNCHANGED cpVars)
       /\ WF_allVars(RunInstanceRegister(g) /\ UNCHANGED cpVars)
  /\ \A h \in Handles :
       /\ WF_allVars(InstanceCancel(h) /\ UNCHANGED cpVars)
       /\ WF_allVars(InstanceExit(h) /\ UNCHANGED cpVars)

\* Every running instance is elected and has its first configuration applied.
InstancesBecomeReady ==
  \A h \in Handles :
    /\ WF_allVars(InstanceElected(h) /\ UNCHANGED cpVars)
    /\ WF_allVars(InstanceApplied(h) /\ UNCHANGED cpVars)

CPSpec == CPInit /\ [][CPNext]_allVars
CPFairSpec == CPSpec /\ CPFairness
CPReadySpec == CPFairSpec /\ InstancesBecomeReady

-----------------------------------------------------------------------------
(* Properties.                                                             *)

\* The teardown finalizer does its work: when the ControlPlane object is gone,
\* no instance of it is scheduled or running that was not told to stop,
\* whatever stale copy of the object Reconcile was working on.
NoInstanceOfGoneControlPlane ==
  \A id \in IDs :
    obj[id].phase = "gone" =>
      /\ instances[id] = None \/ instances[id] \in stopCh
      /\ \A h \in Handles :
           hid[h] = id /\ run[h] \in {"spawned", "running"} => h \in stopCh
      /\ validators[id] = None

\* Reconcile never finds a ControlPlane Ready while the manager holds an instance
\* with another configuration than the one computed from the spec that was read,
\* although readiness, hash and status are looked at in separate steps.  (A patch
\* of another condition may still bring back the Ready of an older copy.)
NotReadyForOtherSpec ==
  [][\A id \in IDs :
       cpc[id] = "patchReady" /\ ~ready[id] /\ ready'[id]
         => instances[id] = None \/ hcfg[instances[id]] = view[id].spec]_allVars

\* A deleted ControlPlane goes away and its instances stop, whether or not they
\* ever became ready, and when the operator restarts half way.
DeletionCompletes ==
  \A id \in IDs :
    (obj[id].phase = "deleting") ~>
      /\ obj[id].phase = "gone"
      /\ \A h \in Handles : hid[h] = id => run[h] \in {"idle", "exited"}

\* "Reconcile moves the current state of an object to the intended state": an
\* instance does not stay for ever with another configuration than the spec's
\* once the spec has stopped changing, if it is valid (at an invalid one the
\* reconciliation stops and the old instance goes on) and if instances become
\* ready (Reconcile does not look at the configuration of one that does not).
OutdatedInstanceReplaced ==
  \A id \in IDs, c \in Configs \ InvalidConfigs :
    <>[](obj[id].phase = "live" /\ obj[id].spec = c)
      => []<>(instances[id] = None \/ hcfg[instances[id]] = c)
=============================================================================
