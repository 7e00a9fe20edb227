------------------------- MODULE ControlPlaneProofs -------------------------
(***************************************************************************)
(* Proofs about ControlPlane, for any number of ControlPlanes, instances,  *)
(* configurations and restarts.                                            *)
(*                                                                         *)
(* The reconciler works on copies of an object that may be out of date     *)
(* and its calls to the manager interleave with everything the manager     *)
(* does.  That nothing is scheduled for an object that is gone rests on    *)
(* two facts.  A copy that is live and has the finalizer is never older    *)
(* than the removal of the finalizer, because only a Reconcile that has    *)
(* seen the deletion removes it (CopiesTrail).  And there is one Reconcile *)
(* per object at a time, so nobody schedules between its StopInstance and  *)
(* its Update (StoppedBeforeRemoval).                                      *)
(***************************************************************************)
EXTENDS ControlPlane, MultiInstanceProofs

\* The states of Reconcile behind the check of the finalizer.
Enforcing == {"checkReady", "compareHash", "stopOutdated", "schedule", "sending",
              "patchNotReady", "patchReady"}

\* What the cache says of the object.
CopiesTrail ==
  \A id \in IDs :
    /\ cache[id].phase = "deleting" => obj[id].phase \in {"deleting", "gone"}
    /\ cache[id].phase = "gone" => obj[id].phase = "gone"
    /\ cache[id].phase = "live" /\ cache[id].fin => obj[id].fin

\* What is known of the object where Reconcile stands.
StageKnows ==
  \A id \in IDs :
    /\ cpc[id] \in {"stop", "removeFinalizer"}
         => view[id].phase = "deleting" /\ cache[id].phase \in {"deleting", "gone"}
    /\ cpc[id] = "addFinalizer" => view[id].phase = "live"
    /\ cpc[id] \in Enforcing => obj[id].fin

Unstopped(id) == instances[id] # None /\ instances[id] \notin stopCh

\* An instance that was not told to stop belongs to an object that still has
\* its finalizer.
UnstoppedHasFinalizer ==
  \A id \in IDs : Unstopped(id) => obj[id].fin

\* When the finalizer is about to be removed the instance was told to stop.
StoppedBeforeRemoval ==
  \A id \in IDs : cpc[id] = "removeFinalizer" => ~Unstopped(id)

\* From the comparison of the hashes to the patch of the status the manager
\* holds no instance with another configuration.
ReadyMatchesView ==
  \A id \in IDs :
    cpc[id] = "patchReady"
      => instances[id] = None \/ hcfg[instances[id]] = view[id].spec

CPInv == /\ IInv
         /\ CPTypeOK
         /\ CopiesTrail
         /\ StageKnows
         /\ UnstoppedHasFinalizer
         /\ StoppedBeforeRemoval
         /\ ReadyMatchesView

-----------------------------------------------------------------------------
(* What the steps do to the manager.                                       *)

\* The reconciler changes the manager's state through its interface only: but
\* for a restart, every step is a step of the manager or leaves it alone.
LEMMA ManagerDriven ==
  ASSUME CPTypeOK, CPNext
  PROVE  [Next]_vars \/ OperatorRestart
  <1>1. ASSUME NEW id \in IDs, ReconcileStep(id) PROVE [Next]_vars
    <2>1. view[id].spec \in Configs
      BY DEF CPTypeOK, Objects
    <2>2. CASE ReconcileStop(id) \/ ReconcileStopOutdated(id)
      BY <2>2 DEF ReconcileStop, ReconcileStopOutdated, StopInstanceFound,
                  StopInstanceNotFound, Next
    <2>3. CASE \E h \in Handles : ReconcileSchedule(id, h)
      BY <2>1, <2>3 DEF ReconcileSchedule, Next
    <2>4. CASE UNCHANGED vars
      BY <2>4
    <2>5. QED
      BY <1>1, <2>2, <2>3, <2>4
      DEF ReconcileStep, ReconcileStart, ReconcilePatchCondition, ReconcileReturnsEarly,
          ReconcileInvalid, ReconcileRemoveFinalizer, ReconcileAddFinalizer, ReconcileUpdateFails, ReconcileCheckReady,
          ReconcileCompareHash, ReconcileAlreadyScheduled, ReconcileNewManagerFails,
          ReconcileScheduled, ReconcilePatchStatus, ReconcilePatchStatusFails
  <1>2. QED
    BY <1>1 DEF CPNext, UserCreate, UserEdit, UserDelete, CacheSync, PrerequisiteLost,
                PrerequisiteMet, InstanceFails, Next, InstanceStep

\* A restart leaves an empty manager behind.
LEMMA RestartEmpties ==
  ASSUME IInv, OperatorRestart
  PROVE  IInv'
  <1>1. EmptyManager'
    BY DEF OperatorRestart, EmptyManager, ctxVars, IInv, TypeOK
  <1>2. (EmptyManager => IInv)'
    BY EmptyIInv, PTL
  <1>3. QED BY <1>1, <1>2

\* By itself the manager only takes instances out of the map.
LEMMA ManagerOnlyRemoves ==
  ASSUME TypeOK, ManagerStep \/ InstanceStep
  PROVE  /\ stopCh' = stopCh /\ hcfg' = hcfg
         /\ \A id \in IDs : instances'[id] \in {None, instances[id]}
  <1>1. CASE \E g \in Gors : RunInstanceStopped(g)
    BY <1>1 DEF RunInstanceStopped, TypeOK
  <1>2. CASE ~\E g \in Gors : RunInstanceStopped(g)
    <2>1. stopCh' = stopCh /\ hcfg' = hcfg /\ instances' = instances
      BY <1>2
      DEF ManagerStep, InstanceStep, ScheduleUnblock, StartReturn, StartReceive,
          RunInstanceLookup, RunInstanceSpawn, RunInstanceRegister, RunInstanceCtxDone,
          InstanceStart, InstanceCancel, InstanceExit, SynchronizerStop, InstanceFail,
          InstanceElected, InstanceApplied, mgrVars
    <2>2. QED BY <2>1
  <1>3. QED BY <1>1, <1>2

\* StopInstance leaves nothing unstopped under its ID and changes no other.
LEMMA StopEffect ==
  ASSUME TypeOK, NEW id \in IDs, StopInstanceFound(id) \/ StopInstanceNotFound(id)
  PROVE  /\ instances' = instances /\ hcfg' = hcfg /\ ~Unstopped(id)'
         /\ \A k \in IDs : Unstopped(k)' => Unstopped(k)
  BY DEF StopInstanceFound, StopInstanceNotFound, StopInstance, Unstopped, vars, mgrVars

\* ScheduleInstance touches its own ID only: the handle it allocates is in
\* nobody's hands.
LEMMA ScheduleEffect ==
  ASSUME TypeOK, NEW id \in IDs, NEW h \in Handles, NEW c, ScheduleInstance(id, h, c)
  PROVE  \A k \in IDs \ {id} :
           /\ instances'[k] = instances[k]
           /\ instances[k] # None => hcfg'[instances[k]] = hcfg[instances[k]]
           /\ Unstopped(k)' => Unstopped(k)
  <1>1. ASSUME NEW k \in IDs, k # id
        PROVE  instances'[k] = instances[k] /\ instances[k] # h
    BY <1>1 DEF ScheduleInstance, Fresh, TypeOK
  <1>2. stopCh' = stopCh \ {h} /\ hcfg' = [hcfg EXCEPT ![h] = c]
    BY DEF ScheduleInstance, NewInstance
  <1>3. QED BY <1>1, <1>2 DEF Unstopped, TypeOK

-----------------------------------------------------------------------------
(* The inductive invariant.  CPCore is what it says of the reconciler.     *)

CPCore == /\ obj \in [IDs -> Objects]
          /\ cache \in [IDs -> Objects]
          /\ view \in [IDs -> Objects]
          /\ ready \in [IDs -> BOOLEAN]
          /\ readyCache \in [IDs -> BOOLEAN]
          /\ cpc \in [IDs -> CPStates]
          /\ unseen \in SUBSET IDs
          /\ readyView \in [IDs -> BOOLEAN]
          /\ dirty \in SUBSET IDs
          /\ met \in SUBSET IDs
          /\ restarts \in 0..MaxRestarts
          /\ outages \in 0..MaxOutages
          /\ edits \in 0..MaxEdits
          /\ \A id \in IDs : /\ obj[id].phase = "deleting" => obj[id].fin
                             /\ obj[id].phase \in {"none", "gone"} => ~obj[id].fin
          /\ CopiesTrail
          /\ StageKnows

\* The invariant without its manager part.
LEMMA CPInvParts ==
  CPInv <=> /\ IInv /\ CPCore
            /\ UnstoppedHasFinalizer /\ StoppedBeforeRemoval /\ ReadyMatchesView
  BY DEF CPInv, CPCore, CPTypeOK, IInv

\* An object that was not created is an object.
LEMMA NoObjectType == NoObject \in Objects /\ NoObject.phase = "none" /\ ~NoObject.fin
  BY ConfigsAssumption DEF NoObject, Objects, Phases

\* Nothing is created and nothing is cached when the operator is installed.
LEMMA CPInitInv == CPInit => CPInv
  <1> SUFFICES ASSUME CPInit PROVE CPInv
    OBVIOUS
  <1>1. IInv
    BY InitIInv DEF CPInit
  <1>2. CPCore
    BY NoObjectType, CPBoundsAssumption
    DEF CPInit, CPCore, CopiesTrail, StageKnows, CPStates, Enforcing
  <1>3. UnstoppedHasFinalizer /\ StoppedBeforeRemoval /\ ReadyMatchesView
    BY DEF CPInit, Init, UnstoppedHasFinalizer, StoppedBeforeRemoval, ReadyMatchesView,
           Unstopped
  <1>4. QED BY <1>1, <1>2, <1>3, CPInvParts

\* Users create, edit and delete objects; a finalizer is theirs neither to add
\* nor to remove.
LEMMA UserKeeps ==
  ASSUME CPInv, NEW id \in IDs,
         \/ \E c \in Configs : UserCreate(id, c) \/ UserEdit(id, c)
         \/ UserDelete(id)
  PROVE  CPCore' /\ UnstoppedHasFinalizer' /\ StoppedBeforeRemoval' /\ ReadyMatchesView'
  <1>0. IInv /\ CPCore /\ UnstoppedHasFinalizer /\ StoppedBeforeRemoval /\ ReadyMatchesView
    BY CPInvParts
  <1>1. /\ UNCHANGED <<vars, cache, ready, readyCache, view, readyView, cpc, dirty, met, restarts,
                       outages>>
        /\ unseen' = unseen \cup {id}
        /\ edits' \in 0..MaxEdits
        /\ obj' \in [IDs -> Objects]
        /\ \A k \in IDs \ {id} : obj'[k] = obj[k]
        /\ obj'[id].fin = obj[id].fin
        /\ obj[id].phase \notin {"deleting", "gone"}
        /\ obj'[id].phase = "deleting" => obj[id].fin
        /\ obj'[id].phase \in {"none", "gone"} => ~obj[id].fin
    <2>0. /\ obj \in [IDs -> Objects] /\ edits \in 0..MaxEdits
          /\ (obj[id].phase \in {"none", "gone"} => ~obj[id].fin)
      BY <1>0 DEF CPCore
    <2>1. CASE \E c \in Configs : UserCreate(id, c)
      <3>1. PICK c \in Configs : UserCreate(id, c)
        BY <2>1
      <3>2. obj' = [obj EXCEPT ![id].phase = "live", ![id].spec = c] /\ obj[id].phase = "none"
        BY <3>1 DEF UserCreate
      <3>3. /\ obj' \in [IDs -> Objects]
            /\ \A k \in IDs \ {id} : obj'[k] = obj[k]
            /\ obj'[id].fin = obj[id].fin /\ obj'[id].phase = "live"
        BY <2>0, <3>2 DEF Objects, Phases
      <3>4. QED BY <2>0, <3>1, <3>2, <3>3 DEF UserCreate, envVars
    <2>2. CASE \E c \in Configs : UserEdit(id, c)
      <3>1. PICK c \in Configs : UserEdit(id, c)
        BY <2>2
      <3>2. edits' \in 0..MaxEdits
        BY <2>0, <3>1, CPBoundsAssumption DEF UserEdit
      <3>3. QED BY <2>0, <3>1, <3>2 DEF UserEdit, Objects, Phases
    <2>3. CASE UserDelete(id)
      <3>0. edits' \in 0..MaxEdits
        BY <2>0, <2>3, CPBoundsAssumption DEF UserDelete
      <3>1. CASE obj[id].fin
        BY <2>0, <2>3, <3>0, <3>1 DEF UserDelete, Objects, Phases
      <3>2. CASE ~obj[id].fin
        BY <2>0, <2>3, <3>0, <3>2 DEF UserDelete, Objects, Phases
      <3>3. QED BY <3>1, <3>2
    <2>4. QED BY <2>1, <2>2, <2>3
  <1>2. CPCore'
    BY <1>0, <1>1 DEF CPCore, CopiesTrail, StageKnows
  <1>3. QED
    BY <1>0, <1>1, <1>2
    DEF UnstoppedHasFinalizer, StoppedBeforeRemoval, ReadyMatchesView, Unstopped, CPCore,
        vars, mgrVars

\* The informer catches up with the API server.
LEMMA CacheSyncKeeps ==
  ASSUME CPInv, NEW id \in IDs, CacheSync(id)
  PROVE  CPCore' /\ UnstoppedHasFinalizer' /\ StoppedBeforeRemoval' /\ ReadyMatchesView'
  <1>0. IInv /\ CPCore /\ UnstoppedHasFinalizer /\ StoppedBeforeRemoval /\ ReadyMatchesView
    BY CPInvParts
  <1>1. CPCore'
    BY <1>0 DEF CacheSync, CPCore, CopiesTrail, StageKnows, envVars
  <1>2. QED
    BY <1>0, <1>1
    DEF CacheSync, UnstoppedHasFinalizer, StoppedBeforeRemoval, ReadyMatchesView, Unstopped,
        vars, mgrVars

\* What Reconcile waits for comes and goes.
LEMMA PrerequisitesKeep ==
  ASSUME CPInv, NEW id \in IDs, PrerequisiteLost(id) \/ PrerequisiteMet(id)
  PROVE  CPCore' /\ UnstoppedHasFinalizer' /\ StoppedBeforeRemoval' /\ ReadyMatchesView'
  <1>0. CPCore /\ UnstoppedHasFinalizer /\ StoppedBeforeRemoval /\ ReadyMatchesView
    BY CPInvParts
  <1>1. /\ UNCHANGED <<vars, obj, cache, statusVars, view, readyView, cpc, restarts, edits>>
        /\ met' \in SUBSET IDs /\ dirty' \in SUBSET IDs /\ outages' \in 0..MaxOutages
    BY <1>0, CPBoundsAssumption DEF PrerequisiteLost, PrerequisiteMet, CPCore
  <1>2. CPCore'
    BY <1>0, <1>1 DEF CPCore, CopiesTrail, StageKnows, statusVars
  <1>3. QED
    BY <1>0, <1>1, <1>2
    DEF UnstoppedHasFinalizer, StoppedBeforeRemoval, ReadyMatchesView, Unstopped, vars, mgrVars

\* A manager step takes nothing out of the hands of the reconciler.
LEMMA ManagerKeeps ==
  ASSUME CPInv, ManagerStep \/ InstanceStep, UNCHANGED cpVars
  PROVE  CPCore' /\ UnstoppedHasFinalizer' /\ StoppedBeforeRemoval' /\ ReadyMatchesView'
  <1>0. IInv /\ CPCore /\ UnstoppedHasFinalizer /\ StoppedBeforeRemoval /\ ReadyMatchesView
    BY CPInvParts
  <1>1. /\ stopCh' = stopCh /\ hcfg' = hcfg
        /\ \A id \in IDs : instances'[id] \in {None, instances[id]}
    BY <1>0, ManagerOnlyRemoves DEF IInv
  <1>2. \A id \in IDs : Unstopped(id)' => Unstopped(id)
    BY <1>1 DEF Unstopped
  <1>3. CPCore'
    BY <1>0 DEF CPCore, CopiesTrail, StageKnows, cpVars
  <1>4. QED
    BY <1>0, <1>1, <1>2, <1>3
    DEF UnstoppedHasFinalizer, StoppedBeforeRemoval, ReadyMatchesView, cpVars

\* The operator forgets its copies and its instances and reads the objects anew.
LEMMA RestartKeeps ==
  ASSUME CPInv, OperatorRestart
  PROVE  CPCore' /\ UnstoppedHasFinalizer' /\ StoppedBeforeRemoval' /\ ReadyMatchesView'
  <1>0. CPCore
    BY CPInvParts
  <1>1. restarts' \in 0..MaxRestarts
    BY <1>0, CPBoundsAssumption DEF OperatorRestart, CPCore
  <1>2. CPCore'
    BY <1>0, <1>1, NoObjectType
    DEF OperatorRestart, CPCore, CopiesTrail, StageKnows, CPStates, Enforcing
  <1>3. QED
    BY <1>2
    DEF OperatorRestart, UnstoppedHasFinalizer, StoppedBeforeRemoval, ReadyMatchesView,
        Unstopped

-----------------------------------------------------------------------------
(* The steps of Reconcile.                                                 *)

\* What a step may do to the status.
StatusTyped == ready' \in [IDs -> BOOLEAN] /\ unseen' \in SUBSET IDs

\* Reconcile moves on without touching objects or the manager.
Moves(id) ==
  /\ cpc' \in [IDs -> CPStates] /\ view' \in [IDs -> Objects] /\ dirty' \in SUBSET IDs
  /\ readyView' \in [IDs -> BOOLEAN]
  /\ \A k \in IDs \ {id} : cpc'[k] = cpc[k] /\ view'[k] = view[k]
  /\ UNCHANGED <<cache, readyCache, envVars>> /\ StatusTyped

\* Where a Reconcile that returns leaves its object.
LEMMA ReturnMoves ==
  ASSUME CPCore, NEW id \in IDs, Return(id) \/ ReturnRequeue(id),
         UNCHANGED <<cache, readyCache, envVars>>, StatusTyped
  PROVE  Moves(id) /\ cpc'[id] = "idle" /\ view'[id] = NoObject
  <1>1. /\ cpc' = [cpc EXCEPT ![id] = "idle"]
        /\ view' = [view EXCEPT ![id] = NoObject]
        /\ readyView' = [readyView EXCEPT ![id] = FALSE]
        /\ dirty' \in SUBSET IDs
    BY DEF Return, ReturnRequeue, CPCore
  <1>2. QED BY <1>1, NoObjectType DEF CPCore, Moves, CPStates

\* Where a Reconcile that continues leaves its object.
LEMMA GotoMoves ==
  ASSUME CPCore, NEW id \in IDs, NEW l \in CPStates, Goto(id, l),
         UNCHANGED <<cache, statusVars, envVars>>
  PROVE  Moves(id) /\ cpc'[id] = l /\ view'[id] = view[id]
  BY DEF CPCore, Goto, Moves, StatusTyped, statusVars

\* If the object and the manager stay and what is known at the new stage was
\* known before, the invariant stays.
LEMMA MovesKeep ==
  ASSUME CPInv, NEW id \in IDs, Moves(id), obj' = obj, instances' = instances, hcfg' = hcfg,
         \A k \in IDs : Unstopped(k)' => Unstopped(k),
         cpc'[id] \in {"stop", "removeFinalizer"}
           => view'[id].phase = "deleting" /\ cache[id].phase \in {"deleting", "gone"},
         cpc'[id] = "addFinalizer" => view'[id].phase = "live",
         cpc'[id] \in Enforcing => obj[id].fin,
         cpc'[id] = "removeFinalizer" => ~Unstopped(id)',
         cpc'[id] = "patchReady"
           => instances[id] = None \/ hcfg[instances[id]] = view'[id].spec
  PROVE  CPCore' /\ UnstoppedHasFinalizer' /\ StoppedBeforeRemoval' /\ ReadyMatchesView'
  <1>0. IInv /\ CPCore /\ UnstoppedHasFinalizer /\ StoppedBeforeRemoval /\ ReadyMatchesView
    BY CPInvParts
  <1>1. CopiesTrail' /\ StageKnows'
    BY <1>0 DEF Moves, CPCore, CopiesTrail, StageKnows
  <1>2. CPCore'
    BY <1>0, <1>1 DEF Moves, StatusTyped, CPCore, envVars
  <1>3. UnstoppedHasFinalizer' /\ StoppedBeforeRemoval'
    BY <1>0 DEF Moves, UnstoppedHasFinalizer, StoppedBeforeRemoval
  <1>4. ReadyMatchesView'
    BY <1>0 DEF Moves, ReadyMatchesView
  <1>5. QED BY <1>2, <1>3, <1>4

\* Reconcile gives up, or waits for something, and is called again.
LEMMA ReturnKeeps ==
  ASSUME CPInv, NEW id \in IDs, Return(id) \/ ReturnRequeue(id), UNCHANGED <<vars, obj>>,
         UNCHANGED <<cache, readyCache, envVars>>, StatusTyped
  PROVE  CPCore' /\ UnstoppedHasFinalizer' /\ StoppedBeforeRemoval' /\ ReadyMatchesView'
  <1>1. Moves(id) /\ cpc'[id] = "idle" /\ view'[id] = NoObject
    BY ReturnMoves, CPInvParts
  <1>2. \A k \in IDs : Unstopped(k)' => Unstopped(k)
    BY DEF Unstopped, vars, mgrVars
  <1>3. instances' = instances /\ hcfg' = hcfg
    BY DEF vars, mgrVars
  <1>4. QED BY <1>1, <1>2, <1>3, NoObjectType, MovesKeep DEF Enforcing

\* Reconcile goes from one stage behind the finalizer check to another.
LEMMA EnforcingKeeps ==
  ASSUME CPInv, NEW id \in IDs, cpc[id] \in Enforcing, NEW l \in Enforcing, Goto(id, l),
         UNCHANGED <<vars, obj, cache, statusVars, envVars>>,
         l = "patchReady" => instances[id] = None \/ hcfg[instances[id]] = view[id].spec
  PROVE  CPCore' /\ UnstoppedHasFinalizer' /\ StoppedBeforeRemoval' /\ ReadyMatchesView'
  <1>0. CPCore
    BY CPInvParts
  <1>1. Moves(id) /\ cpc'[id] = l /\ view'[id] = view[id]
    BY <1>0, GotoMoves DEF Enforcing, CPStates
  <1>2. \A k \in IDs : Unstopped(k)' => Unstopped(k)
    BY DEF Unstopped, vars, mgrVars
  <1>3. instances' = instances /\ hcfg' = hcfg
    BY DEF vars, mgrVars
  <1>4. obj[id].fin
    BY <1>0 DEF CPCore, CopiesTrail, StageKnows
  <1>5. QED BY <1>1, <1>2, <1>3, <1>4, MovesKeep DEF Enforcing

\* Reconcile reads the object from the cache.
LEMMA ReconcileStartKeeps ==
  ASSUME CPInv, NEW id \in IDs, ReconcileStart(id)
  PROVE  CPCore' /\ UnstoppedHasFinalizer' /\ StoppedBeforeRemoval' /\ ReadyMatchesView'
  <1>0. CPCore
    BY CPInvParts
  <1>1. /\ view' = [view EXCEPT ![id] = cache[id]]
        /\ readyView' = [readyView EXCEPT ![id] = readyCache[id]]
        /\ dirty' = dirty \ {id}
        /\ UNCHANGED <<vars, obj, cache, statusVars, envVars>>
    BY DEF ReconcileStart
  <1>2. PICK l \in CPStates :
          /\ cpc' = [cpc EXCEPT ![id] = l]
          /\ l \in {"stop", "checkReady", "addFinalizer", "idle"}
          /\ l = "stop" => cache[id].phase = "deleting"
          /\ l = "addFinalizer" => cache[id].phase = "live"
          /\ l = "checkReady" => cache[id].phase = "live" /\ cache[id].fin
    <2> DEFINE m == CASE cache[id].phase = "deleting"           -> "stop"
                      [] cache[id].phase = "live" /\ cache[id].fin -> "checkReady"
                      [] cache[id].phase = "live"                -> "addFinalizer"
                      [] OTHER                                   -> "idle"
    <2>1. cpc' = [cpc EXCEPT ![id] = m]
      BY DEF ReconcileStart
    <2>2. CASE cache[id].phase = "deleting"
      <3>1. m = "stop" BY <2>2
      <3>2. QED BY <2>1, <2>2, <3>1 DEF CPStates
    <2>3. CASE cache[id].phase = "live"
      <3>1. CASE cache[id].fin
        <4>1. m = "checkReady" \/ m = "addFinalizer" BY <2>3, <3>1
        <4>2. QED BY <2>1, <2>3, <3>1, <4>1 DEF CPStates
      <3>2. CASE ~cache[id].fin
        <4>1. m = "addFinalizer" BY <2>3, <3>2
        <4>2. QED BY <2>1, <2>3, <4>1 DEF CPStates
      <3>3. QED BY <3>1, <3>2
    <2>4. CASE cache[id].phase \notin {"deleting", "live"}
      <3>1. m = "idle" BY <2>4
      <3>2. QED BY <2>1, <3>1 DEF CPStates
    <2>5. QED BY <2>2, <2>3, <2>4
  <1>3. /\ Moves(id) /\ cpc'[id] = l /\ view'[id] = cache[id]
        /\ instances' = instances /\ hcfg' = hcfg /\ obj' = obj
    BY <1>0, <1>1, <1>2 DEF Moves, CPCore, StatusTyped, statusVars, vars, mgrVars
  <1>4. \A k \in IDs : Unstopped(k)' => Unstopped(k)
    BY <1>1 DEF Unstopped, vars, mgrVars
  <1>5. cache[id].phase = "live" /\ cache[id].fin => obj[id].fin
    BY <1>0 DEF CPCore, CopiesTrail
  <1>6. QED BY <1>2, <1>3, <1>4, <1>5, MovesKeep DEF Enforcing

\* Deletion and replacement tell the instance to stop.
LEMMA ReconcileStopKeeps ==
  ASSUME CPInv, NEW id \in IDs, ReconcileStop(id) \/ ReconcileStopOutdated(id)
  PROVE  CPCore' /\ UnstoppedHasFinalizer' /\ StoppedBeforeRemoval' /\ ReadyMatchesView'
  <1>0. IInv /\ CPCore
    BY CPInvParts
  <1>1. /\ StopInstanceFound(id) \/ StopInstanceNotFound(id)
        /\ UNCHANGED <<obj, cache, statusVars, envVars>>
    BY DEF ReconcileStop, ReconcileStopOutdated
  <1>2. /\ instances' = instances /\ hcfg' = hcfg /\ ~Unstopped(id)'
        /\ \A k \in IDs : Unstopped(k)' => Unstopped(k)
    BY <1>0, <1>1, StopEffect DEF IInv
  <1>3. /\ cpc[id] \in Enforcing => obj[id].fin
        /\ cpc[id] = "stop"
             => view[id].phase = "deleting" /\ cache[id].phase \in {"deleting", "gone"}
    BY <1>0 DEF CPCore, CopiesTrail, StageKnows
  <1>4. CASE ReconcileStop(id)
    <2>1. Goto(id, "removeFinalizer") /\ cpc[id] = "stop"
      BY <1>4 DEF ReconcileStop
    <2>2. Moves(id) /\ cpc'[id] = "removeFinalizer" /\ view'[id] = view[id]
      BY <1>0, <1>1, <2>1, GotoMoves DEF CPStates
    <2>3. QED BY <1>1, <1>2, <1>3, <2>1, <2>2, MovesKeep DEF Enforcing
  <1>5. CASE ReconcileStopOutdated(id) /\ Goto(id, "schedule")
    <2>1. Moves(id) /\ cpc'[id] = "schedule" /\ view'[id] = view[id]
      BY <1>0, <1>1, <1>5, GotoMoves DEF CPStates
    <2>2. cpc[id] \in Enforcing
      BY <1>5 DEF ReconcileStopOutdated, Enforcing
    <2>3. QED BY <1>1, <1>2, <1>3, <2>1, <2>2, MovesKeep DEF Enforcing
  <1>6. CASE ReconcileStopOutdated(id) /\ StopInstanceNotFound(id) /\ ReturnRequeue(id)
    <2>1. StatusTyped
      BY <1>0, <1>1 DEF CPCore, StatusTyped, statusVars
    <2>2. QED BY <1>1, <1>6, <2>1, ReturnKeeps DEF StopInstanceNotFound, statusVars
  <1>7. QED BY <1>4, <1>5, <1>6 DEF ReconcileStopOutdated

\* The Updates of the finalizer apply to the object that was read.
LEMMA ReconcileFinalizerKeeps ==
  ASSUME CPInv, NEW id \in IDs, ReconcileRemoveFinalizer(id) \/ ReconcileAddFinalizer(id)
  PROVE  CPCore' /\ UnstoppedHasFinalizer' /\ StoppedBeforeRemoval' /\ ReadyMatchesView'
  <1>0. IInv /\ CPCore /\ UnstoppedHasFinalizer /\ StoppedBeforeRemoval /\ ReadyMatchesView
    BY CPInvParts
  <1>1. /\ Return(id) \/ ReturnRequeue(id)
        /\ UNCHANGED <<vars, cache, ready, readyCache, envVars>>
        /\ unseen' = unseen \cup {id}
        /\ view[id] = obj[id]
    BY DEF ReconcileRemoveFinalizer, ReconcileAddFinalizer
  <1>2. Moves(id) /\ cpc'[id] = "idle" /\ view'[id] = NoObject
    BY <1>0, <1>1, ReturnMoves DEF CPCore, StatusTyped, statusVars
  <1>3. /\ instances' = instances /\ hcfg' = hcfg
        /\ \A k \in IDs : Unstopped(k)' => Unstopped(k)
    BY <1>1 DEF Unstopped, vars, mgrVars
  <1>4. /\ obj' \in [IDs -> Objects]
        /\ \A k \in IDs \ {id} : obj'[k] = obj[k]
        /\ \/ /\ obj'[id].phase = "gone" /\ ~obj'[id].fin /\ ~Unstopped(id)
              /\ cache[id].phase \in {"deleting", "gone"}
           \/ obj[id].phase = "live" /\ obj'[id].phase = "live" /\ obj'[id].fin
    <2>1. CASE ReconcileRemoveFinalizer(id)
      <3>1. cpc[id] = "removeFinalizer"
        BY <2>1 DEF ReconcileRemoveFinalizer
      <3>2. cache[id].phase \in {"deleting", "gone"} /\ ~Unstopped(id)
        BY <1>0, <3>1 DEF CPCore, CopiesTrail, StageKnows, StoppedBeforeRemoval
      <3>3. QED
        BY <1>0, <2>1, <3>2 DEF ReconcileRemoveFinalizer, CPCore, Objects, Phases
    <2>2. CASE ReconcileAddFinalizer(id)
      <3>1. obj[id].phase = "live"
        BY <1>0, <1>1, <2>2 DEF ReconcileAddFinalizer, CPCore, StageKnows
      <3>2. QED BY <1>0, <2>2, <3>1 DEF ReconcileAddFinalizer, CPCore, Objects, Phases
    <2>3. QED BY <2>1, <2>2
  <1>5. CopiesTrail' /\ StageKnows'
    BY <1>0, <1>2, <1>4, NoObjectType DEF Moves, CPCore, CopiesTrail, StageKnows, Enforcing
  <1>6. CPCore'
    BY <1>0, <1>2, <1>4, <1>5 DEF Moves, StatusTyped, CPCore, envVars
  <1>7. UnstoppedHasFinalizer' /\ StoppedBeforeRemoval' /\ ReadyMatchesView'
    BY <1>0, <1>2, <1>3, <1>4
    DEF Moves, UnstoppedHasFinalizer, StoppedBeforeRemoval, ReadyMatchesView
  <1>8. QED BY <1>6, <1>7

\* An instance is scheduled for an object that has its finalizer.
LEMMA ReconcileScheduleKeeps ==
  ASSUME CPInv, NEW id \in IDs, NEW h \in Handles, ReconcileSchedule(id, h)
  PROVE  CPCore' /\ UnstoppedHasFinalizer' /\ StoppedBeforeRemoval' /\ ReadyMatchesView'
  <1>0. IInv /\ CPCore /\ UnstoppedHasFinalizer /\ StoppedBeforeRemoval /\ ReadyMatchesView
    BY CPInvParts
  <1>1. /\ cpc[id] = "schedule" /\ Goto(id, "sending")
        /\ UNCHANGED <<obj, cache, statusVars, envVars>>
    BY DEF ReconcileSchedule
  <1>2. Moves(id) /\ cpc'[id] = "sending" /\ view'[id] = view[id]
    BY <1>0, <1>1, GotoMoves DEF CPStates
  <1>3. PICK c : c = view[id].spec
    OBVIOUS
  <1>4. \A k \in IDs \ {id} :
           /\ instances'[k] = instances[k]
           /\ instances[k] # None => hcfg'[instances[k]] = hcfg[instances[k]]
           /\ Unstopped(k)' => Unstopped(k)
    BY <1>0, <1>3, ScheduleEffect DEF ReconcileSchedule, IInv
  <1>5. obj[id].fin
    BY <1>0, <1>1 DEF CPCore, StageKnows, Enforcing
  <1>6. CopiesTrail' /\ StageKnows'
    BY <1>0, <1>1, <1>2, <1>5 DEF Moves, CPCore, CopiesTrail, StageKnows, Enforcing
  <1>7. CPCore'
    BY <1>0, <1>1, <1>2, <1>6 DEF Moves, StatusTyped, CPCore, envVars
  <1>8. UnstoppedHasFinalizer' /\ StoppedBeforeRemoval'
    BY <1>0, <1>1, <1>2, <1>4, <1>5 DEF Moves, UnstoppedHasFinalizer, StoppedBeforeRemoval
  <1>9. ReadyMatchesView'
    BY <1>0, <1>2, <1>4 DEF Moves, ReadyMatchesView
  <1>10. QED BY <1>7, <1>8, <1>9

\* A condition is patched and the response taken as the copy.
LEMMA PatchConditionKeeps ==
  ASSUME CPInv, NEW id \in IDs, ReconcilePatchCondition(id)
  PROVE  CPCore' /\ UnstoppedHasFinalizer' /\ StoppedBeforeRemoval' /\ ReadyMatchesView'
  <1>0. CPCore
    BY CPInvParts
  <1>1. /\ cpc[id] = "checkReady" /\ cpc' = cpc /\ obj' = obj
        /\ view' = [view EXCEPT ![id] = obj[id]]
        /\ UNCHANGED <<vars, cache, readyCache, readyView, dirty, envVars>>
    BY DEF ReconcilePatchCondition
  <1>2. StatusTyped
    BY <1>0 DEF ReconcilePatchCondition, WriteBack, PatchReady, StatusTyped, CPCore
  <1>3. Moves(id)
    BY <1>0, <1>1, <1>2 DEF Moves, CPCore
  <1>4. /\ instances' = instances /\ hcfg' = hcfg
        /\ \A k \in IDs : Unstopped(k)' => Unstopped(k)
    BY <1>1 DEF Unstopped, vars, mgrVars
  <1>5. obj[id].fin
    BY <1>0, <1>1 DEF CPCore, StageKnows, Enforcing
  <1>6. QED BY <1>1, <1>3, <1>4, <1>5, MovesKeep

\* Every step of Reconcile.
LEMMA ReconcileKeeps ==
  ASSUME CPInv, NEW id \in IDs, ReconcileStep(id)
  PROVE  CPCore' /\ UnstoppedHasFinalizer' /\ StoppedBeforeRemoval' /\ ReadyMatchesView'
  <1>0. CPCore
    BY CPInvParts
  <1>1. CASE \/ ReconcileUpdateFails(id) \/ ReconcileAlreadyScheduled(id)
             \/ ReconcilePatchStatusFails(id)
    <2>1. StatusTyped
      BY <1>0, <1>1
      DEF ReconcileUpdateFails, ReconcileAlreadyScheduled, ReconcilePatchStatusFails,
          CPCore, StatusTyped, statusVars
    <2>2. QED
      BY <1>1, <2>1, ReturnKeeps
      DEF ReconcileUpdateFails, ReconcileAlreadyScheduled, ReconcilePatchStatusFails, statusVars
  <1>2. CASE ReconcileCheckReady(id)
    BY <1>2, EnforcingKeeps DEF ReconcileCheckReady, Enforcing
  <1>3. CASE ReconcileCompareHash(id)
    <2>1. CASE instances[id] = None
      <3>1. StatusTyped
        BY <1>0, <1>3 DEF ReconcileCompareHash, CPCore, StatusTyped, statusVars
      <3>2. QED BY <1>3, <2>1, <3>1, ReturnKeeps DEF ReconcileCompareHash, statusVars
    <2>2. CASE instances[id] # None
      BY <1>3, <2>2, EnforcingKeeps DEF ReconcileCompareHash, GetInstanceConfigHash, Enforcing
    <2>3. QED BY <2>1, <2>2
  <1>4. CASE ReconcileNewManagerFails(id) \/ ReconcileScheduled(id)
    BY <1>4, EnforcingKeeps DEF ReconcileNewManagerFails, ReconcileScheduled, Enforcing
  <1>5. CASE ReconcilePatchStatus(id)
    <2>1. StatusTyped /\ (Return(id) \/ ReturnRequeue(id))
      BY <1>0, <1>5 DEF ReconcilePatchStatus, PatchReady, StatusTyped, CPCore
    <2>2. QED BY <1>5, <2>1, ReturnKeeps DEF ReconcilePatchStatus
  <1>6. CASE ReconcileReturnsEarly(id) \/ ReconcileInvalid(id)
    <2>1. StatusTyped /\ (Return(id) \/ ReturnRequeue(id))
      BY <1>0, <1>6
      DEF ReconcileReturnsEarly, ReconcileInvalid, WriteBack, PatchReady, StatusTyped, CPCore
    <2>2. QED BY <1>6, <2>1, ReturnKeeps DEF ReconcileReturnsEarly, ReconcileInvalid
  <1>7. QED
    BY <1>1, <1>2, <1>3, <1>4, <1>5, <1>6, ReconcileStartKeeps, PatchConditionKeeps,
       ReconcileStopKeeps, ReconcileFinalizerKeeps, ReconcileScheduleKeeps
    DEF ReconcileStep

-----------------------------------------------------------------------------
(* The theorems.                                                           *)

\* Every step preserves the invariant.
LEMMA CPNextInv == CPInv /\ [CPNext]_allVars => CPInv'
  <1> SUFFICES ASSUME CPInv, [CPNext]_allVars PROVE CPInv'
    OBVIOUS
  <1>0. CPTypeOK /\ IInv
    BY DEF CPInv
  <1>1. CASE UNCHANGED allVars
    <2>1. UNCHANGED vars /\ UNCHANGED cpVars
      BY <1>1 DEF allVars
    <2>2. IInv'
      BY <1>0, <2>1, NextIInv
    <2>3. QED
      BY <2>1, <2>2
      DEF CPInv, CPTypeOK, IInv, CopiesTrail, StageKnows, UnstoppedHasFinalizer,
          StoppedBeforeRemoval, ReadyMatchesView, Unstopped, cpVars, vars, mgrVars
  <1>2. CASE CPNext
    <2>1. IInv'
      BY <1>0, <1>2, ManagerDriven, NextIInv, RestartEmpties
    <2>2. CPCore' /\ UnstoppedHasFinalizer' /\ StoppedBeforeRemoval' /\ ReadyMatchesView'
      BY <1>2, UserKeeps, CacheSyncKeeps, PrerequisitesKeep, ReconcileKeeps, ManagerKeeps, RestartKeeps
      DEF CPNext, InstanceFails, InstanceStep
    <2>3. QED
      BY <2>1, <2>2 DEF CPInv, CPCore, CPTypeOK, IInv
  <1>3. QED BY <1>1, <1>2

\* The inductive invariant holds in every reachable state.
THEOREM CPInvariance == CPSpec => []CPInv
  BY CPInitInv, CPNextInv, PTL DEF CPSpec

\* The reconciler's variables keep their types, and the API server keeps a
\* deleted object exactly as long as it has a finalizer.
THEOREM CPTypeCorrect == CPSpec => []CPTypeOK
  BY CPInvariance, PTL DEF CPInv

\* Whatever the interleaving of deletions, stale reads and restarts, a
\* ControlPlane that is gone has no instance that was not told to stop, none in
\* the map and none that runs, and no validator.
THEOREM GoneHasNoInstance == CPSpec => []NoInstanceOfGoneControlPlane
  <1>1. CPInv => NoInstanceOfGoneControlPlane
    <2> SUFFICES ASSUME CPInv, NEW id \in IDs, obj[id].phase = "gone"
                 PROVE  /\ instances[id] = None \/ instances[id] \in stopCh
                        /\ \A h \in Handles :
                             hid[h] = id /\ run[h] \in {"spawned", "running"} => h \in stopCh
                        /\ validators[id] = None
      BY DEF NoInstanceOfGoneControlPlane
    <2>1. ~Unstopped(id)
      BY DEF CPInv, CPTypeOK, UnstoppedHasFinalizer
    <2>2. instances[id] = None \/ instances[id] \in stopCh
      BY <2>1 DEF Unstopped
    <2>3. ASSUME NEW h \in Handles, hid[h] = id, run[h] \in {"spawned", "running"}
          PROVE  h \in stopCh
      BY <2>2, <2>3, NoneAssumption DEF CPInv, IInv, StartedInMap
    <2>4. validators[id] = None
      BY <2>2 DEF CPInv, IInv, ValidatorMatchesInstance
    <2>5. QED BY <2>2, <2>3, <2>4
  <1>2. QED BY <1>1, CPInvariance, PTL

\* Reconcile finds a ControlPlane Ready only while the manager holds no instance
\* with another configuration than the one Reconcile read.
THEOREM ReadyForReadSpec == CPSpec => NotReadyForOtherSpec
  <1>1. CPInv /\ [CPNext]_allVars =>
          [\A id \in IDs :
             cpc[id] = "patchReady" /\ ~ready[id] /\ ready'[id]
               => instances[id] = None \/ hcfg[instances[id]] = view[id].spec]_allVars
    BY DEF CPInv, ReadyMatchesView
  <1>2. QED BY <1>1, CPInvariance, PTL DEF CPSpec, NotReadyForOtherSpec

\* The manager keeps its guarantees when the reconciler drives it and the
\* operator restarts: nothing is started twice, and of the instances of a
\* ControlPlane at most one was not told to stop.
THEOREM DrivenManagerSafe == CPSpec => [](RunOnce /\ OneUnstoppedPerID)
  <1>1. CPInv => RunOnce /\ OneUnstoppedPerID
    BY IInvImpliesRunOnce DEF CPInv, IInv, StartedInMap, OneUnstoppedPerID
  <1>2. QED BY <1>1, CPInvariance, PTL
=============================================================================
