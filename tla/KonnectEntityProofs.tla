------------------------- MODULE KonnectEntityProofs -------------------------
(***************************************************************************)
(* Proofs about KonnectEntity for every set of UIDs, Konnect IDs and kinds *)
(* and every bound: no entity is abandoned, duplicated or orphaned.        *)
(***************************************************************************)
EXTENDS KonnectEntity, TLAPS

\* The steps at which the copy still has the ID that was read.
BeforeCheck == {"refs", "parentGone", "delete", "removeFinalizer", "finalizer",
                "typeSpecific", "update"}
\* The steps after the finalizer was added.
AfterFinalizer == {"typeSpecific", "pending", "create", "patchStatus", "update", "updateStatus"}

\* What each step of a reconcile knows of the ID in its copy.
StepKnows ==
  /\ pc # "idle" => Exists(view)
  /\ pc \in {"delete", "removeFinalizer"} => view.del
  /\ pc = "finalizer" \/ pc \in AfterFinalizer => ~view.del
  /\ pc \in BeforeCheck => eid = view.id
  /\ pc = "pending" => eid = view.id \/ (eid = None /\ kind.checksID)
  /\ pc = "create" => eid = None
  /\ pc \in {"create", "patchStatus"} => kind.checksID \/ view.id = None
  /\ pc \in {"update", "updateStatus", "patchStatus"} => eid # None
  /\ pc \in {"create", "update", "updateStatus"} => pending = None
  /\ pc = "patchStatus" => pending = eid
  /\ (pc = "updateStatus" /\ kind.upserts) => eid = view.id

EntityInv == TypeOK /\ StepKnows

-----------------------------------------------------------------------------
(* The object.                                                             *)

\* The object is one, or there is none.
ObjectOK ==
  /\ obj \in Objects
  /\ watch \in Seq(Objects)
  /\ IF Exists(obj) THEN obj.uid \in uids /\ (obj.del => obj.fin) ELSE obj = NoObject

LEMMA NoObjectOK == /\ NoObject \in Objects
                    /\ NoObject.uid = None /\ NoObject.id = None /\ ~NoObject.del /\ ~NoObject.fin
BY DEF NoObject, Objects

LEMMA WriteOK ==
  ASSUME ObjectOK, NEW o \in Objects, Write(o)
  PROVE  obj' = o /\ watch' \in Seq(Objects)
BY DEF ObjectOK, Write

LEMMA ObjectStep == ASSUME EntityInv, [Next]_vars PROVE ObjectOK'
<1> USE NoneAssumption, KindsAssumption
<1>0. /\ ObjectOK /\ cache \in Objects /\ view \in Objects
      /\ pending \in KIDs \cup {None} /\ eid \in KIDs \cup {None} /\ uids \subseteq UIDs
  BY DEF EntityInv, TypeOK, ObjectOK
<1>1. ASSUME UNCHANGED <<obj, watch, uids>> PROVE ObjectOK'
  BY <1>0, <1>1 DEF ObjectOK, Exists
<1>2. ASSUME NEW u \in UIDs, UserCreate(u) PROVE ObjectOK'
  <2> DEFINE o == [NoObject EXCEPT !.uid = u]
  <2>1. o \in Objects /\ o.uid = u /\ ~o.del
    BY NoObjectOK DEF Objects
  <2> HIDE DEF o
  <2>2. Write(o) /\ uids' = uids \cup {u}
    BY <1>2 DEF UserCreate, o
  <2> QED BY <2>1, <2>2, <1>0, WriteOK DEF ObjectOK, Exists
<1>3. CASE UserDelete
  <2> DEFINE o == [obj EXCEPT !.del = TRUE]
  <2>1. o \in Objects /\ o.uid = obj.uid /\ o.fin = obj.fin
    BY <1>0 DEF ObjectOK, Objects
  <2>2. (Write(o) /\ obj.fin) \/ Write(NoObject)
    BY <1>3 DEF UserDelete
  <2>3. uids' = uids /\ Exists(obj)
    BY <1>3 DEF UserDelete
  <2> HIDE DEF o
  <2>4. CASE Write(o) /\ obj.fin
    BY <2>1, <2>3, <2>4, <1>0, WriteOK DEF ObjectOK, Exists
  <2>5. CASE Write(NoObject)
    BY <2>1, <2>3, <2>5, <1>0, WriteOK, NoObjectOK DEF ObjectOK, Exists
  <2> QED BY <2>2, <2>4, <2>5
<1>4. CASE CacheSync
  BY <1>0, <1>4 DEF CacheSync, ObjectOK, Exists
<1>5. ASSUME UpdateWithoutFinalizer, Exists(obj), uids' = uids PROVE ObjectOK'
  <2> DEFINE o == [obj EXCEPT !.fin = FALSE]
  <2>1. o \in Objects /\ o.uid = obj.uid /\ o.del = obj.del
    BY <1>0 DEF ObjectOK, Objects
  <2>2. (Write(o) /\ ~obj.del) \/ Write(NoObject)
    BY <1>5 DEF UpdateWithoutFinalizer
  <2> HIDE DEF o
  <2>4. CASE Write(o) /\ ~obj.del
    BY <2>1, <1>5, <2>4, <1>0, WriteOK DEF ObjectOK, Exists
  <2>5. CASE Write(NoObject)
    BY <2>1, <1>5, <2>5, <1>0, WriteOK, NoObjectOK DEF ObjectOK, Exists
  <2> QED BY <2>2, <2>4, <2>5
<1>6. ASSUME NEW k \in KIDs \cup {None}, Exists(obj), Write([obj EXCEPT !.id = k]), uids' = uids
      PROVE  ObjectOK'
  <2> DEFINE o == [obj EXCEPT !.id = k]
  <2>1. o \in Objects /\ o.uid = obj.uid /\ o.del = obj.del /\ o.fin = obj.fin
    BY <1>0 DEF ObjectOK, Objects
  <2>2. Write(o)
    BY <1>6
  <2> HIDE DEF o
  <2> QED BY <2>1, <1>6, <2>2, <1>0, WriteOK DEF ObjectOK, Exists
<1>7. CASE ReconcileAddFinalizer
  <2> DEFINE o == [obj EXCEPT !.fin = TRUE]
  <2>1. o \in Objects /\ o.uid = obj.uid /\ o.fin = TRUE
    BY <1>0 DEF ObjectOK, Objects
  <2>2. (Write(o) /\ Exists(obj) /\ uids' = uids) \/ UNCHANGED <<obj, watch, uids>>
    BY <1>7 DEF ReconcileAddFinalizer
  <2> HIDE DEF o
  <2>4. CASE Write(o) /\ Exists(obj) /\ uids' = uids
    BY <2>1, <2>4, <1>0, WriteOK DEF ObjectOK, Exists
  <2> QED BY <2>2, <2>4, <1>1
<1>8. CASE OperatorRestart
  BY <1>0, <1>8 DEF OperatorRestart, ObjectOK, Exists
<1>9. CASE ReconcileUpdateStatus
  BY <1>9, <1>6, <1>0 DEF ReconcileUpdateStatus, EntityInv, StepKnows
<1>10. CASE ReconcileDropFinalizer \/ ReconcileRemoveFinalizer
  BY <1>10, <1>5 DEF ReconcileDropFinalizer, ReconcileRemoveFinalizer, UpdateWithoutFinalizer,
     EntityInv, StepKnows
<1>11. CASE ReconcileRestorePending \/ ReconcilePatchStatus
  BY <1>11, <1>6, <1>0 DEF ReconcileRestorePending, ReconcilePatchStatus
<1>12. CASE \/ ReconcileStart \/ ReconcileRefs \/ ReconcileParentGone \/ ReconcileDelete
            \/ ReconcileObjectGone \/ ReconcileTypeSpecific \/ ReconcilePassPending
            \/ ReconcileCreateRejected \/ ReconcileCreateNoParent \/ ReconcileUpdateSkipped
            \/ ReconcileUpdate \/ ReconcileConflict
  BY <1>12, <1>1 DEF apiVars, ReconcileStart, ReconcileRefs, ReconcileParentGone,
     ReconcileDelete, ReconcileObjectGone, ReconcileTypeSpecific, ReconcilePassPending,
     ReconcileCreateRejected, ReconcileCreateNoParent, ReconcileUpdateSkipped,
     ReconcileUpdate, ReconcileConflict
<1>13. CASE \E k \in KIDs : \/ ReconcileCreate(k) \/ ReconcileCreateConflict(k)
                            \/ ReconcileRecreate(k) \/ ReconcileCreateLost(k) \/ ExternalDelete(k)
  BY <1>13, <1>1 DEF apiVars, ReconcileCreate, ReconcileCreateConflict, ReconcileRecreate,
     ReconcileCreateLost, ExternalDelete
<1>14. CASE \/ ReconcileDeleteLost \/ ReconcileFails \/ OtherWatch \/ ParentDeletedInKonnect
            \/ ParentGone \/ ParentReturns \/ ParentSync \/ UNCHANGED vars
  BY <1>14, <1>1 DEF apiVars, vars, ReconcileDeleteLost, ReconcileFails, OtherWatch,
     ParentDeletedInKonnect, ParentGone, ParentReturns, ParentSync
<1> QED BY <1>2, <1>3, <1>4, <1>7, <1>8, <1>9, <1>10, <1>11, <1>12, <1>13, <1>14
     DEF Next, Reconcile, Failure, Environment

-----------------------------------------------------------------------------
(* Types, and what a step of a reconcile knows.                            *)

CountsOK ==
  /\ stale \in BOOLEAN /\ dropped \in BOOLEAN
  /\ failures \in 0..MaxFailures /\ lost \in 0..MaxLost /\ restarts \in 0..MaxRestarts
  /\ external \in 0..MaxExternal /\ parents \in 0..MaxParents

\* The history and the counters only grow.
CountsGrow ==
  /\ stale => stale'
  /\ dropped => dropped'
  /\ NeverLostTrack' => NeverLostTrack
  /\ parents' = 0 => parents = 0
  /\ kind' = kind
  /\ uids \subseteq uids'

LEMMA CountsStep == ASSUME CountsOK, [Next]_vars PROVE CountsOK' /\ CountsGrow
<1> USE BoundsAssumption
<1>1. ASSUME UNCHANGED countVars PROVE CountsOK' /\ (CountsGrow \/ kind' # kind \/ ~(uids \subseteq uids'))
  BY <1>1 DEF CountsOK, CountsGrow, NeverLostTrack, countVars
<1>2. ASSUME \/ stale' = (stale \/ cache # obj) /\ UNCHANGED dropped
             \/ dropped' = (dropped \/ (pending # None /\ cache.id # pending)) /\ UNCHANGED stale,
             UNCHANGED <<failures, lost, restarts, external, parents>>
      PROVE  CountsOK' /\ (CountsGrow \/ kind' # kind \/ ~(uids \subseteq uids'))
  BY <1>2 DEF CountsOK, CountsGrow, NeverLostTrack
<1>3. ASSUME Fail \/ Lose PROVE  CountsOK' /\ (CountsGrow \/ kind' # kind \/ ~(uids \subseteq uids'))
  BY <1>3 DEF CountsOK, CountsGrow, NeverLostTrack, Fail, Lose
<1>4. CASE OperatorRestart
  BY <1>4 DEF CountsOK, CountsGrow, NeverLostTrack, OperatorRestart
<1>5. ASSUME NEW k \in KIDs, ExternalDelete(k) PROVE CountsOK' /\ CountsGrow
  BY <1>5 DEF CountsOK, CountsGrow, NeverLostTrack, ExternalDelete, apiVars
<1>6. CASE ParentReturns
  BY <1>6 DEF CountsOK, CountsGrow, NeverLostTrack, ParentReturns, apiVars
<1>7. CASE ReconcileStart \/ ReconcilePassPending
  BY <1>7, <1>2 DEF ReconcileStart, ReconcilePassPending, apiVars
<1>8. CASE ReconcileDeleteLost \/ ReconcileFails
  BY <1>8, <1>3 DEF ReconcileDeleteLost, ReconcileFails, apiVars
<1>9. ASSUME NEW k \in KIDs, ReconcileCreateLost(k) PROVE CountsOK' /\ CountsGrow
  BY <1>9, <1>3 DEF ReconcileCreateLost, apiVars
<1>10. CASE \/ ReconcileRefs \/ ReconcileParentGone \/ ReconcileDropFinalizer \/ ReconcileDelete
            \/ ReconcileRemoveFinalizer \/ ReconcileObjectGone \/ ReconcileAddFinalizer
            \/ ReconcileTypeSpecific \/ ReconcileRestorePending \/ ReconcileCreateRejected
  BY <1>10, <1>1 DEF ReconcileRefs, ReconcileParentGone, ReconcileDropFinalizer, ReconcileDelete,
     ReconcileRemoveFinalizer, ReconcileObjectGone, ReconcileAddFinalizer, ReconcileTypeSpecific,
     ReconcileRestorePending, ReconcileCreateRejected, apiVars
<1>11. CASE \/ ReconcileCreateNoParent \/ ReconcilePatchStatus \/ ReconcileUpdateSkipped
            \/ ReconcileUpdate \/ ReconcileUpdateStatus \/ ReconcileConflict
  BY <1>11, <1>1 DEF ReconcileCreateNoParent, ReconcilePatchStatus, ReconcileUpdateSkipped,
     ReconcileUpdate, ReconcileUpdateStatus, ReconcileConflict, apiVars
<1>12. ASSUME NEW k \in KIDs, ReconcileCreate(k) \/ ReconcileCreateConflict(k) \/ ReconcileRecreate(k)
       PROVE  CountsOK' /\ CountsGrow
  BY <1>12, <1>1 DEF ReconcileCreate, ReconcileCreateConflict, ReconcileRecreate, apiVars
<1>13. CASE \/ UserDelete \/ CacheSync \/ OtherWatch \/ ParentDeletedInKonnect \/ ParentGone
            \/ ParentSync \/ UNCHANGED vars
  BY <1>13, <1>1 DEF UserDelete, CacheSync, OtherWatch, ParentDeletedInKonnect, ParentGone,
     ParentSync, apiVars, vars
<1>14. ASSUME NEW u \in UIDs, UserCreate(u) PROVE CountsOK' /\ CountsGrow
  BY <1>14, <1>1 DEF UserCreate
<1> QED BY <1>4, <1>5, <1>6, <1>7, <1>8, <1>9, <1>10, <1>11, <1>12, <1>13, <1>14
     DEF Next, Reconcile, Failure, Environment

LEMMA StepKnowsStep == ASSUME EntityInv, [Next]_vars PROVE StepKnows'
<1> USE NoneAssumption DEF EntityInv, TypeOK
<1>1. ASSUME UNCHANGED <<kind, pc, view, eid, pending>> PROVE StepKnows'
  BY <1>1 DEF StepKnows, Exists, BeforeCheck, AfterFinalizer
<1>2. ASSUME pc' = "idle" PROVE StepKnows'
  BY <1>2 DEF StepKnows, BeforeCheck, AfterFinalizer
<1>3. CASE ReconcileStart
  BY <1>3 DEF ReconcileStart, StepKnows, Exists, BeforeCheck, AfterFinalizer
<1>4. CASE ReconcileRefs
  BY <1>4 DEF ReconcileRefs, Patched, Goto, StepKnows, Exists, BeforeCheck, AfterFinalizer
<1>5. CASE ReconcileParentGone
  BY <1>5, <1>2 DEF ReconcileParentGone, Patched, Goto, Return, StepKnows, Exists, BeforeCheck, AfterFinalizer
<1>6. CASE ReconcileDelete \/ ReconcileAddFinalizer
  BY <1>6 DEF ReconcileDelete, ReconcileAddFinalizer, Goto, StepKnows, Exists, BeforeCheck, AfterFinalizer, apiVars
<1>7. CASE ReconcileTypeSpecific \/ ReconcilePassPending
  BY <1>7 DEF ReconcileTypeSpecific, ReconcilePassPending, Goto, StepKnows, Exists, BeforeCheck, AfterFinalizer, apiVars
<1>8. ASSUME NEW k \in KIDs, ReconcileCreate(k) \/ ReconcileCreateConflict(k) \/ ReconcileRecreate(k)
      PROVE  StepKnows'
  BY <1>8 DEF ReconcileCreate, ReconcileCreateConflict, ReconcileRecreate, Goto, StepKnows, Exists,
     BeforeCheck, AfterFinalizer, apiVars
<1>9. CASE ReconcileUpdateSkipped \/ ReconcileUpdate
  BY <1>9 DEF ReconcileUpdateSkipped, ReconcileUpdate, Goto, StepKnows, Exists, BeforeCheck, AfterFinalizer, apiVars
<1>10. CASE \/ ReconcileDropFinalizer \/ ReconcileRemoveFinalizer \/ ReconcileObjectGone
            \/ ReconcileRestorePending \/ ReconcileCreateRejected \/ ReconcileCreateNoParent
            \/ ReconcilePatchStatus \/ ReconcileUpdateStatus \/ ReconcileConflict
            \/ ReconcileDeleteLost \/ ReconcileFails \/ OperatorRestart
            \/ \E k \in KIDs : ReconcileCreateLost(k)
  BY <1>10, <1>2 DEF ReconcileDropFinalizer, ReconcileRemoveFinalizer, ReconcileObjectGone,
     ReconcileRestorePending, ReconcileCreateRejected, ReconcileCreateNoParent,
     ReconcilePatchStatus, ReconcileUpdateStatus, ReconcileConflict, ReconcileDeleteLost,
     ReconcileFails, OperatorRestart, ReconcileCreateLost, Return
<1>11. CASE \/ UserDelete \/ CacheSync \/ OtherWatch \/ ParentDeletedInKonnect \/ ParentGone
            \/ ParentReturns \/ ParentSync \/ UNCHANGED vars
            \/ (\E u \in UIDs : UserCreate(u)) \/ (\E k \in KIDs : ExternalDelete(k))
  BY <1>11, <1>1 DEF UserDelete, CacheSync, OtherWatch, ParentDeletedInKonnect, ParentGone,
     ParentReturns, ParentSync, UserCreate, ExternalDelete, apiVars, reconVars, vars
<1> QED BY <1>3, <1>4, <1>5, <1>6, <1>7, <1>8, <1>9, <1>10, <1>11
     DEF Next, Reconcile, Failure, Environment

\* The variables other than the object and the counters.
MemoryOK ==
  /\ kind \in Kinds
  /\ cache \in Objects
  /\ uids \in SUBSET UIDs
  /\ alive \in SUBSET KIDs
  /\ tag \in [KIDs -> UIDs \cup {None}]
  /\ parent \in {"present", "cascaded", "gone"}
  /\ parentSeen \in BOOLEAN
  /\ pending \in KIDs \cup {None}
  /\ pc \in Steps
  /\ view \in Objects
  /\ eid \in KIDs \cup {None}
  /\ dirty \in BOOLEAN

LEMMA TypeParts == TypeOK <=> ObjectOK /\ CountsOK /\ MemoryOK
BY DEF TypeOK, ObjectOK, CountsOK, MemoryOK

LEMMA MemoryStep == ASSUME EntityInv, [Next]_vars PROVE MemoryOK'
<1> USE NoneAssumption, NoObjectOK
<1>0. MemoryOK /\ obj \in Objects /\ watch \in Seq(Objects) /\ StepKnows
  BY DEF EntityInv, TypeOK, MemoryOK
<1> USE <1>0
<1>1. ASSUME UNCHANGED <<kind, cache, uids, konnectVars, parent, parentSeen, pending>>,
             pc' \in Steps, view' \in Objects, eid' \in KIDs \cup {None}, dirty' \in BOOLEAN
      PROVE  MemoryOK'
  BY <1>1 DEF MemoryOK, konnectVars
<1>2. CASE ReconcileStart
  <2>1. cache.id \in KIDs \cup {None} /\ pc' \in Steps
    BY <1>2 DEF ReconcileStart, MemoryOK, Objects, Steps
  <2> QED BY <1>2, <2>1 DEF ReconcileStart, MemoryOK, apiVars, cacheVars, konnectVars
<1>3. CASE ReconcileRefs
  <2>1. view' \in Objects
    BY <1>3 DEF ReconcileRefs, Patched, MemoryOK
  <2>2. view'.id \in KIDs \cup {None}
    BY <2>1 DEF Objects
  <2> QED BY <1>3, <2>1, <2>2 DEF ReconcileRefs, Goto, Steps, MemoryOK, apiVars, cacheVars, konnectVars
<1>4. CASE ReconcileParentGone
  <2>1. PICK v \in Patched : IF v.fin THEN view' = v /\ eid' = v.id /\ Goto("parentGone") ELSE Return(FALSE)
    BY <1>4 DEF ReconcileParentGone
  <2>2. v \in Objects /\ v.id \in KIDs \cup {None}
    BY DEF Patched, MemoryOK, Objects
  <2> QED BY <1>4, <2>1, <2>2 DEF ReconcileParentGone, Goto, Return, Steps, MemoryOK, apiVars, cacheVars, konnectVars
<1>5. CASE \/ ReconcileDropFinalizer \/ ReconcileRemoveFinalizer \/ ReconcileObjectGone
           \/ ReconcileRestorePending \/ ReconcileCreateRejected \/ ReconcileCreateNoParent
           \/ ReconcilePatchStatus \/ ReconcileUpdateStatus \/ ReconcileConflict \/ ReconcileFails
  <2>1. ASSUME NEW again \in BOOLEAN, Return(again)
        PROVE  pc' \in Steps /\ view' \in Objects /\ eid' \in KIDs \cup {None} /\ dirty' \in BOOLEAN
    BY <2>1 DEF Return, Steps, MemoryOK
  <2>2. UNCHANGED <<kind, cache, uids, konnectVars, parent, parentSeen, pending>> /\ (Return(FALSE) \/ Return(TRUE))
    BY <1>5 DEF ReconcileDropFinalizer, ReconcileRemoveFinalizer, ReconcileObjectGone,
       ReconcileRestorePending, ReconcileCreateRejected, ReconcileCreateNoParent,
       ReconcilePatchStatus, ReconcileUpdateStatus, ReconcileConflict, ReconcileFails,
       apiVars, cacheVars
  <2> QED BY <1>1, <2>1, <2>2
<1>6. CASE ReconcileDelete \/ ReconcileAddFinalizer \/ ReconcileTypeSpecific
           \/ ReconcilePassPending \/ ReconcileUpdateSkipped
  BY <1>6 DEF ReconcileDelete, ReconcileAddFinalizer, ReconcileTypeSpecific, ReconcilePassPending,
     ReconcileUpdateSkipped, Goto, Steps, MemoryOK, apiVars, cacheVars, konnectVars
<1>7. ASSUME NEW k \in KIDs, KonnectAccepts(k)
      PROVE  alive' \in SUBSET KIDs /\ tag' \in [KIDs -> UIDs \cup {None}]
  BY <1>7 DEF KonnectAccepts, MemoryOK, Objects
<1>8. ASSUME NEW k \in KIDs,
             ReconcileCreate(k) \/ ReconcileRecreate(k) \/ ReconcileCreateLost(k) \/ ReconcileCreateConflict(k)
      PROVE  MemoryOK'
  <2>1. CASE ReconcileCreate(k)
    BY <1>7, <2>1 DEF ReconcileCreate, Goto, Steps, MemoryOK, apiVars, cacheVars
  <2>2. CASE ReconcileRecreate(k)
    BY <1>7, <2>2 DEF ReconcileRecreate, Goto, Steps, MemoryOK, apiVars, cacheVars
  <2>3. CASE ReconcileCreateLost(k)
    BY <1>7, <2>3 DEF ReconcileCreateLost, Return, Steps, MemoryOK, apiVars, cacheVars
  <2>4. CASE ReconcileCreateConflict(k)
    BY <2>4 DEF ReconcileCreateConflict, Goto, Steps, MemoryOK, apiVars, cacheVars, konnectVars
  <2> QED BY <1>8, <2>1, <2>2, <2>3, <2>4
<1>9. CASE ReconcileUpdate
  <2>1. eid \in KIDs /\ view.uid \in UIDs \cup {None}
    BY <1>9 DEF ReconcileUpdate, StepKnows, MemoryOK, Objects
  <2> QED BY <1>9, <2>1 DEF ReconcileUpdate, Goto, Steps, MemoryOK, apiVars, cacheVars
<1>10. CASE ReconcileDeleteLost
  BY <1>10 DEF ReconcileDeleteLost, Return, Steps, MemoryOK, apiVars, cacheVars
<1>11. CASE OperatorRestart
  BY <1>11 DEF OperatorRestart, Steps, MemoryOK, konnectVars
<1>12. CASE CacheSync
  <2>1. Head(watch) \in Objects
    BY <1>12 DEF CacheSync
  <2> QED BY <1>12, <2>1 DEF CacheSync, MemoryOK, konnectVars, reconVars
<1>13. CASE \/ UserDelete \/ OtherWatch \/ ParentDeletedInKonnect \/ ParentGone \/ ParentReturns
            \/ ParentSync \/ UNCHANGED vars
  BY <1>13 DEF UserDelete, OtherWatch, ParentDeletedInKonnect, ParentGone, ParentReturns,
     ParentSync, MemoryOK, apiVars, cacheVars, konnectVars, reconVars, vars
<1>14. ASSUME NEW u \in UIDs, UserCreate(u) PROVE MemoryOK'
  BY <1>14 DEF UserCreate, MemoryOK, cacheVars, konnectVars, reconVars
<1>15. ASSUME NEW k \in KIDs, ExternalDelete(k) PROVE MemoryOK'
  BY <1>15 DEF ExternalDelete, MemoryOK, apiVars, cacheVars, reconVars
<1> QED BY <1>2, <1>3, <1>4, <1>5, <1>6, <1>8, <1>9, <1>10, <1>11, <1>12, <1>13, <1>14, <1>15
     DEF Next, Reconcile, Failure, Environment

LEMMA InitEntity == Init => EntityInv
<1> SUFFICES ASSUME Init PROVE EntityInv
  OBVIOUS
<1> USE NoneAssumption, NoObjectOK, BoundsAssumption
<1>1. TypeOK
  <2>1. ObjectOK
    BY DEF Init, ObjectOK, Exists
  <2>2. CountsOK
    <3>1. stale \in BOOLEAN /\ dropped \in BOOLEAN
      BY DEF Init
    <3>2. failures = 0 /\ lost = 0 /\ restarts = 0 /\ external = 0 /\ parents = 0
      BY DEF Init
    <3> QED BY <3>1, <3>2 DEF CountsOK
  <2>3. MemoryOK
    BY DEF Init, MemoryOK, Steps
  <2> QED BY <2>1, <2>2, <2>3, TypeParts
<1>2. StepKnows
  BY DEF Init, StepKnows, BeforeCheck, AfterFinalizer
<1> QED BY <1>1, <1>2 DEF EntityInv

LEMMA EntityStep == EntityInv /\ [Next]_vars => EntityInv' /\ CountsGrow
<1> SUFFICES ASSUME EntityInv, [Next]_vars PROVE EntityInv' /\ CountsGrow
  OBVIOUS
<1>1. CountsOK' /\ CountsGrow
  BY CountsStep, TypeParts DEF EntityInv
<1>2. TypeOK'
  BY <1>1, ObjectStep, MemoryStep DEF TypeOK, ObjectOK, CountsOK, MemoryOK
<1> QED BY <1>1, <1>2, StepKnowsStep DEF EntityInv

-----------------------------------------------------------------------------
(* Names that Konnect keeps unique.                                        *)

\* Konnect has at most one entity of the name; it is the one whose ID is kept in
\* memory, and the one ops.Update made.
UniqueAlive ==
  kind.uniqueNames =>
    /\ \A k1, k2 \in alive : k1 = k2
    /\ pending # None => alive \subseteq {pending}
    /\ (pc = "updateStatus" /\ eid # view.id) => alive \subseteq {eid}

LEMMA UniqueStep == ASSUME EntityInv, UniqueAlive, [Next]_vars PROVE UniqueAlive'
<1> USE NoneAssumption
<1>0. TypeOK /\ StepKnows /\ alive \subseteq KIDs /\ eid \in KIDs \cup {None} /\ pending \in KIDs \cup {None}
  BY DEF EntityInv, TypeOK
<1>1. ASSUME kind' = kind, alive' \subseteq alive, pending' \in {pending, None}, pc' # "updateStatus"
      PROVE  UniqueAlive'
  BY <1>1 DEF UniqueAlive
<1>2. ASSUME UNCHANGED <<kind, pending, reconVars>>, alive' \subseteq alive
      PROVE  UniqueAlive'
  BY <1>2 DEF UniqueAlive, reconVars
<1>3. CASE \/ ReconcileStart \/ ReconcileRefs \/ ReconcileParentGone \/ ReconcileDropFinalizer
           \/ ReconcileDelete \/ ReconcileRemoveFinalizer \/ ReconcileObjectGone
           \/ ReconcileAddFinalizer \/ ReconcileTypeSpecific \/ ReconcileRestorePending
  BY <1>3, <1>1 DEF ReconcileStart, ReconcileRefs, ReconcileParentGone, ReconcileDropFinalizer,
     ReconcileDelete, ReconcileRemoveFinalizer, ReconcileObjectGone, ReconcileAddFinalizer,
     ReconcileTypeSpecific, ReconcileRestorePending, Goto, Return, apiVars, konnectVars
<1>4. CASE \/ ReconcilePassPending \/ ReconcileCreateRejected \/ ReconcileCreateNoParent
           \/ ReconcilePatchStatus \/ ReconcileUpdateStatus \/ ReconcileConflict
           \/ ReconcileDeleteLost \/ ReconcileFails \/ OperatorRestart
  BY <1>4, <1>1 DEF ReconcilePassPending, ReconcileCreateRejected, ReconcileCreateNoParent,
     ReconcilePatchStatus, ReconcileUpdateStatus, ReconcileConflict, ReconcileDeleteLost,
     ReconcileFails, OperatorRestart, Goto, Return, apiVars, konnectVars
<1>5. CASE \/ UserDelete \/ CacheSync \/ OtherWatch \/ ParentDeletedInKonnect \/ ParentGone
           \/ ParentReturns \/ ParentSync \/ UNCHANGED vars
           \/ (\E u \in UIDs : UserCreate(u)) \/ (\E k \in KIDs : ExternalDelete(k))
  BY <1>5, <1>2 DEF UserDelete, CacheSync, OtherWatch, ParentDeletedInKonnect, ParentGone,
     ParentReturns, ParentSync, UserCreate, ExternalDelete, apiVars, konnectVars, reconVars, vars
<1>6. ASSUME NEW k \in KIDs, ReconcileCreate(k) \/ ReconcileCreateLost(k) PROVE UniqueAlive'
  BY <1>0, <1>6 DEF ReconcileCreate, ReconcileCreateLost, KonnectAccepts, StepKnows, Goto, Return,
     UniqueAlive, apiVars
<1>7. ASSUME NEW k \in KIDs, ReconcileCreateConflict(k) PROVE UniqueAlive'
  BY <1>0, <1>7 DEF ReconcileCreateConflict, LookupByUID, Goto, UniqueAlive, apiVars, konnectVars
<1>8. ASSUME NEW k \in KIDs, ReconcileRecreate(k) PROVE UniqueAlive'
  BY <1>0, <1>8 DEF ReconcileRecreate, KonnectAccepts, StepKnows, Goto, UniqueAlive, apiVars
<1>9. CASE ReconcileUpdateSkipped \/ ReconcileUpdate
  BY <1>0, <1>9 DEF ReconcileUpdateSkipped, ReconcileUpdate, StepKnows, BeforeCheck, Goto,
     UniqueAlive, apiVars, konnectVars
<1> QED BY <1>3, <1>4, <1>5, <1>6, <1>7, <1>8, <1>9 DEF Next, Reconcile, Failure, Environment

-----------------------------------------------------------------------------
(* Reconciles of up-to-date copies.                                        *)

\* The IDs in use were given out, to objects that have existed.
Given ==
  /\ \A k \in alive : ~Fresh(k)
  /\ ~stale =>
       /\ obj.id # None => ~Fresh(obj.id)
       /\ view.id # None => ~Fresh(view.id)
       /\ eid # None => ~Fresh(eid)
       /\ pending # None => ~Fresh(pending)
       /\ \A k \in KIDs : tag[k] \in uids \cup {None}
       /\ pc # "idle" => view.uid \in uids

\* The copy of a reconcile under way lags behind the object only in what the
\* user did: it was marked for deletion, or it had no finalizer, is gone, and
\* perhaps another has the name.  The ID that the status has, when the reconcile
\* does not go on with it, is that of no entity.
CopyCurrent ==
  ~stale /\ pc # "idle" =>
    /\ view.uid = obj.uid => view.id = obj.id
    /\ view.uid # obj.uid => obj.id = None /\ ~view.fin
    /\ view.fin => obj.fin
    /\ view.del => view.fin /\ obj.del
    /\ pc \in AfterFinalizer => obj.fin
    /\ pc = "pending" /\ eid = None => view.id \notin alive
    /\ pc \in {"create", "patchStatus"} => view.id \notin alive
    /\ pc = "updateStatus" /\ eid # view.id => view.id \notin alive

CopyInv == EntityInv /\ UniqueAlive /\ Given /\ CopyCurrent

\* How the object changes in a step.
LEMMA ObjectFields ==
  ASSUME EntityInv
  PROVE  /\ \A u \in UIDs : UserCreate(u) =>
              /\ ~Exists(obj) /\ u \notin uids /\ uids' = uids \cup {u}
              /\ obj'.uid = u /\ obj'.id = None /\ ~obj'.del /\ ~obj'.fin
         /\ UserDelete =>
              \/ obj' = NoObject /\ ~obj.fin
              \/ obj'.uid = obj.uid /\ obj'.id = obj.id /\ obj'.fin = obj.fin /\ obj'.del
         /\ ReconcileAddFinalizer =>
              \/ obj' = obj /\ view.fin
              \/ obj'.uid = obj.uid /\ obj'.id = obj.id /\ obj'.del = obj.del /\ obj'.fin
         /\ UpdateWithoutFinalizer =>
              \/ obj' = NoObject
              \/ obj'.uid = obj.uid /\ obj'.id = obj.id /\ obj'.del = obj.del /\ ~obj'.fin
         /\ \A k \in KIDs \cup {None} : Write([obj EXCEPT !.id = k]) =>
              obj'.uid = obj.uid /\ obj'.id = k /\ obj'.del = obj.del /\ obj'.fin = obj.fin
<1>0. obj \in Objects
  BY DEF EntityInv, TypeOK
<1>1. ASSUME NEW u \in UIDs, UserCreate(u)
      PROVE  obj'.uid = u /\ obj'.id = None /\ ~obj'.del /\ ~obj'.fin
  <2>1. obj' = [NoObject EXCEPT !.uid = u]
    BY <1>1 DEF UserCreate, Write
  <2> QED BY <2>1, NoObjectOK DEF Objects
<1>2. UserDelete => \/ obj' = NoObject /\ ~obj.fin
                    \/ obj'.uid = obj.uid /\ obj'.id = obj.id /\ obj'.fin = obj.fin /\ obj'.del
  BY <1>0 DEF UserDelete, Write, Objects
<1>3. ReconcileAddFinalizer =>
        \/ obj' = obj /\ view.fin
        \/ obj'.uid = obj.uid /\ obj'.id = obj.id /\ obj'.del = obj.del /\ obj'.fin
  BY <1>0 DEF ReconcileAddFinalizer, Write, Objects
<1>4. UpdateWithoutFinalizer =>
        \/ obj' = NoObject
        \/ obj'.uid = obj.uid /\ obj'.id = obj.id /\ obj'.del = obj.del /\ ~obj'.fin
  BY <1>0 DEF UpdateWithoutFinalizer, Write, Objects
<1>5. ASSUME NEW k \in KIDs \cup {None}, Write([obj EXCEPT !.id = k])
      PROVE  obj'.uid = obj.uid /\ obj'.id = k /\ obj'.del = obj.del /\ obj'.fin = obj.fin
  BY <1>0, <1>5 DEF Write, Objects
<1> QED BY <1>1, <1>2, <1>3, <1>4, <1>5 DEF UserCreate

LEMMA GivenStep == ASSUME CopyInv, [Next]_vars PROVE Given'
<1> USE NoneAssumption, NoObjectOK
<1>0. EntityInv /\ TypeOK /\ StepKnows /\ Given /\ CopyCurrent /\ CountsGrow
  BY EntityStep DEF CopyInv, EntityInv
<1>1. /\ alive \subseteq KIDs /\ eid \in KIDs \cup {None} /\ pending \in KIDs \cup {None}
      /\ obj \in Objects /\ view \in Objects /\ cache \in Objects
      /\ tag \in [KIDs -> UIDs \cup {None}] /\ uids \subseteq UIDs
      /\ IF Exists(obj) THEN obj.uid \in uids /\ (obj.del => obj.fin) ELSE obj = NoObject
      /\ obj.id \in KIDs \cup {None} /\ view.id \in KIDs \cup {None}
  BY <1>0 DEF TypeOK, Objects
<1>2. ASSUME alive' \subseteq alive, tag' = tag, obj'.id \in {obj.id, eid, pending, None},
             pc' = "idle", view' = NoObject, eid' = None, pending' \in {pending, None}
      PROVE  Given'
  BY <1>0, <1>1, <1>2 DEF Given, Fresh, CountsGrow
<1>3. CASE ReconcileStart
  BY <1>0, <1>1, <1>3 DEF ReconcileStart, Given, Fresh, Exists, apiVars, konnectVars
<1>4. CASE ReconcileRefs
  <2>1. view' \in {view, obj} /\ (view' = obj => Exists(obj) \/ view' = view)
    BY <1>4 DEF ReconcileRefs, Patched
  <2> QED BY <1>0, <1>1, <1>4, <2>1 DEF ReconcileRefs, Given, Fresh, Exists, apiVars, konnectVars, countVars
<1>5. CASE ReconcileParentGone
  <2>1. PICK v \in Patched : IF v.fin THEN view' = v /\ eid' = v.id /\ Goto("parentGone") ELSE Return(FALSE)
    BY <1>5 DEF ReconcileParentGone
  <2>2. v = view \/ (v = obj /\ Exists(obj))
    BY DEF Patched
  <2> QED BY <1>0, <1>1, <1>5, <2>1, <2>2 DEF ReconcileParentGone, Goto, Return, Given, Fresh, Exists,
        apiVars, konnectVars, countVars
<1>6. CASE ReconcileDropFinalizer \/ ReconcileRemoveFinalizer
  <2>1. obj'.id \in {obj.id, None}
    BY <1>0, <1>6, ObjectFields DEF ReconcileDropFinalizer, ReconcileRemoveFinalizer
  <2> QED BY <1>0, <1>1, <1>6, <2>1, <1>2 DEF ReconcileDropFinalizer, ReconcileRemoveFinalizer, Return, konnectVars
<1>7. CASE ReconcileRestorePending \/ ReconcilePatchStatus \/ ReconcileUpdateStatus
  <2>1. obj'.id \in {eid, pending}
    BY <1>0, <1>1, <1>7, ObjectFields DEF ReconcileRestorePending, ReconcilePatchStatus, ReconcileUpdateStatus
  <2> QED BY <1>7, <2>1, <1>2 DEF ReconcileRestorePending, ReconcilePatchStatus, ReconcileUpdateStatus,
        Return, konnectVars
<1>8. CASE \/ ReconcileObjectGone \/ ReconcileCreateRejected \/ ReconcileCreateNoParent
           \/ ReconcileConflict \/ ReconcileFails \/ ReconcileDeleteLost
  BY <1>8, <1>2 DEF ReconcileObjectGone, ReconcileCreateRejected, ReconcileCreateNoParent,
     ReconcileConflict, ReconcileFails, ReconcileDeleteLost, Return, apiVars, konnectVars
<1>9. CASE ReconcileAddFinalizer
  <2>1. obj'.id = obj.id
    BY <1>0, <1>9, ObjectFields
  <2> QED BY <1>0, <1>9, <2>1 DEF ReconcileAddFinalizer, Given, Fresh, Goto, konnectVars, countVars
<1>10. CASE ReconcileDelete \/ ReconcileTypeSpecific \/ ReconcilePassPending \/ ReconcileUpdateSkipped
  BY <1>0, <1>10 DEF ReconcileDelete, ReconcileTypeSpecific, ReconcilePassPending,
     ReconcileUpdateSkipped, Given, Fresh, Goto, apiVars, konnectVars, countVars
<1>11. ASSUME NEW k \in KIDs, KonnectAccepts(k), UNCHANGED <<stale, uids>>, pc # "idle"
       PROVE  /\ \A x \in KIDs : Fresh(x)' => Fresh(x) /\ x # k
              /\ \A x \in alive' : ~Fresh(x)'
              /\ ~stale => \A x \in KIDs : tag'[x] \in uids \cup {None}
  <2>1. view.uid # None /\ (~stale => view.uid \in uids)
    BY <1>0, <1>11 DEF StepKnows, Exists, Given
  <2> QED BY <1>0, <1>1, <1>11, <2>1 DEF KonnectAccepts, Fresh, Given
<1>12. ASSUME NEW k \in KIDs, ReconcileCreate(k) \/ ReconcileRecreate(k) PROVE Given'
  BY <1>0, <1>1, <1>11, <1>12 DEF ReconcileCreate, ReconcileRecreate, Goto, Given, apiVars, countVars
<1>13. ASSUME NEW k \in KIDs, ReconcileCreateLost(k) PROVE Given'
  BY <1>0, <1>1, <1>11, <1>13 DEF ReconcileCreateLost, Lose, Return, Given, apiVars
<1>14. ASSUME NEW k \in KIDs, ReconcileCreateConflict(k) PROVE Given'
  BY <1>0, <1>1, <1>14 DEF ReconcileCreateConflict, LookupByUID, Goto, Given, Fresh, apiVars, konnectVars, countVars
<1>15. CASE ReconcileUpdate
  <2>1. view.uid # None /\ (~stale => view.uid \in uids) /\ eid \in KIDs
    BY <1>0, <1>1, <1>15 DEF ReconcileUpdate, StepKnows, Exists, Given
  <2> QED BY <1>0, <1>1, <1>15, <2>1 DEF ReconcileUpdate, Goto, Given, Fresh, apiVars, countVars
<1>16. CASE OperatorRestart
  BY <1>16, <1>2 DEF OperatorRestart, konnectVars
<1>17. CASE UserDelete
  <2>1. obj'.id \in {obj.id, None}
    BY <1>0, <1>17, ObjectFields
  <2> QED BY <1>0, <1>17, <2>1 DEF UserDelete, Given, Fresh, konnectVars, reconVars, countVars
<1>18. ASSUME NEW u \in UIDs, UserCreate(u) PROVE Given'
  <2>1. obj'.id = None
    BY <1>0, <1>18, ObjectFields
  <2> QED BY <1>0, <1>18, <2>1 DEF UserCreate, Given, Fresh, konnectVars, reconVars, countVars
<1>19. CASE \/ CacheSync \/ OtherWatch \/ ParentDeletedInKonnect \/ ParentGone
            \/ ParentReturns \/ ParentSync \/ UNCHANGED vars \/ (\E k \in KIDs : ExternalDelete(k))
  BY <1>0, <1>19 DEF CacheSync, OtherWatch, ParentDeletedInKonnect, ParentGone, ParentReturns, ParentSync,
     ExternalDelete, Given, Fresh, apiVars, konnectVars, reconVars, countVars, vars
<1> QED BY <1>3, <1>4, <1>5, <1>6, <1>7, <1>8, <1>9, <1>10, <1>12, <1>13, <1>14, <1>15, <1>16, <1>17,
     <1>18, <1>19 DEF Next, Reconcile, Failure, Environment

LEMMA CopyStep == ASSUME CopyInv, [Next]_vars PROVE CopyCurrent'
<1> USE NoneAssumption, NoObjectOK
<1>0. EntityInv /\ TypeOK /\ StepKnows /\ Given /\ CopyCurrent /\ CountsGrow
  BY EntityStep DEF CopyInv, EntityInv
<1>1. /\ alive \subseteq KIDs /\ eid \in KIDs \cup {None} /\ pending \in KIDs \cup {None}
      /\ obj \in Objects /\ view \in Objects
      /\ IF Exists(obj) THEN obj.uid \in uids /\ (obj.del => obj.fin) ELSE obj = NoObject
      /\ obj.id \in KIDs \cup {None} /\ view.id \in KIDs \cup {None}
  BY <1>0 DEF TypeOK, Objects
<1>2. ASSUME pc' = "idle" PROVE CopyCurrent'
  BY <1>2 DEF CopyCurrent
<1>3. CASE ReconcileStart
  BY <1>1, <1>3 DEF ReconcileStart, CopyCurrent, AfterFinalizer, Exists, apiVars
<1>4. CASE ReconcileRefs
  <2>1. view' \in {view, obj} /\ (view' = obj => Exists(obj) \/ view' = view)
    BY <1>4 DEF ReconcileRefs, Patched
  <2> QED BY <1>0, <1>1, <1>4, <2>1 DEF ReconcileRefs, Goto, CopyCurrent, AfterFinalizer, Exists, apiVars, countVars
<1>5. CASE ReconcileParentGone
  <2>1. PICK v \in Patched : IF v.fin THEN view' = v /\ eid' = v.id /\ Goto("parentGone") ELSE Return(FALSE)
    BY <1>5 DEF ReconcileParentGone
  <2>2. v = view \/ (v = obj /\ Exists(obj))
    BY DEF Patched
  <2> QED BY <1>0, <1>1, <1>5, <2>1, <2>2 DEF ReconcileParentGone, Goto, Return, CopyCurrent, AfterFinalizer,
        Exists, apiVars, countVars
<1>6. CASE \/ ReconcileDropFinalizer \/ ReconcileRemoveFinalizer \/ ReconcileObjectGone
           \/ ReconcileRestorePending \/ ReconcileCreateRejected \/ ReconcileCreateNoParent
           \/ ReconcilePatchStatus \/ ReconcileUpdateStatus \/ ReconcileConflict
           \/ ReconcileDeleteLost \/ ReconcileFails \/ OperatorRestart
           \/ \E k \in KIDs : ReconcileCreateLost(k)
  BY <1>6, <1>2 DEF ReconcileDropFinalizer, ReconcileRemoveFinalizer, ReconcileObjectGone,
     ReconcileRestorePending, ReconcileCreateRejected, ReconcileCreateNoParent,
     ReconcilePatchStatus, ReconcileUpdateStatus, ReconcileConflict, ReconcileDeleteLost,
     ReconcileFails, OperatorRestart, ReconcileCreateLost, Return
<1>7. CASE ReconcileDelete
  BY <1>0, <1>7 DEF ReconcileDelete, Goto, CopyCurrent, AfterFinalizer, apiVars, countVars
<1>8. CASE ReconcileAddFinalizer
  <2>1. \/ obj' = obj /\ view.fin
        \/ obj'.uid = obj.uid /\ obj'.id = obj.id /\ obj'.del = obj.del /\ obj'.fin
    BY <1>0, <1>8, ObjectFields
  <2> QED BY <1>0, <1>1, <1>8, <2>1 DEF ReconcileAddFinalizer, Goto, CopyCurrent, countVars
<1>9. CASE ReconcileTypeSpecific \/ ReconcilePassPending
  BY <1>0, <1>1, <1>9 DEF ReconcileTypeSpecific, ReconcilePassPending, Goto, StepKnows, BeforeCheck, CopyCurrent,
     AfterFinalizer, apiVars, konnectVars, countVars
<1>10. ASSUME NEW k \in KIDs, ReconcileCreate(k) PROVE CopyCurrent'
  BY <1>0, <1>1, <1>10 DEF ReconcileCreate, KonnectAccepts, Goto, Given, CopyCurrent, AfterFinalizer, apiVars, countVars
<1>11. ASSUME NEW k \in KIDs, ReconcileCreateConflict(k) PROVE CopyCurrent'
  BY <1>0, <1>1, <1>11 DEF ReconcileCreateConflict, Goto, CopyCurrent, AfterFinalizer, apiVars, konnectVars, countVars
<1>12. ASSUME NEW k \in KIDs, ReconcileRecreate(k) PROVE CopyCurrent'
  BY <1>0, <1>1, <1>12 DEF ReconcileRecreate, KonnectAccepts, Goto, Given, StepKnows, BeforeCheck, CopyCurrent,
     AfterFinalizer, apiVars, countVars
<1>13. CASE ReconcileUpdateSkipped \/ ReconcileUpdate
  BY <1>0, <1>1, <1>13 DEF ReconcileUpdateSkipped, ReconcileUpdate, Goto, StepKnows, BeforeCheck, CopyCurrent,
     AfterFinalizer, apiVars, countVars
<1>14. CASE UserDelete
  <2>1. \/ obj' = NoObject /\ ~obj.fin
        \/ obj'.uid = obj.uid /\ obj'.id = obj.id /\ obj'.fin = obj.fin /\ obj'.del
    BY <1>0, <1>14, ObjectFields
  <2> QED BY <1>0, <1>1, <1>14, <2>1 DEF UserDelete, StepKnows, Exists, CopyCurrent, konnectVars, reconVars, countVars
<1>15. ASSUME NEW u \in UIDs, UserCreate(u) PROVE CopyCurrent'
  <2>1. /\ ~Exists(obj) /\ u \notin uids
        /\ obj'.uid = u /\ obj'.id = None /\ ~obj'.del /\ ~obj'.fin
    BY <1>0, <1>15, ObjectFields
  <2> QED BY <1>0, <1>1, <1>15, <2>1 DEF UserCreate, Given, CopyCurrent, konnectVars, reconVars, countVars
<1>16. CASE \/ CacheSync \/ OtherWatch \/ ParentDeletedInKonnect \/ ParentGone
            \/ ParentReturns \/ ParentSync \/ UNCHANGED vars \/ (\E k \in KIDs : ExternalDelete(k))
  BY <1>0, <1>16 DEF CacheSync, OtherWatch, ParentDeletedInKonnect, ParentGone, ParentReturns, ParentSync,
     ExternalDelete, CopyCurrent, apiVars, konnectVars, reconVars, countVars, vars
<1> QED BY <1>3, <1>4, <1>5, <1>6, <1>7, <1>8, <1>9, <1>10, <1>11, <1>12, <1>13, <1>14, <1>15, <1>16
     DEF Next, Reconcile, Failure, Environment

LEMMA InitCopy == Init => CopyInv
<1> SUFFICES ASSUME Init PROVE CopyInv
  OBVIOUS
<1> USE NoneAssumption, NoObjectOK
<1>1. EntityInv
  BY InitEntity
<1>2. UniqueAlive /\ CopyCurrent
  BY DEF Init, UniqueAlive, CopyCurrent
<1>3. Given
  BY DEF Init, Given, Fresh
<1> QED BY <1>1, <1>2, <1>3 DEF CopyInv

LEMMA CopyInvStep == CopyInv /\ [Next]_vars => CopyInv'
BY EntityStep, UniqueStep, GivenStep, CopyStep DEF CopyInv

\* What the reconciles of every type can rely on, at every step.
THEOREM EntityInvariance == Spec => []CopyInv
BY InitCopy, CopyInvStep, PTL DEF Spec

\* Every variable keeps its type; an object that is marked for deletion still has
\* a finalizer, as the API server has it.
THEOREM EntityTypeCorrect == Spec => []TypeOK
<1>1. CopyInv => TypeOK
  BY DEF CopyInv, EntityInv
<1> QED BY <1>1, EntityInvariance, PTL

-----------------------------------------------------------------------------
(* No entity is abandoned.                                                 *)

\* The ID that a status write puts on the object is the one it has, unless that
\* is the ID of no entity any more.
LEMMA AbandonStep ==
  ASSUME CopyInv, Next, kind.uniqueNames \/ ~stale, obj.uid = obj'.uid, obj.id \in alive
  PROVE  obj'.id = obj.id
<1> USE NoneAssumption, NoObjectOK
<1>0. EntityInv /\ TypeOK /\ StepKnows /\ UniqueAlive /\ CopyCurrent
  BY DEF CopyInv, EntityInv
<1>1. /\ alive \subseteq KIDs /\ eid \in KIDs \cup {None} /\ pending \in KIDs \cup {None}
      /\ IF Exists(obj) THEN obj.uid \in uids /\ (obj.del => obj.fin) ELSE obj = NoObject
  BY <1>0 DEF TypeOK
<1>2. obj.id # None /\ obj # NoObject /\ Exists(obj)
  BY <1>1
<1>3. CASE ReconcileRestorePending
  <2>1. obj'.id = pending
    BY <1>0, <1>1, <1>3, ObjectFields DEF ReconcileRestorePending
  <2>2. CASE kind.uniqueNames
    BY <1>3, <2>1, <2>2, <1>0 DEF ReconcileRestorePending, UniqueAlive
  <2>3. CASE ~stale
    BY <1>2, <1>3, <2>3, <1>0 DEF ReconcileRestorePending, CopyCurrent
  <2> QED BY <2>2, <2>3
<1>4. CASE ReconcilePatchStatus
  <2>1. obj'.id = eid
    BY <1>0, <1>1, <1>4, ObjectFields DEF ReconcilePatchStatus
  <2>2. CASE kind.uniqueNames
    BY <1>4, <2>1, <2>2, <1>0 DEF ReconcilePatchStatus, StepKnows, UniqueAlive
  <2>3. CASE ~stale
    BY <1>2, <1>4, <2>3, <1>0 DEF ReconcilePatchStatus, CopyCurrent
  <2> QED BY <2>2, <2>3
<1>5. CASE ReconcileUpdateStatus
  <2>1. obj'.id = eid
    BY <1>0, <1>1, <1>5, ObjectFields DEF ReconcileUpdateStatus
  <2>2. CASE kind.uniqueNames
    BY <1>5, <2>1, <2>2, <1>0 DEF ReconcileUpdateStatus, StepKnows, UniqueAlive
  <2>3. CASE ~stale
    BY <1>2, <1>5, <2>1, <2>3, <1>0 DEF ReconcileUpdateStatus, CopyCurrent
  <2> QED BY <2>2, <2>3
<1>6. CASE ReconcileDropFinalizer \/ ReconcileRemoveFinalizer
  BY <1>0, <1>2, <1>6, ObjectFields DEF ReconcileDropFinalizer, ReconcileRemoveFinalizer, Exists
<1>7. CASE UserDelete \/ ReconcileAddFinalizer
  BY <1>0, <1>2, <1>7, ObjectFields DEF Exists
<1>8. ASSUME NEW u \in UIDs, UserCreate(u) PROVE obj' = obj
  BY <1>2, <1>8 DEF UserCreate
<1>9. CASE \/ ReconcileStart \/ ReconcileRefs \/ ReconcileParentGone \/ ReconcileDelete
           \/ ReconcileObjectGone \/ ReconcileTypeSpecific \/ ReconcilePassPending
           \/ ReconcileCreateRejected \/ ReconcileCreateNoParent \/ ReconcileUpdateSkipped
           \/ ReconcileUpdate \/ ReconcileConflict
           \/ \E k \in KIDs : \/ ReconcileCreate(k) \/ ReconcileCreateConflict(k)
                              \/ ReconcileRecreate(k)
  BY <1>9 DEF apiVars, ReconcileStart, ReconcileRefs, ReconcileParentGone,
     ReconcileDelete, ReconcileObjectGone, ReconcileTypeSpecific, ReconcilePassPending,
     ReconcileCreateRejected, ReconcileCreateNoParent, ReconcileUpdateSkipped,
     ReconcileUpdate, ReconcileConflict, ReconcileCreate, ReconcileCreateConflict, ReconcileRecreate
<1>10. CASE \/ ReconcileDeleteLost \/ ReconcileFails \/ OperatorRestart \/ CacheSync \/ OtherWatch
            \/ ParentDeletedInKonnect \/ ParentGone \/ ParentReturns \/ ParentSync
            \/ \E k \in KIDs : ReconcileCreateLost(k) \/ ExternalDelete(k)
  BY <1>10 DEF apiVars, ReconcileDeleteLost, ReconcileFails, OperatorRestart, CacheSync, OtherWatch,
     ParentDeletedInKonnect, ParentGone, ParentReturns, ParentSync, ReconcileCreateLost, ExternalDelete
<1> QED BY <1>3, <1>4, <1>5, <1>6, <1>7, <1>8, <1>9, <1>10 DEF Next, Reconcile, Failure, Environment

\* No status write replaces the ID of an entity that still exists: for up-to-date
\* copies whatever the type, and with unique names for old copies too.
THEOREM EntitiesNotAbandoned == Spec => NeverAbandons
<1>1. CopyInv /\ [Next]_vars =>
        [(/\ kind.uniqueNames \/ ~stale
          /\ obj.uid = obj'.uid /\ obj.id \in alive) => obj'.id = obj.id]_vars
  BY AbandonStep
<1> QED BY <1>1, EntityInvariance, PTL DEF Spec, NeverAbandons

-----------------------------------------------------------------------------
(* No object has two entities.                                             *)

\* The ID by which the entity of o is known: the one in memory, else the status.
KnownID(o) == IF pending # None THEN pending ELSE o.id
KnownBy(o) == \A k \in alive : tag[k] = o.uid => k = KnownID(o)

\* The status has the ID in memory or none, or the entity it names is gone.
MemoryAgrees(o) ==
  pending # None => o.id \in {None, pending} \/ (kind.checksID /\ o.id \notin alive)

\* The types whose entities may have equal names.
Repeatable == ~stale /\ NeverLostTrack /\ kind.upserts /\ ~kind.uniqueNames

\* The object, and the copy of a reconcile, know the only entity that carries
\* their UID; a deleted object need not, it creates nothing any more.
EntityKnown ==
  Repeatable =>
    /\ \A k1, k2 \in alive : tag[k1] = tag[k2] => k1 = k2
    /\ MemoryAgrees(obj)
    /\ ~obj.del => KnownBy(obj)
    /\ pc # "idle" =>
         /\ MemoryAgrees(view)
         /\ ~view.del => KnownBy(view)
         /\ view.uid # obj.uid => \A k \in alive : tag[k] # obj.uid
         /\ pc = "pending" /\ eid # None /\ pending # None => eid = pending

LEMMA KnownStep == ASSUME CopyInv, EntityKnown, [Next]_vars PROVE EntityKnown'
<1> USE NoneAssumption, NoObjectOK
<1>0. EntityInv /\ TypeOK /\ StepKnows /\ Given /\ CopyCurrent /\ CountsGrow
  BY EntityStep DEF CopyInv, EntityInv
<1>1. /\ alive \subseteq KIDs /\ eid \in KIDs \cup {None} /\ pending \in KIDs \cup {None}
      /\ obj \in Objects /\ view \in Objects /\ tag \in [KIDs -> UIDs \cup {None}]
      /\ IF Exists(obj) THEN obj.uid \in uids /\ (obj.del => obj.fin) ELSE obj = NoObject
      /\ obj.id \in KIDs \cup {None} /\ view.id \in KIDs \cup {None}
      /\ \A k \in alive : tag[k] # None
  BY <1>0 DEF TypeOK, Objects, Given, Fresh
<1>2. Repeatable' => Repeatable
  BY <1>0 DEF Repeatable, CountsGrow
<1> SUFFICES ASSUME Repeatable' PROVE EntityKnown'
  BY DEF EntityKnown
<1>3. /\ Repeatable
      /\ \A k1, k2 \in alive : tag[k1] = tag[k2] => k1 = k2
      /\ MemoryAgrees(obj)
      /\ ~obj.del => KnownBy(obj)
      /\ pc # "idle" =>
           /\ MemoryAgrees(view)
           /\ ~view.del => KnownBy(view)
           /\ view.uid # obj.uid => \A k \in alive : tag[k] # obj.uid
           /\ pc = "pending" /\ eid # None /\ pending # None => eid = pending
  BY <1>2 DEF EntityKnown
<1> USE DEF KnownID, KnownBy, MemoryAgrees
\* The reconcile ends, and the object stays as it is or loses its finalizer.
<1>4. ASSUME alive' \subseteq alive, UNCHANGED <<kind, tag, pending>>, pc' = "idle",
             \/ obj'.uid = obj.uid /\ obj'.id = obj.id /\ obj'.del = obj.del
             \/ obj' = NoObject
      PROVE  EntityKnown'
  BY <1>1, <1>3, <1>4 DEF EntityKnown
<1>5. CASE ReconcileStart
  <2>1. cache = obj
    BY <1>5 DEF ReconcileStart, Repeatable
  <2> QED BY <1>1, <1>3, <1>5, <2>1 DEF ReconcileStart, EntityKnown, Exists, apiVars, konnectVars
<1>6. CASE ReconcileRefs
  <2>1. view' \in {view, obj} /\ (view' = obj => Exists(obj) \/ view' = view)
    BY <1>6 DEF ReconcileRefs, Patched
  <2> QED BY <1>3, <1>6, <2>1 DEF ReconcileRefs, Goto, EntityKnown, apiVars, konnectVars
<1>7. CASE ReconcileParentGone
  <2>1. PICK v \in Patched : IF v.fin THEN view' = v /\ eid' = v.id /\ Goto("parentGone") ELSE Return(FALSE)
    BY <1>7 DEF ReconcileParentGone
  <2>2. v = view \/ (v = obj /\ Exists(obj))
    BY DEF Patched
  <2> QED BY <1>3, <1>7, <2>1, <2>2 DEF ReconcileParentGone, Goto, Return, EntityKnown, apiVars, konnectVars
<1>8. CASE ReconcileDropFinalizer \/ ReconcileRemoveFinalizer
  <2>1. \/ obj'.uid = obj.uid /\ obj'.id = obj.id /\ obj'.del = obj.del
        \/ obj' = NoObject
    BY <1>0, <1>8, ObjectFields DEF ReconcileDropFinalizer, ReconcileRemoveFinalizer
  <2> QED BY <1>4, <1>8, <2>1 DEF ReconcileDropFinalizer, ReconcileRemoveFinalizer, Return, konnectVars
<1>9. CASE \/ ReconcileObjectGone \/ ReconcileCreateRejected \/ ReconcileCreateNoParent
           \/ ReconcileConflict \/ ReconcileFails
  BY <1>4, <1>9 DEF ReconcileObjectGone, ReconcileCreateRejected, ReconcileCreateNoParent,
     ReconcileConflict, ReconcileFails, Return, apiVars, konnectVars
<1>10. CASE ReconcileDelete
  <2>1. view.del /\ obj.del
    BY <1>0, <1>3, <1>10 DEF ReconcileDelete, StepKnows, CopyCurrent, Repeatable
  <2> QED BY <1>1, <1>3, <1>10, <2>1 DEF ReconcileDelete, Goto, EntityKnown, apiVars
<1>11. CASE ReconcileAddFinalizer
  <2>1. obj'.uid = obj.uid /\ obj'.id = obj.id /\ obj'.del = obj.del
    BY <1>0, <1>11, ObjectFields
  <2> QED BY <1>3, <1>11, <2>1 DEF ReconcileAddFinalizer, Goto, EntityKnown, konnectVars
<1>12. CASE ReconcileTypeSpecific
  <2>1. eid' # None /\ pending # None => eid' = pending
    BY <1>0, <1>1, <1>3, <1>12 DEF ReconcileTypeSpecific, StepKnows, BeforeCheck
  <2> QED BY <1>3, <1>12, <2>1 DEF ReconcileTypeSpecific, Goto, EntityKnown, apiVars, konnectVars
<1>13. CASE ReconcilePassPending
  <2>1. eid # None /\ pending # None => view.id = pending
    BY <1>0, <1>3, <1>13 DEF ReconcilePassPending, StepKnows
  <2>2. view.uid = obj.uid => view.id = obj.id
    BY <1>0, <1>3, <1>13 DEF ReconcilePassPending, CopyCurrent, Repeatable
  <2> QED BY <1>1, <1>3, <1>13, <2>1, <2>2 DEF ReconcilePassPending, Goto, EntityKnown, apiVars, konnectVars
<1>14. ASSUME NEW k \in KIDs, ReconcileCreate(k) PROVE EntityKnown'
  <2>1. /\ pending = None /\ view.id \notin alive /\ (kind.checksID \/ view.id = None)
        /\ view.uid = obj.uid => view.id = obj.id
        /\ view.uid # obj.uid => obj.id = None
        /\ view.del => obj.del
        /\ view.id # k /\ obj.id # k
    BY <1>0, <1>3, <1>14 DEF ReconcileCreate, KonnectAccepts, StepKnows, CopyCurrent, Given, Repeatable
  <2>2. ~view.del
    BY <1>0, <1>14 DEF ReconcileCreate, StepKnows, AfterFinalizer
  <2>3. \A j \in alive : tag[j] # view.uid
    BY <1>3, <1>14, <2>1, <2>2 DEF ReconcileCreate
  <2>4. alive' = alive \cup {k} /\ tag' = [tag EXCEPT ![k] = view.uid] /\ pending' = k
    BY <1>14 DEF ReconcileCreate, KonnectAccepts
  <2> QED BY <1>1, <1>3, <1>14, <2>1, <2>3, <2>4 DEF ReconcileCreate, Goto, EntityKnown, apiVars
<1>15. ASSUME NEW k \in KIDs, ReconcileCreateConflict(k) \/ ReconcileRecreate(k) PROVE FALSE
  BY <1>3, <1>15 DEF ReconcileCreateConflict, ReconcileRecreate, Repeatable
<1>16. ~Lose /\ ~OperatorRestart
  BY <1>0, <1>3 DEF TypeOK, Lose, OperatorRestart, Repeatable, NeverLostTrack
<1>17. CASE ReconcilePatchStatus \/ ReconcileRestorePending
  <2>1. obj'.uid = obj.uid /\ obj'.id = pending /\ obj'.del = obj.del
    BY <1>0, <1>1, <1>17, ObjectFields DEF ReconcilePatchStatus, ReconcileRestorePending, StepKnows
  <2>2. pending # None
    BY <1>0, <1>17 DEF ReconcilePatchStatus, ReconcileRestorePending, StepKnows
  <2> QED BY <1>3, <1>17, <2>1, <2>2 DEF ReconcilePatchStatus, ReconcileRestorePending, Return, EntityKnown, konnectVars
<1>18. CASE ReconcileUpdateStatus
  <2>1. eid = obj.id
    BY <1>0, <1>3, <1>18 DEF ReconcileUpdateStatus, StepKnows, Repeatable
  <2>2. obj'.uid = obj.uid /\ obj'.id = obj.id /\ obj'.del = obj.del
    BY <1>0, <1>1, <1>18, <2>1, ObjectFields DEF ReconcileUpdateStatus
  <2> QED BY <1>4, <1>18, <2>2 DEF ReconcileUpdateStatus, Return, konnectVars
<1>19. CASE ReconcileUpdateSkipped
  BY <1>3, <1>19 DEF ReconcileUpdateSkipped, Goto, EntityKnown, apiVars, konnectVars
<1>20. CASE ReconcileUpdate
  <2>1. /\ pending = None /\ eid = view.id /\ eid \in KIDs /\ ~view.del
        /\ view.uid = obj.uid => view.id = obj.id
        /\ view.uid # obj.uid => obj.id = None
    BY <1>0, <1>1, <1>3, <1>20 DEF ReconcileUpdate, StepKnows, BeforeCheck, AfterFinalizer, CopyCurrent, Repeatable
  <2>2. alive' = alive \cup {eid} /\ tag' = [tag EXCEPT ![eid] = view.uid]
    BY <1>20 DEF ReconcileUpdate
  <2> QED BY <1>1, <1>3, <1>20, <2>1, <2>2 DEF ReconcileUpdate, Goto, EntityKnown, apiVars
<1>21. CASE UserDelete
  <2>1. obj' = NoObject \/ (obj'.uid = obj.uid /\ obj'.id = obj.id /\ obj'.del)
    BY <1>0, <1>21, ObjectFields
  <2> QED BY <1>1, <1>3, <1>21, <2>1 DEF UserDelete, EntityKnown, konnectVars, reconVars
<1>22. ASSUME NEW u \in UIDs, UserCreate(u) PROVE EntityKnown'
  <2>1. obj'.uid = u /\ obj'.id = None /\ u \notin uids
    BY <1>0, <1>22, ObjectFields
  <2>2. \A k \in alive : tag[k] # u
    BY <1>0, <1>1, <1>3, <2>1 DEF Given, Repeatable
  <2> QED BY <1>3, <1>22, <2>1, <2>2 DEF UserCreate, EntityKnown, konnectVars, reconVars
<1>23. CASE \/ CacheSync \/ OtherWatch \/ ParentDeletedInKonnect \/ ParentGone
            \/ ParentReturns \/ ParentSync \/ UNCHANGED vars \/ (\E k \in KIDs : ExternalDelete(k))
  BY <1>3, <1>23 DEF CacheSync, OtherWatch, ParentDeletedInKonnect, ParentGone, ParentReturns, ParentSync,
     ExternalDelete, EntityKnown, apiVars, konnectVars, reconVars, countVars, vars
<1>24. ~ReconcileDeleteLost /\ \A k \in KIDs : ~ReconcileCreateLost(k)
  BY <1>16 DEF ReconcileDeleteLost, ReconcileCreateLost
<1> QED BY <1>5, <1>6, <1>7, <1>8, <1>9, <1>10, <1>11, <1>12, <1>13, <1>14, <1>15, <1>16, <1>17, <1>18,
     <1>19, <1>20, <1>21, <1>22, <1>23, <1>24 DEF Next, Reconcile, Failure, Environment

\* On old copies: an ID was given out and is not in memory any more.
Forgotten == pending = None /\ \E k \in KIDs : ~Fresh(k)

\* A copy of the object is not deleted, knows no ID but those given out, and
\* carries one when the memory does not.
CopyKnows(o) ==
  /\ ~o.del
  /\ o.id # None => ~Fresh(o.id)
  /\ Forgotten => o.id # None

\* Once a version of the object has an ID, all later ones do.
IDStays ==
  /\ cache.id # None => obj.id # None
  /\ \A i \in 1..Len(watch) :
       /\ cache.id # None => watch[i].id # None
       /\ watch[i].id # None => obj.id # None
       /\ \A j \in i..Len(watch) : watch[i].id # None => watch[j].id # None

\* The types of equal names, while the ID is remembered.
RememberedOnce == Remembered /\ NeverLostTrack /\ ~kind.uniqueNames

\* Only one ID is ever given out, whatever copies the reconciles start on.
OneID ==
  RememberedOnce =>
    /\ \A k1, k2 \in KIDs : ~Fresh(k1) /\ ~Fresh(k2) => k1 = k2
    /\ pending # None => ~Fresh(pending)
    /\ eid # None => ~Fresh(eid)
    /\ CopyKnows(obj)
    /\ CopyKnows(cache)
    /\ pc # "idle" => CopyKnows(view)
    /\ \A i \in 1..Len(watch) : CopyKnows(watch[i])
    /\ IDStays

\* The versions the informer has yet to receive, after a write.
LEMMA WatchAfterWrite ==
  ASSUME ObjectOK, NEW o \in Objects, Write(o)
  PROVE  /\ Len(watch) \in Nat /\ Len(watch') \in Nat /\ Len(watch) <= Len(watch')
         /\ \A i \in 1..Len(watch) : watch'[i] = watch[i]
         /\ \A i \in 1..Len(watch') : i \in 1..Len(watch) \/ (watch'[i] = o /\ i = Len(watch'))
BY DEF ObjectOK, Write

LEMMA OneIDStep == ASSUME CopyInv, OneID, [Next]_vars PROVE OneID'
<1> USE NoneAssumption, NoObjectOK
<1>0. EntityInv /\ TypeOK /\ StepKnows /\ Given /\ CountsGrow /\ ObjectOK
  BY EntityStep, TypeParts DEF CopyInv, EntityInv
<1>1. /\ alive \subseteq KIDs /\ eid \in KIDs \cup {None} /\ pending \in KIDs \cup {None}
      /\ obj \in Objects /\ view \in Objects /\ cache \in Objects /\ watch \in Seq(Objects)
      /\ tag \in [KIDs -> UIDs \cup {None}] /\ uids \subseteq UIDs
      /\ IF Exists(obj) THEN obj.uid \in uids /\ (obj.del => obj.fin) ELSE obj = NoObject
      /\ obj.id \in KIDs \cup {None} /\ view.id \in KIDs \cup {None}
      /\ obj.uid \in UIDs \cup {None} /\ view.uid \in UIDs \cup {None}
  BY <1>0 DEF TypeOK, Objects
<1> SUFFICES ASSUME RememberedOnce' PROVE OneID'
  BY DEF OneID
<1>2. /\ kind.upserts /\ ~kind.checksID /\ ~kind.uniqueNames /\ kind' = kind
      /\ ~dropped /\ ~dropped' /\ NeverLostTrack
      /\ uids' \subseteq {obj'.uid} /\ ~obj'.del /\ uids \subseteq uids'
  BY <1>0 DEF RememberedOnce, Remembered, KeepsID, CountsGrow
\* The user deletes the object: it does not count any more.
<1>3. ~UserDelete
  <2> SUFFICES ASSUME UserDelete PROVE FALSE
    OBVIOUS
  <2>1. Exists(obj) /\ (obj' = NoObject \/ obj'.del)
    BY <1>0, ObjectFields DEF UserDelete
  <2> QED BY <1>1, <1>2, <2>1 DEF Exists
<1>4. RememberedOnce
  <2>1. obj'.uid = obj.uid /\ obj'.del = obj.del => RememberedOnce
    BY <1>2 DEF RememberedOnce, Remembered, KeepsID
  <2>2. ASSUME NEW u \in UIDs, UserCreate(u) PROVE RememberedOnce
    <3>1. ~Exists(obj) /\ u \notin uids /\ obj'.uid = u
      BY <1>0, <2>2, ObjectFields
    <3>2. obj = NoObject /\ uids = {}
      BY <1>1, <1>2, <3>1
    <3> QED BY <1>2, <3>2 DEF RememberedOnce, Remembered, KeepsID
  <2>3. ASSUME UpdateWithoutFinalizer, Exists(obj) PROVE obj'.uid = obj.uid /\ obj'.del = obj.del
    BY <1>0, <1>1, <1>2, <2>3, ObjectFields DEF Exists
  <2>4. CASE ReconcileDropFinalizer \/ ReconcileRemoveFinalizer
    BY <1>0, <2>1, <2>3, <2>4 DEF ReconcileDropFinalizer, ReconcileRemoveFinalizer,
       UpdateWithoutFinalizer, StepKnows
  <2>5. CASE ReconcileRestorePending \/ ReconcilePatchStatus \/ ReconcileUpdateStatus \/ ReconcileAddFinalizer
    BY <1>0, <1>1, <2>1, <2>5, ObjectFields DEF ReconcileRestorePending, ReconcilePatchStatus, ReconcileUpdateStatus
  <2>6. CASE \/ ReconcileStart \/ ReconcileRefs \/ ReconcileParentGone \/ ReconcileDelete
             \/ ReconcileObjectGone \/ ReconcileTypeSpecific \/ ReconcilePassPending
             \/ ReconcileCreateRejected \/ ReconcileCreateNoParent \/ ReconcileUpdateSkipped
             \/ ReconcileUpdate \/ ReconcileConflict
             \/ \E k \in KIDs : \/ ReconcileCreate(k) \/ ReconcileCreateConflict(k)
                                \/ ReconcileRecreate(k)
    BY <2>1, <2>6 DEF apiVars, ReconcileStart, ReconcileRefs, ReconcileParentGone,
       ReconcileDelete, ReconcileObjectGone, ReconcileTypeSpecific, ReconcilePassPending,
       ReconcileCreateRejected, ReconcileCreateNoParent, ReconcileUpdateSkipped,
       ReconcileUpdate, ReconcileConflict, ReconcileCreate, ReconcileCreateConflict, ReconcileRecreate
  <2>7. CASE \/ ReconcileDeleteLost \/ ReconcileFails \/ OperatorRestart \/ CacheSync \/ OtherWatch
             \/ ParentDeletedInKonnect \/ ParentGone \/ ParentReturns \/ ParentSync \/ UNCHANGED vars
             \/ \E k \in KIDs : ReconcileCreateLost(k) \/ ExternalDelete(k)
    BY <2>1, <2>7 DEF apiVars, ReconcileDeleteLost, ReconcileFails, OperatorRestart, CacheSync, OtherWatch, vars,
       ParentDeletedInKonnect, ParentGone, ParentReturns, ParentSync, ReconcileCreateLost, ExternalDelete
  <2> QED BY <1>3, <2>2, <2>4, <2>5, <2>6, <2>7 DEF Next, Reconcile, Failure, Environment
<1>5. /\ \A k1, k2 \in KIDs : ~Fresh(k1) /\ ~Fresh(k2) => k1 = k2
      /\ pending # None => ~Fresh(pending)
      /\ eid # None => ~Fresh(eid)
      /\ CopyKnows(obj) /\ CopyKnows(cache) /\ (pc # "idle" => CopyKnows(view))
      /\ \A i \in 1..Len(watch) : CopyKnows(watch[i])
      /\ IDStays
  BY <1>4 DEF OneID
\* A write to the object that leaves it its ID or gives it the only one.
<1>6. ASSUME NEW o \in Objects, Write(o), ~o.del, o.id # None => ~Fresh(o.id),
             o.id = obj.id \/ o.id # None, UNCHANGED <<kind, tag, pending, cache>>,
             eid' # None => ~Fresh(eid'), pc' # "idle" => view' = view /\ pc # "idle"
      PROVE  OneID'
  <2>1. obj' = o
    BY <1>0, <1>6, WriteOK
  <2>2. Forgotten' = Forgotten /\ \A k : Fresh(k)' = Fresh(k)
    BY <1>6 DEF Forgotten, Fresh
  <2>3. CopyKnows(obj)' /\ CopyKnows(cache)' /\ (pc' # "idle" => CopyKnows(view)')
    BY <1>5, <1>6, <2>1, <2>2 DEF CopyKnows, Fresh
  <2>4. \A i \in 1..Len(watch') : CopyKnows(watch[i])'
    BY <1>0, <1>5, <1>6, <2>1, <2>2, <2>3, WatchAfterWrite DEF CopyKnows, Fresh
  <2>5. IDStays'
    BY <1>0, <1>5, <1>6, <2>1, WatchAfterWrite DEF IDStays
  <2> QED BY <1>5, <1>6, <2>2, <2>3, <2>4, <2>5 DEF OneID, Fresh
\* Steps that leave the object and the IDs alone.
<1>7. ASSUME UNCHANGED <<kind, obj, watch, cache, tag, pending>>,
             pc' # "idle" => CopyKnows(view'), eid' # None => ~Fresh(eid')
      PROVE  OneID'
  BY <1>5, <1>7 DEF OneID, CopyKnows, Forgotten, Fresh, IDStays
<1>8. CASE ReconcileStart
  BY <1>5, <1>7, <1>8 DEF ReconcileStart, CopyKnows, apiVars, cacheVars, konnectVars
<1>9. CASE ReconcileRefs
  <2>1. view' = view \/ view' = obj
    BY <1>9 DEF ReconcileRefs, Patched
  <2>2. CopyKnows(view') /\ eid' = view'.id
    BY <1>5, <1>9, <2>1 DEF ReconcileRefs
  <2> QED BY <1>7, <1>9, <2>2 DEF ReconcileRefs, CopyKnows, apiVars, cacheVars, konnectVars
<1>10. CASE ReconcileParentGone
  <2>1. PICK v \in Patched : IF v.fin THEN view' = v /\ eid' = v.id /\ Goto("parentGone") ELSE Return(FALSE)
    BY <1>10 DEF ReconcileParentGone
  <2>2. CopyKnows(v)
    BY <1>5, <1>10 DEF ReconcileParentGone, Patched
  <2> QED BY <1>7, <1>10, <2>1, <2>2 DEF ReconcileParentGone, Return, CopyKnows, apiVars, cacheVars, konnectVars
<1>11. CASE ReconcileDropFinalizer
  <2>1. view = obj /\ Exists(obj) /\ ~obj.del
    BY <1>0, <1>5, <1>11 DEF ReconcileDropFinalizer, UpdateWithoutFinalizer, StepKnows, CopyKnows
  <2> DEFINE o == [obj EXCEPT !.fin = FALSE]
  <2>2. o \in Objects /\ o.id = obj.id /\ o.del = obj.del
    BY <1>1 DEF Objects
  <2>3. Write(o)
    BY <1>11, <2>1 DEF ReconcileDropFinalizer, UpdateWithoutFinalizer
  <2> HIDE DEF o
  <2> QED BY <1>5, <1>6, <1>11, <2>1, <2>2, <2>3 DEF ReconcileDropFinalizer, Return, CopyKnows, cacheVars, konnectVars
<1>12. ~ReconcileDelete /\ ~ReconcileRemoveFinalizer
  BY <1>0, <1>5 DEF ReconcileDelete, ReconcileRemoveFinalizer, StepKnows, CopyKnows
<1>13. CASE \/ ReconcileObjectGone \/ ReconcileCreateRejected \/ ReconcileCreateNoParent
            \/ ReconcileConflict \/ ReconcileFails
  BY <1>7, <1>13 DEF ReconcileObjectGone, ReconcileCreateRejected, ReconcileCreateNoParent,
     ReconcileConflict, ReconcileFails, Return, apiVars, cacheVars, konnectVars
<1>14. CASE ReconcileAddFinalizer
  <2> DEFINE o == [obj EXCEPT !.fin = TRUE]
  <2>1. o \in Objects /\ o.id = obj.id /\ o.del = obj.del
    BY <1>1 DEF Objects
  <2>2. Write(o) \/ UNCHANGED <<obj, watch>>
    BY <1>14 DEF ReconcileAddFinalizer
  <2>3. pc # "idle" /\ UNCHANGED <<kind, tag, pending, cache, view, eid>>
    BY <1>14 DEF ReconcileAddFinalizer, cacheVars, konnectVars
  <2> HIDE DEF o
  <2>4. CASE Write(o)
    BY <1>5, <1>6, <2>1, <2>3, <2>4 DEF CopyKnows
  <2>5. CASE UNCHANGED <<obj, watch>>
    BY <1>5, <1>7, <2>3, <2>5
  <2> QED BY <2>2, <2>4, <2>5
<1>15. CASE ReconcileTypeSpecific \/ ReconcileUpdateSkipped
  BY <1>2, <1>5, <1>7, <1>15 DEF ReconcileTypeSpecific, ReconcileUpdateSkipped, apiVars, cacheVars, konnectVars
<1>16. CASE ReconcilePassPending
  <2>1. pc # "idle" /\ UNCHANGED <<kind, obj, watch, cache, tag, view, eid>> /\ pending' = None
    BY <1>16 DEF ReconcilePassPending, apiVars, cacheVars, konnectVars
  <2>2. CASE pending = None
    BY <1>5, <1>7, <2>1, <2>2
  <2>3. CASE pending # None
    <3>1. eid = view.id /\ eid # None /\ cache.id # None
      BY <1>0, <1>2, <1>16, <2>3 DEF ReconcilePassPending, StepKnows
    <3>2. obj.id # None /\ \A i \in 1..Len(watch) : watch[i].id # None
      BY <1>5, <3>1 DEF IDStays
    <3> QED BY <1>5, <2>1, <3>1, <3>2 DEF OneID, CopyKnows, Forgotten, Fresh, IDStays
  <2> QED BY <2>2, <2>3
\* A create finds that no ID was given out: the copy would have it.
<1>17. ASSUME NEW k \in KIDs, ReconcileCreate(k) PROVE OneID'
  <2>1. pc = "create" /\ pending = None /\ view.id = None
    BY <1>0, <1>2, <1>17 DEF ReconcileCreate, StepKnows
  <2>2. \A j \in KIDs : Fresh(j)
    BY <1>5, <2>1 DEF CopyKnows, Forgotten
  <2>3. view.uid # None
    BY <1>0, <2>1 DEF StepKnows, Exists
  <2>4. tag' = [tag EXCEPT ![k] = view.uid] /\ pending' = k /\ eid' = k /\ UNCHANGED <<kind, obj, watch, cache, view>>
    BY <1>17 DEF ReconcileCreate, KonnectAccepts, apiVars, cacheVars
  <2>5. ~Fresh(k)' /\ \A j \in KIDs : j # k => Fresh(j)'
    BY <1>1, <2>2, <2>3, <2>4 DEF Fresh
  <2>6. \A c \in Objects : CopyKnows(c) => c.id = None /\ ~c.del
    BY <2>2 DEF CopyKnows, Objects
  <2>7. obj.id = None /\ cache.id = None /\ view.id = None /\ ~obj.del /\ ~cache.del /\ ~view.del
    BY <1>1, <1>5, <2>1, <2>6
  <2>8. \A i \in 1..Len(watch) : watch[i].id = None /\ ~watch[i].del
    BY <1>1, <1>5, <2>6
  <2>9. IDStays'
    BY <1>5, <2>4 DEF IDStays
  <2> QED BY <2>4, <2>5, <2>7, <2>8, <2>9 DEF OneID, CopyKnows, Forgotten
<1>18. ASSUME NEW k \in KIDs, ReconcileCreateConflict(k) \/ ReconcileRecreate(k) PROVE FALSE
  BY <1>2, <1>18 DEF ReconcileCreateConflict, ReconcileRecreate
<1>19. /\ ~Lose /\ ~OperatorRestart /\ ~ReconcileDeleteLost
       /\ \A k \in KIDs : ~ReconcileCreateLost(k)
  <2>1. ~Lose /\ ~OperatorRestart
    <3>1. NeverLostTrack /\ NeverLostTrack'
      BY <1>2 DEF RememberedOnce
    <3> QED BY <3>1 DEF Lose, OperatorRestart, NeverLostTrack
  <2> QED BY <2>1 DEF ReconcileDeleteLost, ReconcileCreateLost
<1>20. CASE ReconcileRestorePending \/ ReconcilePatchStatus \/ ReconcileUpdateStatus
  <2>1. PICK k \in KIDs : Write([obj EXCEPT !.id = k]) /\ ~Fresh(k)
    BY <1>0, <1>1, <1>5, <1>20 DEF ReconcileRestorePending, ReconcilePatchStatus, ReconcileUpdateStatus, StepKnows
  <2> DEFINE o == [obj EXCEPT !.id = k]
  <2>2. o \in Objects /\ o.id = k /\ o.del = obj.del
    BY <1>1 DEF Objects
  <2>3. Write(o)
    BY <2>1
  <2>4. pc' = "idle" /\ eid' = None /\ UNCHANGED <<kind, tag, pending, cache>>
    BY <1>20 DEF ReconcileRestorePending, ReconcilePatchStatus, ReconcileUpdateStatus, Return, cacheVars, konnectVars
  <2> HIDE DEF o
  <2> QED BY <1>5, <1>6, <2>1, <2>2, <2>3, <2>4 DEF CopyKnows
\* An update, which may create the entity again, keeps the ID.
<1>21. CASE ReconcileUpdate
  <2>1. eid \in KIDs /\ ~Fresh(eid) /\ view.uid # None /\ pc # "idle"
    BY <1>0, <1>1, <1>5, <1>21 DEF ReconcileUpdate, StepKnows, Exists
  <2>2. tag' = [tag EXCEPT ![eid] = view.uid] /\ UNCHANGED <<kind, obj, watch, cache, view, eid, pending>>
    BY <1>21 DEF ReconcileUpdate, apiVars, cacheVars
  <2>3. \A j \in KIDs : Fresh(j)' = Fresh(j)
    BY <1>1, <2>1, <2>2 DEF Fresh
  <2>4. Forgotten' = Forgotten
    BY <2>2, <2>3 DEF Forgotten
  <2>5. \A c \in Objects : c.id # None => c.id \in KIDs
    BY DEF Objects
  <2>6. CopyKnows(obj)' /\ CopyKnows(cache)' /\ CopyKnows(view)'
    BY <1>1, <1>5, <2>1, <2>2, <2>3, <2>4, <2>5 DEF CopyKnows
  <2>7. \A i \in 1..Len(watch) : watch[i] \in Objects
    BY <1>1
  <2>8. \A i \in 1..Len(watch') : CopyKnows(watch[i])'
    BY <1>5, <2>2, <2>3, <2>4, <2>5, <2>7 DEF CopyKnows
  <2>9. IDStays'
    BY <1>5, <2>2 DEF IDStays
  <2> QED BY <1>1, <1>5, <2>2, <2>3, <2>6, <2>8, <2>9 DEF OneID
<1>22. ASSUME NEW u \in UIDs, UserCreate(u) PROVE OneID'
  <2> DEFINE o == [NoObject EXCEPT !.uid = u]
  <2>1. o \in Objects /\ o.id = None /\ ~o.del
    BY DEF Objects, NoObject
  <2>2. Write(o) /\ obj = NoObject /\ UNCHANGED <<kind, tag, pending, cache, view, eid, pc>>
    BY <1>1, <1>22 DEF UserCreate, cacheVars, konnectVars, reconVars
  <2> HIDE DEF o
  <2> QED BY <1>5, <1>6, <2>1, <2>2
<1>23. CASE CacheSync
  <2>1. /\ watch # << >> /\ cache' = watch[1] /\ Len(watch) \in Nat \ {0} /\ Len(watch') = Len(watch) - 1
        /\ \A i \in 1..Len(watch') : watch'[i] = watch[i + 1] /\ i + 1 \in 1..Len(watch)
        /\ 1 \in 1..Len(watch)
    BY <1>1, <1>23 DEF CacheSync
  <2>2. UNCHANGED <<kind, obj, tag, pending, view, eid, pc>>
    BY <1>23 DEF CacheSync, konnectVars, reconVars
  <2>3. Forgotten' = Forgotten /\ \A k : Fresh(k)' = Fresh(k)
    BY <2>2 DEF Forgotten, Fresh
  <2>4. CopyKnows(obj)' /\ CopyKnows(cache)' /\ (pc' # "idle" => CopyKnows(view)')
    BY <1>5, <2>1, <2>2, <2>3 DEF CopyKnows, Fresh
  <2>5. \A i \in 1..Len(watch') : CopyKnows(watch[i])'
    BY <1>5, <2>1, <2>2, <2>3 DEF CopyKnows, Fresh
  <2>6. IDStays'
    BY <1>5, <2>1, <2>2 DEF IDStays
  <2> QED BY <1>5, <2>2, <2>3, <2>4, <2>5, <2>6 DEF OneID, Fresh
<1>24. CASE \/ OtherWatch \/ ParentDeletedInKonnect \/ ParentGone \/ ParentReturns \/ ParentSync
            \/ UNCHANGED vars \/ \E k \in KIDs : ExternalDelete(k)
  BY <1>5, <1>7, <1>24 DEF OtherWatch, ParentDeletedInKonnect, ParentGone, ParentReturns, ParentSync,
     ExternalDelete, apiVars, cacheVars, konnectVars, reconVars, vars
<1> QED BY <1>3, <1>8, <1>9, <1>10, <1>11, <1>12, <1>13, <1>14, <1>15, <1>16, <1>17, <1>18, <1>19,
     <1>20, <1>21, <1>22, <1>23, <1>24 DEF Next, Reconcile, Failure, Environment

\* Konnect never has two entities of one object while nothing was lost: on
\* up-to-date copies the ID in memory stands in for a status that was not written,
\* and on old ones it stands in until the informer has seen the status.
THEOREM EntitiesNotDuplicated == Spec => []NoDuplicate
<1>1. Init => EntityKnown /\ OneID
  <2> SUFFICES ASSUME Init PROVE EntityKnown /\ OneID
    OBVIOUS
  <2>1. EntityKnown
    BY DEF Init, EntityKnown, MemoryAgrees, KnownBy
  <2>2. \A k \in KIDs : Fresh(k)
    BY DEF Init, Fresh
  <2>3. Len(watch) = 0 /\ obj = NoObject /\ cache = NoObject /\ pending = None /\ eid = None /\ pc = "idle"
    BY DEF Init
  <2>4. OneID
    BY <2>2, <2>3, NoObjectOK DEF OneID, CopyKnows, Forgotten, IDStays
  <2> QED BY <2>1, <2>4
<1>2. CopyInv /\ EntityKnown /\ OneID /\ [Next]_vars => EntityKnown' /\ OneID'
  BY KnownStep, OneIDStep
<1>3. CopyInv /\ EntityKnown /\ OneID => NoDuplicate
  <2> SUFFICES ASSUME CopyInv, EntityKnown, OneID, NeverLostTrack, kind.uniqueNames \/ kind.upserts,
                      ~stale \/ Remembered, NEW k1 \in alive, NEW k2 \in alive, tag[k1] = tag[k2]
               PROVE  k1 = k2
    BY DEF NoDuplicate
  <2>1. alive \subseteq KIDs /\ ~Fresh(k1) /\ ~Fresh(k2)
    BY DEF CopyInv, EntityInv, TypeOK, Given
  <2>2. CASE kind.uniqueNames
    BY <2>2 DEF CopyInv, UniqueAlive
  <2>3. CASE ~kind.uniqueNames /\ ~stale
    BY <2>3 DEF EntityKnown, Repeatable
  <2>4. CASE ~kind.uniqueNames /\ Remembered
    BY <2>1, <2>4 DEF OneID, RememberedOnce
  <2> QED BY <2>2, <2>3, <2>4
<1> QED BY <1>1, <1>2, <1>3, EntityInvariance, PTL DEF Spec

-----------------------------------------------------------------------------
(* No entity is orphaned.                                                  *)

\* The first part of NoOrphan's condition.
Trackable == ~stale /\ KeepsID /\ ~kind.mirrorParent /\ parents = 0

\* Without the control plane there is nothing in Konnect, and it does not come
\* back, so that a finalizer dropped for a missing parent leaves nothing behind.
ParentTracked ==
  Trackable =>
    /\ parent # "present" => alive = {}
    /\ ~parentSeen \/ pc = "parentGone" => parent = "gone"

\* The finalizer is there before the ID, and stays as long as there is an entity.
FinalizerFirst ==
  Trackable =>
    /\ parent = "present" /\ obj.id # None => obj.fin
    /\ parent = "present" /\ pc # "idle" /\ view.id # None => view.fin
    /\ NeverLostTrack \/ OnlyObject =>
         /\ alive # {} => obj.fin
         /\ pc = "removeFinalizer" => alive = {}

\* While nothing was lost, the status or the memory has the ID.
IDTracked ==
  Trackable /\ NeverLostTrack =>
    /\ pending # None => obj.id \in {None, pending}
    /\ alive \subseteq {obj.id, pending}
    /\ pc = "create" => alive = {}

\* Otherwise the UID finds the entity, until the status has its ID.
UIDTracked ==
  Trackable /\ OnlyObject =>
    /\ \A k \in alive : tag[k] = obj.uid
    /\ obj.id # None => alive \subseteq {obj.id}
    /\ pc = "create" => obj.id = None

Tracked == ParentTracked /\ FinalizerFirst /\ IDTracked /\ UIDTracked

LEMMA TrackedStep == ASSUME CopyInv, Tracked, [Next]_vars PROVE Tracked'
<1> USE NoneAssumption, NoObjectOK
<1>0. EntityInv /\ TypeOK /\ StepKnows /\ Given /\ CopyCurrent /\ UniqueAlive /\ CountsGrow
  BY EntityStep DEF CopyInv, EntityInv
<1>1. /\ alive \subseteq KIDs /\ eid \in KIDs \cup {None} /\ pending \in KIDs \cup {None}
      /\ obj \in Objects /\ view \in Objects /\ tag \in [KIDs -> UIDs \cup {None}]
      /\ IF Exists(obj) THEN obj.uid \in uids /\ (obj.del => obj.fin) ELSE obj = NoObject
      /\ obj.id \in KIDs \cup {None} /\ view.id \in KIDs \cup {None}
      /\ parent \in {"present", "cascaded", "gone"}
  BY <1>0 DEF TypeOK, Objects
<1>2. /\ Trackable' => Trackable
      /\ NeverLostTrack' => NeverLostTrack
      /\ OnlyObject' => OnlyObject
  BY <1>0 DEF Trackable, KeepsID, OnlyObject, CountsGrow
<1> SUFFICES ASSUME Trackable' PROVE Tracked'
  BY DEF Tracked, ParentTracked, FinalizerFirst, IDTracked, UIDTracked
<1>3. /\ Trackable
      /\ parent # "present" => alive = {}
      /\ ~parentSeen \/ pc = "parentGone" => parent = "gone"
      /\ parent = "present" /\ obj.id # None => obj.fin
      /\ parent = "present" /\ pc # "idle" /\ view.id # None => view.fin
      /\ NeverLostTrack \/ OnlyObject =>
           /\ alive # {} => obj.fin
           /\ pc = "removeFinalizer" => alive = {}
      /\ NeverLostTrack =>
           /\ pending # None => obj.id \in {None, pending}
           /\ alive \subseteq {obj.id, pending}
           /\ pc = "create" => alive = {}
      /\ OnlyObject =>
           /\ \A k \in alive : tag[k] = obj.uid
           /\ obj.id # None => alive \subseteq {obj.id}
           /\ pc = "create" => obj.id = None
  BY <1>2 DEF Tracked, ParentTracked, FinalizerFirst, IDTracked, UIDTracked
<1>4. /\ ~stale /\ kind.upserts /\ ~kind.checksID /\ ~kind.mirrorParent
      /\ OnlyObject => kind.uniqueNames /\ kind.hasLookup
  BY <1>3 DEF Trackable, KeepsID, OnlyObject
<1> USE <1>2 DEF Tracked, ParentTracked, FinalizerFirst, IDTracked, UIDTracked
\* The reconcile ends and leaves everything else as it is.
<1>6. ASSUME UNCHANGED <<obj, parent, parentSeen, pending, tag>>, alive' \subseteq alive, pc' = "idle"
      PROVE  Tracked'
  BY <1>3, <1>6
<1>7. CASE ReconcileStart
  <2>1. cache = obj
    BY <1>7 DEF ReconcileStart, Trackable
  <2> QED BY <1>3, <1>7, <2>1 DEF ReconcileStart, apiVars, cacheVars, konnectVars
<1>8. CASE ReconcileRefs
  <2>1. view' \in {view, obj}
    BY <1>8 DEF ReconcileRefs, Patched
  <2> QED BY <1>3, <1>8, <2>1 DEF ReconcileRefs, Goto, apiVars, cacheVars, konnectVars
<1>9. CASE ReconcileParentGone
  <2>1. PICK v \in Patched : IF v.fin THEN view' = v /\ eid' = v.id /\ Goto("parentGone") ELSE Return(FALSE)
    BY <1>9 DEF ReconcileParentGone
  <2>2. v = view \/ v = obj
    BY DEF Patched
  <2> QED BY <1>3, <1>9, <2>1, <2>2 DEF ReconcileParentGone, Goto, Return, apiVars, cacheVars, konnectVars
<1>10. CASE \/ ReconcileObjectGone \/ ReconcileCreateRejected \/ ReconcileCreateNoParent
            \/ ReconcileConflict \/ ReconcileFails \/ ReconcileDeleteLost
  BY <1>6, <1>10 DEF ReconcileObjectGone, ReconcileCreateRejected, ReconcileCreateNoParent,
     ReconcileConflict, ReconcileFails, ReconcileDeleteLost, Return, apiVars, cacheVars, konnectVars
<1>11. CASE ReconcileDropFinalizer
  <2>1. obj' = NoObject \/ (obj'.uid = obj.uid /\ obj'.id = obj.id)
    BY <1>0, <1>11, ObjectFields DEF ReconcileDropFinalizer
  <2> QED BY <1>3, <1>11, <2>1 DEF ReconcileDropFinalizer, Return, cacheVars, konnectVars
<1>12. CASE ReconcileRemoveFinalizer
  <2>1. view.del /\ view = obj
    BY <1>0, <1>12 DEF ReconcileRemoveFinalizer, StepKnows, UpdateWithoutFinalizer
  <2>2. obj' = NoObject
    BY <1>12, <2>1 DEF ReconcileRemoveFinalizer, UpdateWithoutFinalizer, Write
  <2> QED BY <1>3, <1>12, <2>2 DEF ReconcileRemoveFinalizer, Return, cacheVars, konnectVars
<1>13. CASE ReconcileDelete
  <2>1. /\ eid = view.id /\ view.del /\ view.fin /\ view.uid = obj.uid /\ view.id = obj.id /\ obj.del
    BY <1>0, <1>4, <1>13 DEF ReconcileDelete, StepKnows, BeforeCheck, CopyCurrent
  <2>2. IF DeleteTargets = {} THEN alive' = alive ELSE \E k \in DeleteTargets : alive' = alive \ {k}
    BY <1>13 DEF ReconcileDelete
  <2>3. ASSUME NeverLostTrack PROVE alive' = {}
    <3>1. alive \subseteq DeleteTargets /\ \A k1, k2 \in DeleteTargets : k1 = k2
      BY <1>1, <1>3, <2>1, <2>3 DEF DeleteTargets, LookupByUID
    <3> QED BY <2>2, <3>1
  <2>4. ASSUME OnlyObject PROVE alive' = {}
    <3>1. \A k1, k2 \in alive : k1 = k2
      BY <1>0, <1>4, <2>4 DEF UniqueAlive
    <3>2. alive \subseteq DeleteTargets
      BY <1>0, <1>1, <1>3, <1>4, <2>1, <2>4 DEF DeleteTargets, LookupByUID, UniqueAlive
    <3>3. eid = None /\ pending = None => DeleteTargets \subseteq alive
      BY DEF DeleteTargets, LookupByUID
    <3>4. eid # None \/ pending # None => \A k1, k2 \in DeleteTargets : k1 = k2
      BY DEF DeleteTargets
    <3> QED BY <2>2, <3>1, <3>2, <3>3, <3>4
  <2>5. alive' \subseteq alive
    BY <2>2
  <2> QED BY <1>3, <1>13, <2>3, <2>4, <2>5 DEF ReconcileDelete, Goto, apiVars, cacheVars
<1>14. CASE ReconcileAddFinalizer
  <2>1. obj'.uid = obj.uid /\ obj'.id = obj.id /\ (obj.fin => obj'.fin)
    BY <1>0, <1>14, ObjectFields
  <2> QED BY <1>3, <1>14, <2>1 DEF ReconcileAddFinalizer, Goto, cacheVars, konnectVars
<1>15. CASE ReconcileTypeSpecific \/ ReconcileUpdateSkipped
  BY <1>3, <1>15 DEF ReconcileTypeSpecific, ReconcileUpdateSkipped, Goto, apiVars, cacheVars, konnectVars
<1>16. CASE ReconcilePassPending
  <2>1. /\ eid = view.id
        /\ view.uid = obj.uid => view.id = obj.id
        /\ view.uid # obj.uid => obj.id = None /\ ~view.fin
    BY <1>0, <1>4, <1>16 DEF ReconcilePassPending, StepKnows, CopyCurrent
  <2>2. CASE eid = None
    BY <1>1, <1>3, <1>16, <2>1, <2>2 DEF ReconcilePassPending, Goto, apiVars, cacheVars, konnectVars
  <2>3. CASE eid # None
    <3>1. parent = "present" => obj.id = eid
      BY <1>3, <1>16, <2>1, <2>3 DEF ReconcilePassPending
    <3>2. NeverLostTrack => alive \subseteq {obj.id}
      BY <1>1, <1>3, <2>3, <3>1
    <3> QED BY <1>3, <1>16, <2>3, <3>2 DEF ReconcilePassPending, Goto, apiVars, cacheVars, konnectVars
  <2> QED BY <2>2, <2>3
\* A new entity belongs to an object with the finalizer and without an ID.
<1>17. ASSUME NEW k \in KIDs, pc = "create", KonnectAccepts(k)
       PROVE  /\ parent = "present" /\ obj.fin /\ obj.id = None
              /\ alive' = alive \cup {k} /\ tag' = [tag EXCEPT ![k] = view.uid]
              /\ OnlyObject => alive = {} /\ view.uid = obj.uid
              /\ NeverLostTrack => alive = {}
  <2>1. obj.fin /\ obj.id = None /\ Exists(obj)
    BY <1>0, <1>1, <1>4, <1>17 DEF StepKnows, CopyCurrent, AfterFinalizer
  <2>2. view.uid \in uids /\ obj.uid \in uids
    BY <1>0, <1>1, <1>4, <1>17, <2>1 DEF Given
  <2> QED BY <1>3, <1>4, <1>17, <2>1, <2>2 DEF KonnectAccepts, KonnectHasParent, OnlyObject
<1>18. ASSUME NEW k \in KIDs, ReconcileCreate(k) PROVE Tracked'
  BY <1>1, <1>3, <1>17, <1>18 DEF ReconcileCreate, Goto, apiVars, cacheVars
<1>19. ASSUME NEW k \in KIDs, ReconcileCreateLost(k) PROVE Tracked'
  <2>1. ~NeverLostTrack'
    BY <1>0, <1>19 DEF ReconcileCreateLost, Lose, NeverLostTrack, TypeOK
  <2> QED BY <1>1, <1>3, <1>17, <1>19, <2>1 DEF ReconcileCreateLost, Return, apiVars, cacheVars
<1>20. ASSUME NEW k \in KIDs, ReconcileCreateConflict(k) PROVE Tracked'
  <2>1. k \in alive /\ obj.id = None
    BY <1>0, <1>1, <1>4, <1>20 DEF ReconcileCreateConflict, LookupByUID, StepKnows, CopyCurrent
  <2> QED BY <1>3, <1>20, <2>1 DEF ReconcileCreateConflict, Goto, apiVars, cacheVars, konnectVars
<1>21. ASSUME NEW k \in KIDs, ReconcileRecreate(k) PROVE FALSE
  BY <1>4, <1>21 DEF ReconcileRecreate
<1>22. CASE ReconcilePatchStatus \/ ReconcileRestorePending
  <2>1. obj'.uid = obj.uid /\ obj'.id = pending /\ obj'.fin = obj.fin /\ pending # None
    BY <1>0, <1>1, <1>22, ObjectFields DEF ReconcilePatchStatus, ReconcileRestorePending, StepKnows
  <2>2. obj.fin
    BY <1>0, <1>4, <1>22 DEF ReconcilePatchStatus, ReconcileRestorePending, CopyCurrent, AfterFinalizer
  <2>3. OnlyObject => alive \subseteq {pending}
    BY <1>0, <1>4, <2>1 DEF UniqueAlive
  <2> QED BY <1>1, <1>3, <1>22, <2>1, <2>2, <2>3 DEF ReconcilePatchStatus, ReconcileRestorePending, Return, cacheVars, konnectVars
<1>23. CASE ReconcileUpdateStatus
  <2>1. eid = obj.id
    BY <1>0, <1>4, <1>23 DEF ReconcileUpdateStatus, StepKnows
  <2>2. obj'.uid = obj.uid /\ obj'.id = obj.id /\ obj'.fin = obj.fin
    BY <1>0, <1>1, <1>23, <2>1, ObjectFields DEF ReconcileUpdateStatus
  <2> QED BY <1>3, <1>23, <2>2 DEF ReconcileUpdateStatus, Return, cacheVars, konnectVars
<1>24. CASE ReconcileUpdate
  <2>1. /\ parent = "present" /\ eid = view.id /\ view.fin /\ view.uid = obj.uid /\ obj.id = eid
        /\ obj.fin /\ eid \in KIDs
    BY <1>0, <1>1, <1>3, <1>4, <1>24 DEF ReconcileUpdate, KonnectHasParent, StepKnows, BeforeCheck, CopyCurrent
  <2>2. alive' = alive \cup {eid} /\ tag' = [tag EXCEPT ![eid] = view.uid]
    BY <1>24 DEF ReconcileUpdate
  <2> QED BY <1>1, <1>3, <1>24, <2>1, <2>2 DEF ReconcileUpdate, Goto, apiVars, cacheVars
<1>25. CASE OperatorRestart
  <2>1. ~NeverLostTrack'
    BY <1>0, <1>25 DEF OperatorRestart, NeverLostTrack, TypeOK
  <2> QED BY <1>3, <1>25, <2>1 DEF OperatorRestart, konnectVars
<1>26. CASE UserDelete
  <2>1. \/ obj' = NoObject /\ ~obj.fin
        \/ obj'.uid = obj.uid /\ obj'.id = obj.id /\ obj'.fin = obj.fin
    BY <1>0, <1>26, ObjectFields
  <2> QED BY <1>1, <1>3, <1>26, <2>1 DEF UserDelete, cacheVars, konnectVars, reconVars
<1>27. ASSUME NEW u \in UIDs, UserCreate(u) PROVE Tracked'
  <2>1. obj'.uid = u /\ obj'.id = None /\ ~obj'.fin /\ ~Exists(obj)
    BY <1>0, <1>27, ObjectFields
  <2>2. ~obj.fin
    BY <1>1, <2>1
  <2> QED BY <1>1, <1>3, <1>27, <2>1, <2>2 DEF UserCreate, cacheVars, konnectVars, reconVars
<1>28. CASE ParentReturns
  BY <1>0, <1>28 DEF ParentReturns, Trackable, TypeOK
<1>29. CASE ParentDeletedInKonnect \/ ParentGone
  BY <1>1, <1>3, <1>4, <1>29 DEF ParentDeletedInKonnect, ParentGone, apiVars, cacheVars, konnectVars, reconVars
<1>30. CASE \/ CacheSync \/ OtherWatch \/ ParentSync \/ UNCHANGED vars \/ \E k \in KIDs : ExternalDelete(k)
  BY <1>3, <1>30 DEF CacheSync, OtherWatch, ParentSync, ExternalDelete, apiVars, cacheVars, konnectVars, reconVars, vars
<1> QED BY <1>7, <1>8, <1>9, <1>10, <1>11, <1>12, <1>13, <1>14, <1>15, <1>16, <1>18, <1>19, <1>20, <1>21,
     <1>22, <1>23, <1>24, <1>25, <1>26, <1>27, <1>28, <1>29, <1>30 DEF Next, Reconcile, Failure, Environment

\* Whatever exists in Konnect belongs to an object that exists, carries the
\* finalizer and can find the entity, under the condition of NoOrphan.
THEOREM EntitiesNotOrphaned == Spec => []NoOrphan
<1>1. Init => Tracked
  BY NoObjectOK DEF Init, Tracked, ParentTracked, FinalizerFirst, IDTracked, UIDTracked
<1>2. CopyInv /\ Tracked /\ [Next]_vars => Tracked'
  BY TrackedStep
<1>3. CopyInv /\ Tracked => NoOrphan
  <2> SUFFICES ASSUME CopyInv, Tracked, Trackable, NeverLostTrack \/ OnlyObject, NEW k \in alive
               PROVE  Exists(obj) /\ obj.fin /\ (k \in {obj.id, pending} \/ obj.uid = tag[k])
    BY DEF NoOrphan, NeverOrphaned, Trackable
  <2>1. obj.fin
    BY DEF Tracked, FinalizerFirst
  <2>2. Exists(obj)
    BY <2>1, NoObjectOK DEF CopyInv, EntityInv, TypeOK
  <2> QED BY <2>1, <2>2 DEF Tracked, IDTracked, UIDTracked
<1> QED BY <1>1, <1>2, <1>3, EntityInvariance, PTL DEF Spec
=============================================================================
