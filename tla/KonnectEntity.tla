---------------------------- MODULE KonnectEntity ----------------------------
(***************************************************************************)
(* The reconciler that mirrors a Kubernetes object into Konnect            *)
(* (controller/konnect/reconciler_generic.go) for one namespace/name.      *)
(*                                                                         *)
(* Reconciles of one object never overlap.  A reconcile reads the object   *)
(* from an informer cache that follows the API server's watch stream, and  *)
(* makes calls to the API server and to Konnect, each a step of its own.   *)
(* An Update carries the resourceVersion it read and conflicts unless the  *)
(* object is still that one; a merge patch carries none and applies to     *)
(* whatever object has the name.  A patch that changes something returns   *)
(* the server's object into the copy Reconcile works on.  Every call may   *)
(* fail, and Konnect may act on a request whose response is lost.          *)
(*                                                                         *)
(* Left out: adoption, singletons without an ID, mirrored entities, and    *)
(* references other than the one to the parent control plane (the          *)
(* handlers of the others repeat its three outcomes).                      *)
(***************************************************************************)
EXTENDS Naturals, Sequences

CONSTANTS UIDs,        \* UIDs of successive objects of the same name
          KIDs,        \* IDs Konnect can give to entities
          None,        \* "", no ID, no object
          Kinds,       \* the kinds of types looked at, see KindFields
          MaxLag,      \* watch events the informer may be behind when a
                       \*   reconcile starts
          MaxFailures, \* bounds on failing calls, on requests Konnect acts on
          MaxLost,     \*   although the response is lost,
          MaxRestarts, MaxExternal, MaxParents \* restarts of the operator, deletions
                       \*   in Konnect by others, returns of the parent

KindFields ==
  [hasParent : BOOLEAN,    \* refers to a KonnectGatewayControlPlane,
   mirrorParent : BOOLEAN, \* which is a mirror: deleting its object leaves the
                           \*   control plane in Konnect alone
   hasLookup : BOOLEAN,    \* getKonnectIDForUID is implemented
   uniqueNames : BOOLEAN,  \* Konnect rejects a second entity of the same name
   upserts : BOOLEAN,      \* ops.Update is a PUT under the known ID; else a
                           \*   missing entity is created again under a new one
   checksID : BOOLEAN]     \* handleTypeSpecific reads the entity from Konnect

ASSUME NoneAssumption == None \notin UIDs \cup KIDs
ASSUME KindsAssumption == Kinds \subseteq KindFields
ASSUME BoundsAssumption ==
  /\ MaxLag \in Nat /\ MaxFailures \in Nat /\ MaxLost \in Nat
  /\ MaxRestarts \in Nat /\ MaxExternal \in Nat /\ MaxParents \in Nat

VARIABLES
  kind,      \* the kind of the object's type
  obj,       \* the object in the API server
  watch,     \* versions of it the informer has not received yet
  cache,     \* the informer's copy
  uids,      \* UIDs given out
  alive,     \* IDs of the entities that exist in Konnect
  tag,       \* UID label of an entity, None for an ID not given out yet
  parent,    \* the parent object ("present", "gone"), or deleted in Konnect
             \*   and still in the API server ("cascaded")
  parentSeen,\* the informer sees the parent
  pending,   \* pendingKonnectIDs: the ID stored for the name, or None
  pc,        \* where Reconcile is
  view,      \* the object as Reconcile last read it
  eid,       \* the Konnect ID in Reconcile's copy of the object
  dirty,     \* the workqueue holds the object
  stale,     \* a reconcile has started on an old copy of the object
  dropped,   \* a pending ID was dropped before the informer's copy had it
  failures, lost, restarts, external, parents  \* bounded events so far

apiVars    == <<kind, obj, watch, uids>>
cacheVars  == <<cache, parentSeen>>
konnectVars == <<alive, tag>>
reconVars  == <<pc, view, eid>>
countVars  == <<stale, dropped, failures, lost, restarts, external, parents>>
vars == <<apiVars, cacheVars, konnectVars, parent, pending, reconVars, dirty, countVars>>

Objects == [uid : UIDs \cup {None}, del : BOOLEAN, fin : BOOLEAN, id : KIDs \cup {None}]
NoObject == [uid |-> None, del |-> FALSE, fin |-> FALSE, id |-> None]
Exists(o) == o.uid # None

Steps == {"idle", "refs", "parentGone", "delete", "removeFinalizer", "finalizer",
          "typeSpecific", "pending", "create", "patchStatus", "update", "updateStatus"}

TypeOK ==
  /\ kind \in Kinds
  /\ obj \in Objects
  /\ watch \in Seq(Objects)
  /\ cache \in Objects
  /\ uids \in SUBSET UIDs
  /\ alive \in SUBSET KIDs
  /\ tag \in [KIDs -> UIDs \cup {None}]
  /\ parent \in {"present", "cascaded", "gone"}
  /\ parentSeen \in BOOLEAN
  /\ pending \in KIDs \cup {None}
  /\ pc \in Steps
  /\ view \in Objects
  /\ eid \in KIDs \cup {None}
  /\ dirty \in BOOLEAN
  /\ stale \in BOOLEAN /\ dropped \in BOOLEAN
  /\ failures \in 0..MaxFailures /\ lost \in 0..MaxLost
  /\ restarts \in 0..MaxRestarts
  /\ external \in 0..MaxExternal
  /\ parents \in 0..MaxParents
  /\ IF Exists(obj) THEN obj.uid \in uids /\ (obj.del => obj.fin)
                    ELSE obj = NoObject

Init ==
  /\ kind \in Kinds
  /\ obj = NoObject /\ watch = << >> /\ cache = NoObject
  /\ uids = {}
  /\ alive = {} /\ tag = [k \in KIDs |-> None]
  /\ parent = "present" /\ parentSeen = TRUE
  /\ pending = None
  /\ pc = "idle" /\ view = NoObject /\ eid = None
  /\ dirty = FALSE
  /\ stale = FALSE /\ dropped = FALSE
  /\ failures = 0 /\ lost = 0 /\ restarts = 0 /\ external = 0 /\ parents = 0

-----------------------------------------------------------------------------
(* The API server, its users, the informer and Konnect.                    *)

\* The object becomes o; a change is a watch event.
Write(o) ==
  /\ obj' = o
  /\ watch' = IF o = obj THEN watch ELSE Append(watch, o)

UserCreate(u) ==
  /\ ~Exists(obj)
  /\ u \notin uids
  /\ uids' = uids \cup {u}
  /\ Write([NoObject EXCEPT !.uid = u])
  /\ UNCHANGED <<kind, cacheVars, konnectVars, parent, pending, reconVars, dirty, countVars>>

UserDelete ==
  /\ Exists(obj)
  /\ ~obj.del
  /\ Write(IF obj.fin THEN [obj EXCEPT !.del = TRUE] ELSE NoObject)
  /\ UNCHANGED <<kind, uids, cacheVars, konnectVars, parent, pending, reconVars, dirty, countVars>>

CacheSync ==
  /\ watch # << >>
  /\ cache' = Head(watch)
  /\ watch' = Tail(watch)
  /\ dirty' = TRUE
  /\ UNCHANGED <<kind, obj, uids, parentSeen, konnectVars, parent, pending, reconVars, countVars>>

\* An event of another watched object, or a periodic resync.
OtherWatch ==
  /\ ~dirty
  /\ dirty' = TRUE
  /\ UNCHANGED <<apiVars, cacheVars, konnectVars, parent, pending, reconVars, countVars>>

\* The control plane's own finalizer deletes it in Konnect, with everything in
\* it, before its object goes away.
ParentDeletedInKonnect ==
  /\ kind.hasParent
  /\ ~kind.mirrorParent
  /\ parent = "present"
  /\ parent' = "cascaded"
  /\ alive' = {}
  /\ UNCHANGED <<apiVars, cacheVars, tag, pending, reconVars, dirty, countVars>>

ParentGone ==
  /\ kind.hasParent
  /\ parent = (IF kind.mirrorParent THEN "present" ELSE "cascaded")
  /\ parent' = "gone"
  /\ UNCHANGED <<apiVars, cacheVars, konnectVars, pending, reconVars, dirty, countVars>>

ParentReturns ==
  /\ parent = "gone"
  /\ parents < MaxParents
  /\ parents' = parents + 1
  /\ parent' = "present"
  /\ UNCHANGED <<apiVars, cacheVars, konnectVars, pending, reconVars, dirty, stale, dropped, failures, lost, restarts, external>>

ParentSync ==
  /\ parentSeen # (parent # "gone")
  /\ parentSeen' = (parent # "gone")
  /\ dirty' = TRUE
  /\ UNCHANGED <<apiVars, cache, konnectVars, parent, pending, reconVars, countVars>>

\* Somebody deletes the entity in Konnect.
ExternalDelete(k) ==
  /\ k \in alive
  /\ external < MaxExternal
  /\ external' = external + 1
  /\ alive' = alive \ {k}
  /\ UNCHANGED <<apiVars, cacheVars, tag, parent, pending, reconVars, dirty, stale, dropped, failures, lost, restarts, parents>>

\* Entities can be created and updated in Konnect as long as it has the parent
\* (a mirrored control plane outlives its object).
KonnectHasParent == parent = "present" \/ kind.mirrorParent
Fresh(k) == tag[k] = None

Fail ==
  /\ failures < MaxFailures
  /\ failures' = failures + 1
  /\ UNCHANGED <<stale, dropped, lost, restarts, external, parents>>

\* Konnect acts on a request and the response is lost.
Lose ==
  /\ lost < MaxLost
  /\ lost' = lost + 1
  /\ UNCHANGED <<stale, dropped, failures, restarts, external, parents>>

-----------------------------------------------------------------------------
(* Reconcile.                                                              *)

Goto(l) == pc' = l /\ UNCHANGED dirty

\* Forget the copy and return; `again` is a Requeue, RequeueAfter or error.
Return(again) ==
  /\ pc' = "idle"
  /\ view' = NoObject
  /\ eid' = None
  /\ dirty' = (dirty \/ again)

ReconcileStart ==
  /\ pc = "idle"
  /\ dirty
  /\ Len(watch) <= MaxLag
  /\ stale' = (stale \/ cache # obj)
  /\ dirty' = FALSE
  /\ view' = cache
  /\ eid' = cache.id
  /\ pc' = IF Exists(cache) THEN "refs" ELSE "idle"
  /\ UNCHANGED <<apiVars, cacheVars, konnectVars, parent, pending, dropped,
                 failures, lost, restarts, external, parents>>

\* What the reference handlers may leave of the copy: they patch conditions,
\* and a patch that changes one brings the server's object back.
Patched == {view} \cup (IF Exists(obj) THEN {obj} ELSE {})

\* The reference and authentication checks succeed.
ReconcileRefs ==
  /\ pc = "refs"
  /\ parentSeen
  /\ view' \in Patched
  /\ eid' = view'.id
  /\ Goto(IF view'.del THEN "delete" ELSE "finalizer")
  /\ UNCHANGED <<apiVars, cacheVars, konnectVars, parent, pending, countVars>>

\* The parent is not there.  Without the finalizer there is nothing to do.
ReconcileParentGone ==
  /\ pc = "refs"
  /\ ~parentSeen
  /\ \E v \in Patched :
       IF v.fin THEN view' = v /\ eid' = v.id /\ Goto("parentGone")
                ELSE Return(FALSE)
  /\ UNCHANGED <<apiVars, cacheVars, konnectVars, parent, pending, countVars>>

\* An Update that removes the finalizer from the object that was read; the
\* last finalizer of a deleted object takes the object along.
UpdateWithoutFinalizer ==
  /\ view = obj
  /\ Write(IF obj.del THEN NoObject ELSE [obj EXCEPT !.fin = FALSE])

\* The entity went with its control plane: only the finalizer is removed.
ReconcileDropFinalizer ==
  /\ pc = "parentGone"
  /\ UpdateWithoutFinalizer
  /\ Return(FALSE)
  /\ UNCHANGED <<kind, uids, cacheVars, konnectVars, parent, pending, countVars>>

\* Mutant: no lookup by UID for an ID that was never persisted.
DeleteTargetsWithoutLookup ==
  IF eid # None THEN {eid}
  ELSE IF pending # None THEN {pending}
  ELSE {}

\* IDs ops.Delete may work with: the one on the object, the pending one, and
\* the ones Konnect finds for the UID.
LookupByUID == {k \in alive : kind.hasLookup /\ tag[k] = view.uid}
DeleteTargets ==
  IF eid # None THEN {eid}
  ELSE IF pending # None THEN {pending}
  ELSE LookupByUID

\* ops.Delete succeeds: the entity is deleted, was not there, or none is known.
ReconcileDelete ==
  /\ pc = "delete"
  /\ IF DeleteTargets = {} THEN UNCHANGED alive
     ELSE \E k \in DeleteTargets : alive' = alive \ {k}
  /\ pending' = None
  /\ Goto("removeFinalizer")
  /\ UNCHANGED <<apiVars, cacheVars, tag, parent, view, eid, countVars>>

\* Konnect deletes the entity and the response is lost.
ReconcileDeleteLost ==
  /\ pc = "delete"
  /\ Lose
  /\ \E k \in DeleteTargets \cap alive : alive' = alive \ {k}
  /\ Return(TRUE)
  /\ UNCHANGED <<apiVars, cacheVars, tag, parent, pending>>

ReconcileRemoveFinalizer ==
  /\ pc = "removeFinalizer"
  /\ UpdateWithoutFinalizer
  /\ Return(FALSE)
  /\ UNCHANGED <<kind, uids, cacheVars, konnectVars, parent, pending, countVars>>

\* The Update finds no object.
ReconcileObjectGone ==
  /\ pc \in {"parentGone", "removeFinalizer"}
  /\ ~Exists(obj)
  /\ Return(FALSE)
  /\ UNCHANGED <<apiVars, cacheVars, konnectVars, parent, pending, countVars>>

\* Mutant: the patch does not need an object.
ReconcileAddFinalizerBlind ==
  /\ pc = "finalizer"
  /\ IF view.fin THEN UNCHANGED <<obj, watch>> ELSE Write([obj EXCEPT !.fin = TRUE])
  /\ Goto("typeSpecific")
  /\ UNCHANGED <<kind, uids, cacheVars, konnectVars, parent, pending, view, eid, countVars>>

\* patch.WithFinalizer: the copy keeps its old resourceVersion.  The API server
\* refuses new finalizers on a deleted object.
ReconcileAddFinalizer ==
  /\ pc = "finalizer"
  /\ IF view.fin THEN UNCHANGED <<obj, watch>>
     ELSE Exists(obj) /\ ~obj.del /\ Write([obj EXCEPT !.fin = TRUE])
  /\ Goto("typeSpecific")
  /\ UNCHANGED <<kind, uids, cacheVars, konnectVars, parent, pending, view, eid, countVars>>

\* handleTypeSpecific: an ID Konnect does not know is cleared.
ReconcileTypeSpecific ==
  /\ pc = "typeSpecific"
  /\ eid' = IF kind.checksID /\ eid \notin alive THEN None ELSE eid
  /\ Goto("pending")
  /\ UNCHANGED <<apiVars, cacheVars, konnectVars, parent, pending, view, countVars>>

\* reconcilePendingKonnectID: a copy without an ID gets the pending one ...
ReconcileRestorePending ==
  /\ pc = "pending"
  /\ eid = None
  /\ pending # None
  /\ Exists(obj)
  /\ Write([obj EXCEPT !.id = pending])
  /\ Return(FALSE)
  /\ UNCHANGED <<kind, uids, cacheVars, konnectVars, parent, pending, countVars>>

\* ... and one with an ID drops it.
ReconcilePassPending ==
  /\ pc = "pending"
  /\ eid # None \/ pending = None
  /\ pending' = None
  /\ dropped' = (dropped \/ (pending # None /\ cache.id # pending))
  /\ Goto(IF eid = None THEN "create" ELSE "update")
  /\ UNCHANGED <<apiVars, cacheVars, konnectVars, parent, view, eid,
                 stale, failures, lost, restarts, external, parents>>

\* A create request Konnect accepts.
KonnectAccepts(k) ==
  /\ KonnectHasParent
  /\ kind.uniqueNames => alive = {}
  /\ Fresh(k)
  /\ alive' = alive \cup {k}
  /\ tag' = [tag EXCEPT ![k] = view.uid]

\* Mutant: the new ID is not remembered in pendingKonnectIDs.
ReconcileCreateForgetting(k) ==
  /\ pc = "create"
  /\ KonnectAccepts(k)
  /\ eid' = k
  /\ Goto("patchStatus")
  /\ UNCHANGED <<apiVars, cacheVars, parent, pending, view, countVars>>

ReconcileCreate(k) ==
  /\ pc = "create"
  /\ KonnectAccepts(k)
  /\ eid' = k
  /\ pending' = k
  /\ Goto("patchStatus")
  /\ UNCHANGED <<apiVars, cacheVars, parent, view, countVars>>

\* Konnect creates the entity and the response is lost.
ReconcileCreateLost(k) ==
  /\ pc = "create"
  /\ Lose
  /\ KonnectAccepts(k)
  /\ Return(TRUE)
  /\ UNCHANGED <<apiVars, cacheVars, parent, pending>>

\* A conflict on the name is resolved by looking the entity up by its UID.
ReconcileCreateConflict(k) ==
  /\ pc = "create"
  /\ KonnectHasParent
  /\ kind.uniqueNames
  /\ k \in LookupByUID
  /\ eid' = k
  /\ pending' = k
  /\ Goto("patchStatus")
  /\ UNCHANGED <<apiVars, cacheVars, konnectVars, parent, view, countVars>>

\* A conflict with an entity that is not ours is not retried.
ReconcileCreateRejected ==
  /\ pc = "create"
  /\ kind.uniqueNames /\ alive # {} /\ LookupByUID = {}
  /\ Return(FALSE)
  /\ UNCHANGED <<apiVars, cacheVars, konnectVars, parent, pending, countVars>>

\* The status patch after a create.
ReconcilePatchStatus ==
  /\ pc = "patchStatus"
  /\ Exists(obj)
  /\ Write([obj EXCEPT !.id = eid])
  /\ Return(FALSE)
  /\ UNCHANGED <<kind, uids, cacheVars, konnectVars, parent, pending, countVars>>

\* ops.Update skips the request within the sync period, or it fails.
ReconcileUpdateSkipped ==
  /\ pc = "update"
  /\ Goto("updateStatus")
  /\ UNCHANGED <<apiVars, cacheVars, konnectVars, parent, pending, view, eid, countVars>>

\* It updates the entity, its UID label included; a PUT creates a missing one.
ReconcileUpdate ==
  /\ pc = "update"
  /\ KonnectHasParent
  /\ eid \in alive \/ (kind.upserts /\ (kind.uniqueNames => alive = {}))
  /\ alive' = alive \cup {eid}
  /\ tag' = [tag EXCEPT ![eid] = view.uid]
  /\ Goto("updateStatus")
  /\ UNCHANGED <<apiVars, cacheVars, parent, pending, view, eid, countVars>>

\* handleUpdateError: a missing entity is created again, under another ID.
ReconcileRecreate(k) ==
  /\ pc = "update"
  /\ eid \notin alive
  /\ ~kind.upserts
  /\ KonnectAccepts(k)
  /\ eid' = k
  /\ Goto("updateStatus")
  /\ UNCHANGED <<apiVars, cacheVars, parent, pending, view, countVars>>

\* Mutant: the status is written whatever the object has become.
ReconcileUpdateStatusBlind ==
  /\ pc = "updateStatus"
  /\ Exists(obj)
  /\ Write([obj EXCEPT !.id = eid])
  /\ Return(TRUE)
  /\ UNCHANGED <<kind, uids, cacheVars, konnectVars, parent, pending, countVars>>

\* Mutant: no requeue after the sync period.
ReconcileUpdateStatusOnce ==
  /\ pc = "updateStatus"
  /\ view = obj
  /\ Write([obj EXCEPT !.id = eid])
  /\ Return(FALSE)
  /\ UNCHANGED <<kind, uids, cacheVars, konnectVars, parent, pending, countVars>>

\* Status().Update with the resourceVersion that was read.
ReconcileUpdateStatus ==
  /\ pc = "updateStatus"
  /\ view = obj
  /\ Write([obj EXCEPT !.id = eid])
  /\ Return(TRUE)
  /\ UNCHANGED <<kind, uids, cacheVars, konnectVars, parent, pending, countVars>>

\* An Update conflicts with a change of the object, or a patch finds no object
\* that it can change: Reconcile returns and is tried again.
ReconcileConflict ==
  /\ \/ pc \in {"parentGone", "removeFinalizer", "updateStatus"} /\ view # obj
     \/ pc = "finalizer" /\ ~view.fin /\ (obj.del \/ ~Exists(obj))
     \/ pc \in {"pending", "patchStatus"} /\ ~Exists(obj)
  /\ Return(TRUE)
  /\ UNCHANGED <<apiVars, cacheVars, konnectVars, parent, pending, countVars>>

\* Mutant: a failed call is not tried again.
ReconcileFailsForGood ==
  /\ pc \notin {"idle", "update"}
  /\ Return(FALSE)
  /\ Fail
  /\ UNCHANGED <<apiVars, cacheVars, konnectVars, parent, pending>>

\* A call to the API server or to Konnect fails, which is tried again too; in
\* ops.Update it is reported with the status (ReconcileUpdateSkipped).
ReconcileFails ==
  /\ pc \notin {"idle", "update"}
  /\ Return(TRUE)
  /\ Fail
  /\ UNCHANGED <<apiVars, cacheVars, konnectVars, parent, pending>>

\* Konnect has no control plane to create the entity in.
ReconcileCreateNoParent ==
  /\ pc = "create"
  /\ ~KonnectHasParent
  /\ Return(TRUE)
  /\ UNCHANGED <<apiVars, cacheVars, konnectVars, parent, pending, countVars>>

\* The process is restarted: memory is lost and the caches are filled anew.
OperatorRestart ==
  /\ restarts < MaxRestarts
  /\ restarts' = restarts + 1
  /\ pending' = None
  /\ cache' = obj /\ watch' = << >> /\ parentSeen' = (parent # "gone")
  /\ pc' = "idle" /\ view' = NoObject /\ eid' = None
  /\ dirty' = TRUE
  /\ UNCHANGED <<kind, obj, uids, konnectVars, parent, stale, dropped, failures, lost, external, parents>>

-----------------------------------------------------------------------------
\* Steps of a Reconcile whose calls are answered.
Reconcile ==
  \/ ReconcileStart \/ ReconcileRefs \/ ReconcileParentGone
  \/ ReconcileDropFinalizer \/ ReconcileDelete \/ ReconcileRemoveFinalizer
  \/ ReconcileObjectGone \/ ReconcileAddFinalizer \/ ReconcileTypeSpecific
  \/ ReconcileRestorePending \/ ReconcilePassPending
  \/ \E k \in KIDs : ReconcileCreate(k)
  \/ \E k \in KIDs : ReconcileCreateConflict(k)
  \/ ReconcileCreateRejected \/ ReconcileCreateNoParent
  \/ ReconcilePatchStatus \/ ReconcileUpdateSkipped
  \/ ReconcileUpdate \/ \E k \in KIDs : ReconcileRecreate(k)
  \/ ReconcileUpdateStatus \/ ReconcileConflict

Failure ==
  \/ ReconcileDeleteLost
  \/ \E k \in KIDs : ReconcileCreateLost(k)
  \/ ReconcileFails
  \/ OperatorRestart

Environment ==
  \/ \E u \in UIDs : UserCreate(u)
  \/ UserDelete \/ CacheSync \/ OtherWatch
  \/ ParentDeletedInKonnect \/ ParentGone \/ ParentReturns \/ ParentSync
  \/ \E k \in KIDs : ExternalDelete(k)

Next == Reconcile \/ Failure \/ Environment

\* Events arrive, a queued object is reconciled to the end of the reconcile,
\* and the sync period passes again and again.
Fairness ==
  /\ WF_vars(CacheSync)
  /\ WF_vars(ParentSync)
  /\ WF_vars(Reconcile)
  /\ SF_vars(ReconcileUpdate \/ \E k \in KIDs : ReconcileRecreate(k))

Spec == Init /\ [][Next]_vars
FairSpec == Spec /\ Fairness

-----------------------------------------------------------------------------
(* Properties.                                                             *)

\* reconciler_generic.go, before the finalizer is added: even if the operator
\* is interrupted right after the Konnect entity is created "there is always a
\* finalizer that triggers the cleanup logic on deletion, so the Konnect entity
\* can never be orphaned".  Whatever exists in Konnect belongs to an object
\* that exists, carries the finalizer and can find the entity by its UID.
NeverOrphaned ==
  \A k \in alive : Exists(obj) /\ obj.fin /\ (k \in {obj.id, pending} \/ obj.uid = tag[k])

\* The same as far as the code achieves it: while reconciles start on up-to-date
\* copies, for types that keep their ID when the entity is created again, and in
\* a control plane that is not a mirror and has not been made anew; once a
\* response or the operator's memory was lost, only where Konnect keeps the names
\* unique and can look the entity up, and for the only object of the name.
NeverLostTrack == lost = 0 /\ restarts = 0
OnlyObject == kind.uniqueNames /\ kind.hasLookup /\ \A u, v \in uids : u = v
KeepsID == kind.upserts /\ ~kind.checksID
NoOrphan ==
  (/\ ~stale /\ KeepsID /\ ~kind.mirrorParent /\ parents = 0
   /\ NeverLostTrack \/ OnlyObject) => NeverOrphaned

\* reconcilePendingKonnectID exists "so a stale cache cannot drive a duplicate
\* create": Konnect never has two entities of one object although status patches
\* fail and Konnect accepts equal names.  On old copies of the object the code
\* achieves it, for types that keep their ID, only as long as
\*   - the ID was kept in memory until the informer's copy had it: a reconcile
\*     drops it on the evidence of its own copy, which the answer to a patch of a
\*     condition may have made newer than the informer's, and the next reconcile,
\*     on the informer's copy, creates a duplicate;
\*   - the object is not deleted and no other had its name: a deletion drops the
\*     ID too, and an old copy creates the entity again.
\* The other exception are types of equal names whose update creates a missing
\* entity under another ID, which a conflict on the status loses.
Remembered == KeepsID /\ ~dropped /\ uids \subseteq {obj.uid} /\ ~obj.del
NoDuplicate ==
  NeverLostTrack /\ (kind.uniqueNames \/ kind.upserts) /\ (~stale \/ Remembered)
    => \A k1, k2 \in alive : tag[k1] = tag[k2] => k1 = k2

\* No write to the status replaces the ID of an entity that still exists, which
\* nothing would delete any more; with unique names not even on old copies.
NeverAbandons ==
  [][(/\ kind.uniqueNames \/ ~stale
      /\ obj.uid = obj'.uid /\ obj.id \in alive) => obj'.id = obj.id]_vars

\* A deleted object is finally gone, whatever was lost on the way.
DeletionCompletes == obj.del ~> ~obj.del

\* An object that stays gets an entity in Konnect, and gets it again when
\* somebody deletes it there (handleTypeSpecific: "recreate the entity").
EntityRealised ==
  (Exists(obj) /\ ~obj.del /\ alive = {})
     ~> (alive # {} \/ ~Exists(obj) \/ obj.del \/ parent # "present")
=============================================================================
