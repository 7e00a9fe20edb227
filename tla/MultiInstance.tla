---------------------------- MODULE MultiInstance ----------------------------
(***************************************************************************)
(* The multi-instance manager of the operator                              *)
(* (ingress-controller/pkg/manager/multiinstance): one process runs one    *)
(* ingress-controller instance per ControlPlane.                           *)
(*                                                                         *)
(* An instance is known to callers by its ID and to the goroutines by the  *)
(* pointer to its `instance` struct, here a handle.  A handle nobody can   *)
(* reach any more may be allocated again, so behaviours are unbounded      *)
(* although Handles and Gors are finite.                                   *)
(*                                                                         *)
(* managercfg.Hash fails only for an invalid version argument, and version *)
(* 1 is passed, so newInstance is modelled without its error return.       *)
(***************************************************************************)
EXTENDS Naturals, Sequences

CONSTANTS IDs,        \* manager.ID of the instances that can be scheduled
          Handles,    \* *instance values
          Gors,       \* goroutines executing Manager.runInstance
          Configs,    \* values of managercfg.Config told apart by their hash
          QueueSize,  \* SchedulingQueueSize
          None        \* nil

ASSUME QueueSizeAssumption == QueueSize \in Nat \ {0}
ASSUME NoneAssumption == None \notin IDs \cup Handles \cup Configs

VARIABLES
  instances,   \* Manager.instances: ID -> handle or None
  queue,       \* Manager.schedulingQueue
  blocked,     \* ID whose ScheduleInstance waits in the channel send and so
               \*   keeps instancesLock, or None
  hid, hcfg,   \* ID and config of a handle
  stopCh,      \* handles whose stopCh is closed
  run,         \* progress of instance.Run and of the manager it wraps
  sync,        \* what the wrapped manager's IsReady looks at
  gpc, gid, gobj,  \* runInstance: program counter, argument, local `in`
  diag,        \* DiagnosticsServer.handlers: ID -> handle or None
  validators,  \* RequestHandler.validators: ID -> handle or None
  loop,        \* Manager.Start is in its for loop
  ctxDone      \* the parent context is cancelled

mgrVars  == <<instances, queue, blocked, hid, hcfg, stopCh>>
runVars  == <<run, sync>>
gorVars  == <<gpc, gid, gobj>>
regVars  == <<diag, validators>>
ctxVars  == <<loop, ctxDone>>
vars     == <<mgrVars, runVars, gorVars, regVars, ctxVars>>

RunStates  == {"idle", "spawned", "running", "cancelled", "exited"}
SyncStates == {"waiting", "elected", "applied"}
GorStates  == {"free", "lookup", "spawn", "register", "wait"}

TypeOK ==
  /\ instances \in [IDs -> Handles \cup {None}]
  /\ queue \in Seq(IDs)
  /\ Len(queue) <= QueueSize
  /\ blocked \in IDs \cup {None}
  /\ hid \in [Handles -> IDs \cup {None}]
  /\ hcfg \in [Handles -> Configs \cup {None}]
  /\ stopCh \in SUBSET Handles
  /\ run \in [Handles -> RunStates]
  /\ sync \in [Handles -> SyncStates]
  /\ gpc \in [Gors -> GorStates]
  /\ gid \in [Gors -> IDs \cup {None}]
  /\ gobj \in [Gors -> Handles \cup {None}]
  /\ diag \in [IDs -> Handles \cup {None}]
  /\ validators \in [IDs -> Handles \cup {None}]
  /\ loop \in BOOLEAN
  /\ ctxDone \in BOOLEAN

Init ==
  /\ instances = [i \in IDs |-> None]
  /\ queue = << >>
  /\ blocked = None
  /\ hid = [h \in Handles |-> None]
  /\ hcfg = [h \in Handles |-> None]
  /\ stopCh = {}
  /\ run = [h \in Handles |-> "idle"]
  /\ sync = [h \in Handles |-> "waiting"]
  /\ gpc = [g \in Gors |-> "free"]
  /\ gid = [g \in Gors |-> None]
  /\ gobj = [g \in Gors |-> None]
  /\ diag = [i \in IDs |-> None]
  /\ validators = [i \in IDs |-> None]
  /\ loop = TRUE
  /\ ctxDone = FALSE

-----------------------------------------------------------------------------
(* Calls of the manager's users.                                           *)

LockFree == blocked = None

\* A handle that neither Manager.instances nor a goroutine refers to.  (The
\* registries hold handlers and validators, not instances.)
Fresh(h) ==
  /\ \A i \in IDs : instances[i] # h
  /\ \A g \in Gors : gobj[g] # h
  /\ run[h] \in {"idle", "exited"}

NewInstance(h, id, c) ==
  /\ hid' = [hid EXCEPT ![h] = id]
  /\ hcfg' = [hcfg EXCEPT ![h] = c]
  /\ stopCh' = stopCh \ {h}
  /\ run' = [run EXCEPT ![h] = "idle"]
  /\ sync' = [sync EXCEPT ![h] = "waiting"]

\* Mutant: the channel is unbounded.
SendToQueueUnbounded(id) == queue' = Append(queue, id) /\ blocked' = None

\* Mutant: the send is dropped when the channel is full.
SendToQueueDropping(id) ==
  /\ queue' = IF Len(queue) < QueueSize THEN Append(queue, id) ELSE queue
  /\ blocked' = None

\* The send on schedulingQueue, with instancesLock held: it completes when
\* the channel's buffer has room and else blocks with the lock.
SendToQueue(id) ==
  IF Len(queue) < QueueSize
    THEN queue' = Append(queue, id) /\ blocked' = None
    ELSE blocked' = id /\ UNCHANGED queue

\* Mutant: ScheduleInstance overwrites an instance that is already there.
ScheduleInstanceOverwriting(id, h, c) ==
  /\ LockFree
  /\ Fresh(h)
  /\ validators' = [validators EXCEPT ![id] = h]
  /\ NewInstance(h, id, c)
  /\ instances' = [instances EXCEPT ![id] = h]
  /\ SendToQueue(id)
  /\ UNCHANGED <<gorVars, diag, ctxVars>>

\* ScheduleInstance of an ID that is not in the map.
ScheduleInstance(id, h, c) ==
  /\ LockFree
  /\ instances[id] = None
  /\ Fresh(h)
  /\ validators' = [validators EXCEPT ![id] = h]
  /\ NewInstance(h, id, c)
  /\ instances' = [instances EXCEPT ![id] = h]
  /\ SendToQueue(id)
  /\ UNCHANGED <<gorVars, diag, ctxVars>>

\* A blocked send completes; ScheduleInstance returns and unlocks.
ScheduleUnblock ==
  /\ blocked # None
  /\ Len(queue) < QueueSize
  /\ queue' = Append(queue, blocked)
  /\ blocked' = None
  /\ UNCHANGED <<instances, hid, hcfg, stopCh, runVars, gorVars, regVars, ctxVars>>

\* Mutant: the instance is dropped from the map and never told to stop.
StopInstanceWithoutStop(id) ==
  /\ LockFree
  /\ instances[id] # None
  /\ diag' = [diag EXCEPT ![id] = None]
  /\ validators' = [validators EXCEPT ![id] = None]
  /\ instances' = [instances EXCEPT ![id] = None]
  /\ UNCHANGED <<queue, blocked, hid, hcfg, stopCh, runVars, gorVars, ctxVars>>

\* Mutant: the validator stays registered.
StopInstanceKeepingValidator(id) ==
  /\ LockFree
  /\ instances[id] # None
  /\ diag' = [diag EXCEPT ![id] = None]
  /\ stopCh' = stopCh \cup {instances[id]}
  /\ UNCHANGED <<instances, queue, blocked, hid, hcfg, runVars, gorVars,
                 validators, ctxVars>>

\* StopInstance of an ID that is in the map.
StopInstance(id) ==
  /\ LockFree
  /\ instances[id] # None
  /\ diag' = [diag EXCEPT ![id] = None]
  /\ validators' = [validators EXCEPT ![id] = None]
  /\ stopCh' = stopCh \cup {instances[id]}
  /\ UNCHANGED <<instances, queue, blocked, hid, hcfg, runVars, gorVars, ctxVars>>

\* The wrapped manager's IsReady: before the election it reports ready, after
\* it the synchronizer must have applied a configuration (the licence check
\* that may follow is folded into "applied").
IsReady(h) == sync[h] # "elected"

IsInstanceReady(id) == instances[id] # None /\ IsReady(instances[id])

GetInstanceConfigHash(id) == hcfg[instances[id]]

-----------------------------------------------------------------------------
(* Manager.Start and the goroutines it spawns.                             *)

\* Start receives an ID and spawns runInstance.
StartReceive(g) ==
  /\ loop
  /\ queue # << >>
  /\ gpc[g] = "free"
  /\ queue' = Tail(queue)
  /\ gpc' = [gpc EXCEPT ![g] = "lookup"]
  /\ gid' = [gid EXCEPT ![g] = Head(queue)]
  /\ gobj' = [gobj EXCEPT ![g] = None]
  /\ UNCHANGED <<instances, blocked, hid, hcfg, stopCh, runVars, regVars, ctxVars>>

StartReturn ==
  /\ loop
  /\ ctxDone
  /\ loop' = FALSE
  /\ UNCHANGED <<mgrVars, runVars, gorVars, regVars, ctxDone>>

\* runInstance reads the map under the read lock.
RunInstanceLookup(g) ==
  /\ gpc[g] = "lookup"
  /\ LockFree
  /\ gobj' = [gobj EXCEPT ![g] = instances[gid[g]]]
  /\ gpc' = [gpc EXCEPT ![g] = IF instances[gid[g]] = None THEN "free" ELSE "spawn"]
  /\ UNCHANGED <<mgrVars, runVars, gid, regVars, ctxVars>>

\* go in.Run(ctx)
RunInstanceSpawn(g) ==
  /\ gpc[g] = "spawn"
  /\ run' = [run EXCEPT ![gobj[g]] = "spawned"]
  /\ gpc' = [gpc EXCEPT ![g] = "register"]
  /\ UNCHANGED <<mgrVars, sync, gid, gobj, regVars, ctxVars>>

\* Mutant: the diagnostics handler is not registered.
RunInstanceWithoutRegister(g) ==
  /\ gpc[g] = "register"
  /\ gpc' = [gpc EXCEPT ![g] = "wait"]
  /\ UNCHANGED <<mgrVars, runVars, gid, gobj, regVars, ctxVars>>

\* diagnosticsExposer.RegisterInstance, outside instancesLock.
RunInstanceRegister(g) ==
  /\ gpc[g] = "register"
  /\ diag' = [diag EXCEPT ![gid[g]] = gobj[g]]
  /\ gpc' = [gpc EXCEPT ![g] = "wait"]
  /\ UNCHANGED <<mgrVars, runVars, gid, gobj, validators, ctxVars>>

RunInstanceReturn(g) ==
  /\ gpc' = [gpc EXCEPT ![g] = "free"]
  /\ gid' = [gid EXCEPT ![g] = None]
  /\ gobj' = [gobj EXCEPT ![g] = None]

\* case <-in.StopChannel()
RunInstanceStopped(g) ==
  /\ gpc[g] = "wait"
  /\ gobj[g] \in stopCh
  /\ LockFree
  /\ instances' = [instances EXCEPT ![gid[g]] = None]
  /\ RunInstanceReturn(g)
  /\ UNCHANGED <<queue, blocked, hid, hcfg, stopCh, runVars, regVars, ctxVars>>

\* case <-ctx.Done()
RunInstanceCtxDone(g) ==
  /\ gpc[g] = "wait"
  /\ ctxDone
  /\ RunInstanceReturn(g)
  /\ UNCHANGED <<mgrVars, runVars, regVars, ctxVars>>

-----------------------------------------------------------------------------
(* instance.Run and the ingress-controller manager it wraps.               *)

\* The inner goroutine calls in.Run(ctx).
InstanceStart(h) ==
  /\ run[h] = "spawned"
  /\ run' = [run EXCEPT ![h] = "running"]
  /\ UNCHANGED <<mgrVars, sync, gorVars, regVars, ctxVars>>

\* Mutant: instance.Run waits for its parent context only.
InstanceCancelCtxOnly(h) ==
  /\ run[h] \in {"spawned", "running"}
  /\ ctxDone
  /\ run' = [run EXCEPT ![h] = "cancelled"]
  /\ UNCHANGED <<mgrVars, sync, gorVars, regVars, ctxVars>>

\* The select of instance.Run returns and its deferred cancel() runs.
InstanceCancel(h) ==
  /\ run[h] \in {"spawned", "running"}
  /\ h \in stopCh \/ ctxDone
  /\ run' = [run EXCEPT ![h] = "cancelled"]
  /\ UNCHANGED <<mgrVars, sync, gorVars, regVars, ctxVars>>

\* in.Run returns, some time after its context was cancelled.
InstanceExit(h) ==
  /\ run[h] = "cancelled"
  /\ run' = [run EXCEPT ![h] = "exited"]
  /\ UNCHANGED <<mgrVars, sync, gorVars, regVars, ctxVars>>

\* in.Run returns an error on its own: it is logged and nothing else happens.
InstanceFail(h) ==
  /\ run[h] = "running"
  /\ run' = [run EXCEPT ![h] = "exited"]
  /\ UNCHANGED <<mgrVars, sync, gorVars, regVars, ctxVars>>

\* The wrapped manager wins its election.
InstanceElected(h) ==
  /\ run[h] = "running"
  /\ sync[h] = "waiting"
  /\ sync' = [sync EXCEPT ![h] = "elected"]
  /\ UNCHANGED <<mgrVars, run, gorVars, regVars, ctxVars>>

\* Its synchronizer applies a first configuration.
InstanceApplied(h) ==
  /\ run[h] = "running"
  /\ sync[h] = "elected"
  /\ sync' = [sync EXCEPT ![h] = "applied"]
  /\ UNCHANGED <<mgrVars, run, gorVars, regVars, ctxVars>>

\* The synchronizer's loop sees its context done and resets configApplied.
SynchronizerStop(h) ==
  /\ run[h] \in {"cancelled", "exited"}
  /\ sync[h] = "applied"
  /\ sync' = [sync EXCEPT ![h] = "elected"]
  /\ UNCHANGED <<mgrVars, run, gorVars, regVars, ctxVars>>

CtxCancel ==
  /\ ~ctxDone
  /\ ctxDone' = TRUE
  /\ UNCHANGED <<mgrVars, runVars, gorVars, regVars, loop>>

-----------------------------------------------------------------------------
\* Steps the manager takes by itself.
ManagerStep ==
  \/ ScheduleUnblock
  \/ StartReturn
  \/ \E g \in Gors : StartReceive(g)
  \/ \E g \in Gors : RunInstanceLookup(g)
  \/ \E g \in Gors : RunInstanceSpawn(g)
  \/ \E g \in Gors : RunInstanceRegister(g)
  \/ \E g \in Gors : RunInstanceStopped(g)
  \/ \E g \in Gors : RunInstanceCtxDone(g)
  \/ \E h \in Handles : InstanceStart(h)
  \/ \E h \in Handles : InstanceCancel(h)
  \/ \E h \in Handles : InstanceExit(h)
  \/ \E h \in Handles : SynchronizerStop(h)

\* Steps of a wrapped manager that depend on its surroundings.
InstanceStep ==
  \/ \E h \in Handles : InstanceFail(h)
  \/ \E h \in Handles : InstanceElected(h)
  \/ \E h \in Handles : InstanceApplied(h)

Next ==
  \/ ManagerStep
  \/ InstanceStep
  \/ CtxCancel
  \/ \E id \in IDs, h \in Handles, c \in Configs : ScheduleInstance(id, h, c)
  \/ \E id \in IDs : StopInstance(id)

Spec == Init /\ [][Next]_vars

-----------------------------------------------------------------------------
(* Properties.                                                             *)

Active(g) == gpc[g] # "free"
Carries(g, id) == Active(g) /\ gid[g] = id
Queued(id) == blocked = id \/ \E i \in 1..Len(queue) : queue[i] = id

\* Every scheduled instance is started exactly once: no two runInstance
\* goroutines hold the same instance, the map lookup of a goroutine always
\* finds an instance, and the instance it is about to start was never
\* started (manager.Run "should be called only once per Manager instance",
\* internal/manager/run.go).
RunOnce ==
  /\ \A g1, g2 \in Gors : gobj[g1] = gobj[g2] /\ gobj[g1] # None => g1 = g2
  /\ \A g \in Gors : gpc[g] = "lookup" => instances[gid[g]] # None
  /\ \A g \in Gors : gpc[g] = "spawn" => run[gobj[g]] = "idle"

\* "Making sure there's only one instance of a manager.Manager with a given
\* ID" (manager.go), as far as the manager enforces it: of the started
\* instances of an ID at most one has not been told to stop, and it is the
\* one in the map.
OneUnstoppedPerID ==
  \A h \in Handles :
    run[h] \in {"spawned", "running"} /\ h \notin stopCh /\ ~ctxDone
      => instances[hid[h]] = h

\* An ID has a validator in the admission webhook exactly while its instance
\* is scheduled and not told to stop, and it is that instance's validator.
ValidatorMatchesInstance ==
  \A id \in IDs :
    validators[id] = IF instances[id] = None \/ instances[id] \in stopCh
                       THEN None ELSE instances[id]

\* While runInstance waits on an instance nobody has stopped, the diagnostics
\* server serves that instance's handler under its ID, although handlers are
\* registered outside the lock that orders everything else.
DiagnosticsServeRunning ==
  \A g \in Gors :
    gpc[g] = "wait" /\ gobj[g] \notin stopCh => diag[gid[g]] = gobj[g]

\* An instance in the map is never forgotten: until the context is cancelled
\* something is on its way to start it or waits for it to stop.
NeverForgotten ==
  \A id \in IDs :
    instances[id] # None /\ ~ctxDone
      => Queued(id) \/ \E g \in Gors : Carries(g, id)

\* StopInstance takes effect: the instance leaves the map and the manager it
\* wraps returns, whatever the instance was doing when it was told to stop
\* (unless the whole process is shutting down).
StopTakesEffect ==
  \A h \in Handles :
    (h \in stopCh) ~> (ctxDone \/ h \notin stopCh
                        \/ (run[h] = "exited" /\ instances[hid[h]] # h))
=============================================================================
