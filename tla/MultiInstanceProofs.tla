------------------------ MODULE MultiInstanceProofs ------------------------
(***************************************************************************)
(* Proofs about MultiInstance, for any sets of IDs, handles and goroutines *)
(* and any queue size.                                                     *)
(*                                                                         *)
(* The manager never looks at which handle a queue entry or a goroutine    *)
(* was made for: it passes IDs around and reads the map again.  That every *)
(* instance is nevertheless started exactly once rests on the invariant    *)
(* that for each ID in the map there is at most one token: one place in    *)
(* the queue, or one blocked send, or one goroutine.                       *)
(***************************************************************************)
EXTENDS MultiInstance, TLAPS

InQueue(id) == \E i \in 1..Len(queue) : queue[i] = id

\* The tokens of an ID exclude each other.
OneToken ==
  /\ \A i, j \in 1..Len(queue) : queue[i] = queue[j] => i = j
  /\ blocked # None => ~InQueue(blocked)
  /\ \A g \in Gors : gpc[g] # "free" => ~InQueue(gid[g]) /\ gid[g] # blocked
  /\ \A g1, g2 \in Gors :
       gpc[g1] # "free" /\ gpc[g2] # "free" /\ gid[g1] = gid[g2] => g1 = g2

\* The map holds the instance a token is about.
TokenHasInstance ==
  /\ \A id \in IDs : InQueue(id) => instances[id] # None /\ run[instances[id]] = "idle"
  /\ blocked # None => instances[blocked] # None /\ run[instances[blocked]] = "idle"
  /\ \A g \in Gors : gpc[g] # "free" => gid[g] \in IDs /\ instances[gid[g]] # None
  /\ \A g \in Gors :
       /\ gpc[g] = "lookup" => run[instances[gid[g]]] = "idle" /\ gobj[g] = None
       /\ gpc[g] = "spawn" => run[gobj[g]] = "idle"
       /\ gpc[g] \in {"spawn", "register", "wait"} => gobj[g] = instances[gid[g]]
       /\ gpc[g] = "free" => gobj[g] = None

\* A handle is in the map for one ID at most, its own.
MapInjective ==
  \A id \in IDs : instances[id] # None => hid[instances[id]] = id

\* A started instance that was not told to stop is in the map.
StartedInMap ==
  \A h \in Handles :
    run[h] \in {"spawned", "running"} /\ h \notin stopCh
      => hid[h] \in IDs /\ instances[hid[h]] = h

IInv == /\ TypeOK
        /\ OneToken
        /\ TokenHasInstance
        /\ MapInjective
        /\ StartedInMap
        /\ ValidatorMatchesInstance
        /\ DiagnosticsServeRunning

-----------------------------------------------------------------------------
(* Facts about the queue.                                                  *)

\* Receiving from a channel shifts its entries by one.
LEMMA TailFacts ==
  ASSUME NEW S, NEW q \in Seq(S), q # << >>
  PROVE  /\ Tail(q) \in Seq(S)
         /\ Head(q) = q[1] /\ Head(q) \in S
         /\ Len(q) \in Nat \ {0} /\ Len(Tail(q)) = Len(q) - 1
         /\ \A i \in 1..Len(Tail(q)) : i + 1 \in 1..Len(q) /\ Tail(q)[i] = q[i+1]
  OBVIOUS

\* Sending to a channel adds one entry at its end.
LEMMA AppendFacts ==
  ASSUME NEW S, NEW q \in Seq(S), NEW e \in S
  PROVE  /\ Append(q, e) \in Seq(S)
         /\ Len(q) \in Nat /\ Len(Append(q, e)) = Len(q) + 1
         /\ \A i \in 1..Len(q) : Append(q, e)[i] = q[i]
         /\ Append(q, e)[Len(q) + 1] = e
  OBVIOUS

\* What the queue holds after a receive, given that its entries are distinct.
LEMMA ReceiveFacts ==
  ASSUME TypeOK, OneToken, queue # << >>, queue' = Tail(queue)
  PROVE  /\ queue' \in Seq(IDs)
         /\ Len(queue') <= QueueSize
         /\ Head(queue) \in IDs /\ InQueue(Head(queue))
         /\ \A i, j \in 1..Len(queue') : queue'[i] = queue'[j] => i = j
         /\ \A x : InQueue(x)' => InQueue(x) /\ x # Head(queue)
  <1>1. /\ Tail(queue) \in Seq(IDs)
        /\ Head(queue) = queue[1] /\ Head(queue) \in IDs
        /\ Len(queue) \in Nat \ {0} /\ Len(Tail(queue)) = Len(queue) - 1
        /\ \A i \in 1..Len(Tail(queue)) :
             i + 1 \in 1..Len(queue) /\ Tail(queue)[i] = queue[i+1]
    BY TailFacts DEF TypeOK
  <1>2. \A i, j \in 1..Len(queue) : queue[i] = queue[j] => i = j
    BY DEF OneToken
  <1>3. Len(queue') <= QueueSize
    BY <1>1, QueueSizeAssumption DEF TypeOK
  <1>4. \A i, j \in 1..Len(queue') : queue'[i] = queue'[j] => i = j
    <2>1. SUFFICES ASSUME NEW i \in 1..Len(queue'), NEW j \in 1..Len(queue'),
                          queue'[i] = queue'[j]
                   PROVE  i = j
      OBVIOUS
    <2>2. i + 1 = j + 1
      BY <1>1, <1>2, <2>1
    <2>3. QED BY <1>1, <2>2
  <1>5. ASSUME NEW x, InQueue(x)'
        PROVE  InQueue(x) /\ x # Head(queue)
    <2>1. PICK i \in 1..Len(queue') : queue'[i] = x
      BY <1>5 DEF InQueue
    <2>2. i \in Nat /\ i >= 1 /\ i + 1 \in 1..Len(queue) /\ queue[i+1] = x
      BY <1>1, <2>1
    <2>3. 1 \in 1..Len(queue) /\ i + 1 # 1
      BY <1>1, <2>2
    <2>4. QED BY <1>1, <1>2, <2>2, <2>3 DEF InQueue
  <1>6. InQueue(Head(queue))
    BY <1>1 DEF InQueue
  <1>7. QED BY <1>1, <1>3, <1>4, <1>5, <1>6

\* What the queue holds after the send of an ID that was not in it.
LEMMA SendFacts ==
  ASSUME TypeOK, OneToken, NEW e \in IDs, ~InQueue(e), Len(queue) < QueueSize,
         queue' = Append(queue, e)
  PROVE  /\ queue' \in Seq(IDs)
         /\ Len(queue') <= QueueSize
         /\ \A i, j \in 1..Len(queue') : queue'[i] = queue'[j] => i = j
         /\ \A x : InQueue(x)' => InQueue(x) \/ x = e
  <1>1. /\ Append(queue, e) \in Seq(IDs)
        /\ Len(queue) \in Nat /\ Len(Append(queue, e)) = Len(queue) + 1
        /\ \A i \in 1..Len(queue) : Append(queue, e)[i] = queue[i]
        /\ Append(queue, e)[Len(queue) + 1] = e
    BY AppendFacts DEF TypeOK
  <1>2. Len(queue') <= QueueSize
    BY <1>1, QueueSizeAssumption
  <1>3. \A i \in 1..Len(queue') : i \in 1..Len(queue) \/ i = Len(queue) + 1
    BY <1>1
  <1>4. \A i \in 1..Len(queue) : queue[i] # e
    BY DEF InQueue
  <1>5. \A i, j \in 1..Len(queue') : queue'[i] = queue'[j] => i = j
    BY <1>1, <1>3, <1>4 DEF OneToken
  <1>6. \A x : InQueue(x)' => InQueue(x) \/ x = e
    BY <1>1, <1>3 DEF InQueue
  <1>7. QED BY <1>1, <1>2, <1>5, <1>6

\* A receive takes nothing but the head away.
LEMMA ReceiveKeeps ==
  ASSUME TypeOK, queue # << >>, queue' = Tail(queue), NEW x, InQueue(x)
  PROVE  InQueue(x)' \/ x = Head(queue)
  <1>1. /\ Head(queue) = queue[1]
        /\ Len(queue) \in Nat \ {0} /\ Len(queue') = Len(queue) - 1
        /\ \A i \in 1..Len(queue') : queue'[i] = queue[i+1]
    BY TailFacts DEF TypeOK
  <1>2. PICK i \in 1..Len(queue) : queue[i] = x
    BY DEF InQueue
  <1>3. CASE i = 1
    BY <1>1, <1>2, <1>3
  <1>4. CASE i # 1
    <2>1. i - 1 \in 1..Len(queue') /\ (i - 1) + 1 = i
      BY <1>1, <1>2, <1>4
    <2>2. queue'[i - 1] = x
      BY <1>1, <1>2, <2>1
    <2>3. QED BY <2>1, <2>2 DEF InQueue
  <1>5. QED BY <1>3, <1>4

\* A send adds its ID and takes nothing away.
LEMMA SendKeeps ==
  ASSUME TypeOK, NEW e \in IDs, queue' = Append(queue, e)
  PROVE  InQueue(e)' /\ \A x : InQueue(x) => InQueue(x)'
  <1>1. /\ Len(queue) \in Nat /\ Len(queue') = Len(queue) + 1
        /\ \A i \in 1..Len(queue) : queue'[i] = queue[i]
        /\ queue'[Len(queue) + 1] = e
    BY AppendFacts DEF TypeOK
  <1>2. Len(queue) + 1 \in 1..Len(queue') /\ 1..Len(queue) \subseteq 1..Len(queue')
    BY <1>1
  <1>3. QED BY <1>1, <1>2 DEF InQueue

\* A step that leaves the queue alone leaves what is in it alone.
LEMMA QueueUnchanged ==
  ASSUME queue' = queue
  PROVE  \A x : InQueue(x)' <=> InQueue(x)
  BY DEF InQueue

-----------------------------------------------------------------------------
(* The inductive invariant.                                                *)

\* A manager nobody has used yet (NewManager), whatever its context.
EmptyManager ==
  /\ instances = [i \in IDs |-> None] /\ queue = << >> /\ blocked = None
  /\ hid = [h \in Handles |-> None] /\ hcfg = [h \in Handles |-> None] /\ stopCh = {}
  /\ run = [h \in Handles |-> "idle"] /\ sync = [h \in Handles |-> "waiting"]
  /\ gpc = [g \in Gors |-> "free"] /\ gid = [g \in Gors |-> None]
  /\ gobj = [g \in Gors |-> None]
  /\ diag = [i \in IDs |-> None] /\ validators = [i \in IDs |-> None]
  /\ loop \in BOOLEAN /\ ctxDone \in BOOLEAN

\* An empty manager satisfies the invariant.
LEMMA EmptyIInv == EmptyManager => IInv
  <1> SUFFICES ASSUME EmptyManager PROVE IInv
    OBVIOUS
  <1>1. queue \in Seq(IDs) /\ Len(queue) = 0 /\ 1..Len(queue) = {}
    BY DEF EmptyManager
  <1>2. TypeOK
    <2>1. Len(queue) <= QueueSize
      BY <1>1, QueueSizeAssumption
    <2>2. QED BY <1>1, <2>1 DEF EmptyManager, TypeOK, RunStates, SyncStates, GorStates
  <1>3. \A x : ~InQueue(x)
    BY <1>1 DEF InQueue
  <1>4. OneToken
    BY <1>1, <1>3 DEF EmptyManager, OneToken
  <1>5. TokenHasInstance
    BY <1>3 DEF EmptyManager, TokenHasInstance
  <1>6. MapInjective /\ StartedInMap /\ ValidatorMatchesInstance /\ DiagnosticsServeRunning
    BY DEF EmptyManager, MapInjective, StartedInMap, ValidatorMatchesInstance,
           DiagnosticsServeRunning
  <1>7. QED BY <1>2, <1>4, <1>5, <1>6 DEF IInv

\* The manager starts empty.
LEMMA InitIInv == Init => IInv
  BY EmptyIInv DEF Init, EmptyManager

\* An ID without an instance has no token.
LEMMA NoInstanceNoToken ==
  ASSUME IInv, NEW id \in IDs, instances[id] = None
  PROVE  /\ ~InQueue(id) /\ blocked # id
         /\ \A g \in Gors : gpc[g] # "free" => gid[g] # id
  BY NoneAssumption DEF IInv, TokenHasInstance

\* A blocked send keeps its token and completes it to a queue entry.
LEMMA ScheduleUnblockIInv ==
  ASSUME IInv, ScheduleUnblock
  PROVE  IInv'
  <1> USE DEF IInv
  <1>1. blocked \in IDs /\ ~InQueue(blocked) /\ queue' = Append(queue, blocked)
    BY DEF ScheduleUnblock, TypeOK, OneToken
  <1>2. /\ queue' \in Seq(IDs)
        /\ Len(queue') <= QueueSize
        /\ \A i, j \in 1..Len(queue') : queue'[i] = queue'[j] => i = j
        /\ \A x : InQueue(x)' => InQueue(x) \/ x = blocked
    BY <1>1, SendFacts DEF ScheduleUnblock
  <1>3. /\ blocked' = None /\ instances' = instances /\ hid' = hid
        /\ hcfg' = hcfg /\ stopCh' = stopCh /\ run' = run /\ sync' = sync
        /\ gpc' = gpc /\ gid' = gid /\ gobj' = gobj /\ diag' = diag
        /\ validators' = validators /\ loop' = loop /\ ctxDone' = ctxDone
    BY DEF ScheduleUnblock, mgrVars, runVars, gorVars, regVars, ctxVars
  <1>4. TypeOK'
    BY <1>2, <1>3 DEF TypeOK
  <1>5. OneToken'
    BY <1>1, <1>2, <1>3, NoneAssumption DEF OneToken, TokenHasInstance
  <1>6. TokenHasInstance'
    BY <1>1, <1>2, <1>3, NoneAssumption DEF TokenHasInstance
  <1>7. (MapInjective /\ StartedInMap /\ ValidatorMatchesInstance
          /\ DiagnosticsServeRunning)'
    BY <1>3 DEF MapInjective, StartedInMap, ValidatorMatchesInstance,
                DiagnosticsServeRunning
  <1>8. QED BY <1>4, <1>5, <1>6, <1>7

\* Steps that touch nothing the invariant speaks of but the types.
LEMMA SideStepIInv ==
  ASSUME IInv, UNCHANGED <<mgrVars, run, gorVars, regVars>>,
         sync' \in [Handles -> SyncStates], loop' \in BOOLEAN, ctxDone' \in BOOLEAN
  PROVE  IInv'
  <1> USE DEF IInv
  <1>1. \A x : InQueue(x)' <=> InQueue(x)
    BY QueueUnchanged DEF mgrVars
  <1>2. TypeOK'
    BY DEF TypeOK, mgrVars, gorVars, regVars
  <1>3. OneToken' /\ TokenHasInstance'
    BY <1>1 DEF OneToken, TokenHasInstance, mgrVars, gorVars
  <1>4. (MapInjective /\ StartedInMap /\ ValidatorMatchesInstance
          /\ DiagnosticsServeRunning)'
    BY DEF MapInjective, StartedInMap, ValidatorMatchesInstance,
           DiagnosticsServeRunning, mgrVars, gorVars, regVars
  <1>5. QED BY <1>2, <1>3, <1>4

\* Progress of a started instance: it never becomes idle or started again.
LEMMA ProgressIInv ==
  ASSUME IInv, UNCHANGED <<mgrVars, sync, gorVars, regVars, ctxVars>>, NEW h \in Handles,
         NEW r \in RunStates, run' = [run EXCEPT ![h] = r], run[h] # "idle",
         r \in {"spawned", "running"} => run[h] \in {"spawned", "running"}
  PROVE  IInv'
  <1> USE NoneAssumption DEF IInv
  <1>1. \A x : InQueue(x)' <=> InQueue(x)
    BY QueueUnchanged DEF mgrVars
  <1>2. TypeOK'
    BY DEF TypeOK, mgrVars, gorVars, regVars, ctxVars
  <1>3. \A k \in Handles : run[k] = "idle" => run'[k] = "idle"
    BY DEF TypeOK
  <1>4. OneToken'
    BY <1>1 DEF OneToken, mgrVars, gorVars
  <1>5. TokenHasInstance'
    BY <1>1, <1>3 DEF TypeOK, TokenHasInstance, mgrVars, gorVars
  <1>6. StartedInMap'
    BY DEF TypeOK, StartedInMap, mgrVars
  <1>7. (MapInjective /\ ValidatorMatchesInstance /\ DiagnosticsServeRunning)'
    BY DEF MapInjective, ValidatorMatchesInstance, DiagnosticsServeRunning, mgrVars,
           gorVars, regVars
  <1>8. QED BY <1>2, <1>4, <1>5, <1>6, <1>7

\* runInstance's map lookup finds the instance of its token.
LEMMA RunInstanceLookupIInv ==
  ASSUME IInv, NEW g \in Gors, RunInstanceLookup(g)
  PROVE  IInv'
  <1> USE NoneAssumption DEF IInv
  <1>1. queue' = queue /\ blocked' = blocked /\ \A x : InQueue(x)' <=> InQueue(x)
    BY QueueUnchanged DEF RunInstanceLookup, mgrVars, runVars, gorVars, regVars, ctxVars
  <1>2. TypeOK'
    BY <1>1, QueueSizeAssumption
    DEF TypeOK, TokenHasInstance, RunStates, SyncStates, GorStates,
        RunInstanceLookup, mgrVars, runVars, gorVars, regVars, ctxVars
  <1>3. OneToken'
    BY <1>1
    DEF TypeOK, OneToken, TokenHasInstance,
        RunInstanceLookup, mgrVars, runVars, gorVars, regVars, ctxVars
  <1>4. TokenHasInstance'
    BY <1>1
    DEF TypeOK, OneToken, TokenHasInstance, MapInjective,
        RunInstanceLookup, mgrVars, runVars, gorVars, regVars, ctxVars
  <1>5. MapInjective'
    BY <1>1 DEF TypeOK, TokenHasInstance, MapInjective,
        RunInstanceLookup, mgrVars, runVars, gorVars, regVars, ctxVars
  <1>6. StartedInMap'
    BY <1>1 DEF TypeOK, TokenHasInstance, MapInjective, StartedInMap,
        RunInstanceLookup, mgrVars, runVars, gorVars, regVars, ctxVars
  <1>7. ValidatorMatchesInstance'
    BY <1>1 DEF TypeOK, TokenHasInstance, MapInjective, ValidatorMatchesInstance,
        RunInstanceLookup, mgrVars, runVars, gorVars, regVars, ctxVars
  <1>8. DiagnosticsServeRunning'
    BY <1>1 DEF TypeOK, OneToken, TokenHasInstance, DiagnosticsServeRunning,
        RunInstanceLookup, mgrVars, runVars, gorVars, regVars, ctxVars
  <1>9. QED BY <1>2, <1>3, <1>4, <1>5, <1>6, <1>7, <1>8

\* go in.Run(ctx): the instance started is the one in the map.
LEMMA RunInstanceSpawnIInv ==
  ASSUME IInv, NEW g \in Gors, RunInstanceSpawn(g)
  PROVE  IInv'
  <1> USE NoneAssumption DEF IInv
  <1>1. queue' = queue /\ blocked' = blocked /\ \A x : InQueue(x)' <=> InQueue(x)
    BY QueueUnchanged DEF RunInstanceSpawn, mgrVars, runVars, gorVars, regVars, ctxVars
  <1>2. TypeOK'
    BY <1>1, QueueSizeAssumption
    DEF TypeOK, TokenHasInstance, RunStates, SyncStates, GorStates,
        RunInstanceSpawn, mgrVars, runVars, gorVars, regVars, ctxVars
  <1>3. OneToken'
    BY <1>1
    DEF TypeOK, OneToken, TokenHasInstance,
        RunInstanceSpawn, mgrVars, runVars, gorVars, regVars, ctxVars
  <1>4. TokenHasInstance'
    BY <1>1
    DEF TypeOK, OneToken, TokenHasInstance, MapInjective,
        RunInstanceSpawn, mgrVars, runVars, gorVars, regVars, ctxVars
  <1>5. MapInjective'
    BY <1>1 DEF TypeOK, TokenHasInstance, MapInjective,
        RunInstanceSpawn, mgrVars, runVars, gorVars, regVars, ctxVars
  <1>6. StartedInMap'
    BY <1>1 DEF TypeOK, TokenHasInstance, MapInjective, StartedInMap,
        RunInstanceSpawn, mgrVars, runVars, gorVars, regVars, ctxVars
  <1>7. ValidatorMatchesInstance'
    BY <1>1 DEF TypeOK, TokenHasInstance, MapInjective, ValidatorMatchesInstance,
        RunInstanceSpawn, mgrVars, runVars, gorVars, regVars, ctxVars
  <1>8. DiagnosticsServeRunning'
    BY <1>1 DEF TypeOK, OneToken, TokenHasInstance, DiagnosticsServeRunning,
        RunInstanceSpawn, mgrVars, runVars, gorVars, regVars, ctxVars
  <1>9. QED BY <1>2, <1>3, <1>4, <1>5, <1>6, <1>7, <1>8

\* The handler registered is the one of the instance in the map.
LEMMA RunInstanceRegisterIInv ==
  ASSUME IInv, NEW g \in Gors, RunInstanceRegister(g)
  PROVE  IInv'
  <1> USE NoneAssumption DEF IInv
  <1>1. queue' = queue /\ blocked' = blocked /\ \A x : InQueue(x)' <=> InQueue(x)
    BY QueueUnchanged DEF RunInstanceRegister, mgrVars, runVars, gorVars, regVars, ctxVars
  <1>2. TypeOK'
    BY <1>1, QueueSizeAssumption
    DEF TypeOK, TokenHasInstance, RunStates, SyncStates, GorStates,
        RunInstanceRegister, mgrVars, runVars, gorVars, regVars, ctxVars
  <1>3. OneToken'
    BY <1>1
    DEF TypeOK, OneToken, TokenHasInstance,
        RunInstanceRegister, mgrVars, runVars, gorVars, regVars, ctxVars
  <1>4. TokenHasInstance'
    BY <1>1
    DEF TypeOK, OneToken, TokenHasInstance, MapInjective,
        RunInstanceRegister, mgrVars, runVars, gorVars, regVars, ctxVars
  <1>5. MapInjective'
    BY <1>1 DEF TypeOK, TokenHasInstance, MapInjective,
        RunInstanceRegister, mgrVars, runVars, gorVars, regVars, ctxVars
  <1>6. StartedInMap'
    BY <1>1 DEF TypeOK, TokenHasInstance, MapInjective, StartedInMap,
        RunInstanceRegister, mgrVars, runVars, gorVars, regVars, ctxVars
  <1>7. ValidatorMatchesInstance'
    BY <1>1 DEF TypeOK, TokenHasInstance, MapInjective, ValidatorMatchesInstance,
        RunInstanceRegister, mgrVars, runVars, gorVars, regVars, ctxVars
  <1>8. DiagnosticsServeRunning'
    BY <1>1 DEF TypeOK, OneToken, TokenHasInstance, DiagnosticsServeRunning,
        RunInstanceRegister, mgrVars, runVars, gorVars, regVars, ctxVars
  <1>9. QED BY <1>2, <1>3, <1>4, <1>5, <1>6, <1>7, <1>8

\* StopInstance unregisters and closes stopCh, and keeps the map.
LEMMA StopInstanceIInv ==
  ASSUME IInv, NEW id \in IDs, StopInstance(id)
  PROVE  IInv'
  <1> USE NoneAssumption DEF IInv
  <1>1. queue' = queue /\ blocked' = blocked /\ \A x : InQueue(x)' <=> InQueue(x)
    BY QueueUnchanged DEF StopInstance, mgrVars, runVars, gorVars, regVars, ctxVars
  <1>2. TypeOK'
    BY <1>1, QueueSizeAssumption
    DEF TypeOK, TokenHasInstance, RunStates, SyncStates, GorStates,
        StopInstance, mgrVars, runVars, gorVars, regVars, ctxVars
  <1>3. OneToken'
    BY <1>1
    DEF TypeOK, OneToken, TokenHasInstance,
        StopInstance, mgrVars, runVars, gorVars, regVars, ctxVars
  <1>4. TokenHasInstance'
    BY <1>1
    DEF TypeOK, OneToken, TokenHasInstance, MapInjective,
        StopInstance, mgrVars, runVars, gorVars, regVars, ctxVars
  <1>5. MapInjective'
    BY <1>1 DEF TypeOK, TokenHasInstance, MapInjective,
        StopInstance, mgrVars, runVars, gorVars, regVars, ctxVars
  <1>6. StartedInMap'
    BY <1>1 DEF TypeOK, TokenHasInstance, MapInjective, StartedInMap,
        StopInstance, mgrVars, runVars, gorVars, regVars, ctxVars
  <1>7. ValidatorMatchesInstance'
    BY <1>1 DEF TypeOK, TokenHasInstance, MapInjective, ValidatorMatchesInstance,
        StopInstance, mgrVars, runVars, gorVars, regVars, ctxVars
  <1>8. DiagnosticsServeRunning'
    BY <1>1 DEF TypeOK, OneToken, TokenHasInstance, DiagnosticsServeRunning,
        StopInstance, mgrVars, runVars, gorVars, regVars, ctxVars
  <1>9. QED BY <1>2, <1>3, <1>4, <1>5, <1>6, <1>7, <1>8

\* runInstance removes the stopped instance and gives up its token.
LEMMA RunInstanceStoppedIInv ==
  ASSUME IInv, NEW g \in Gors, RunInstanceStopped(g)
  PROVE  IInv'
  <1> USE NoneAssumption DEF IInv
  <1>1. queue' = queue /\ blocked' = blocked /\ \A x : InQueue(x)' <=> InQueue(x)
    BY QueueUnchanged DEF RunInstanceStopped, RunInstanceReturn, mgrVars, runVars, gorVars, regVars, ctxVars
  <1>2. TypeOK'
    BY <1>1, QueueSizeAssumption
    DEF TypeOK, TokenHasInstance, RunStates, SyncStates, GorStates,
        RunInstanceStopped, RunInstanceReturn, mgrVars, runVars, gorVars, regVars, ctxVars
  <1>3. OneToken'
    BY <1>1
    DEF TypeOK, OneToken, TokenHasInstance,
        RunInstanceStopped, RunInstanceReturn, mgrVars, runVars, gorVars, regVars, ctxVars
  <1>4. TokenHasInstance'
    BY <1>1
    DEF TypeOK, OneToken, TokenHasInstance, MapInjective,
        RunInstanceStopped, RunInstanceReturn, mgrVars, runVars, gorVars, regVars, ctxVars
  <1>5. MapInjective'
    BY <1>1 DEF TypeOK, TokenHasInstance, MapInjective,
        RunInstanceStopped, RunInstanceReturn, mgrVars, runVars, gorVars, regVars, ctxVars
  <1>6. StartedInMap'
    BY <1>1 DEF TypeOK, TokenHasInstance, MapInjective, StartedInMap,
        RunInstanceStopped, RunInstanceReturn, mgrVars, runVars, gorVars, regVars, ctxVars
  <1>7. ValidatorMatchesInstance'
    BY <1>1 DEF TypeOK, TokenHasInstance, MapInjective, ValidatorMatchesInstance,
        RunInstanceStopped, RunInstanceReturn, mgrVars, runVars, gorVars, regVars, ctxVars
  <1>8. DiagnosticsServeRunning'
    BY <1>1 DEF TypeOK, OneToken, TokenHasInstance, DiagnosticsServeRunning,
        RunInstanceStopped, RunInstanceReturn, mgrVars, runVars, gorVars, regVars, ctxVars
  <1>9. QED BY <1>2, <1>3, <1>4, <1>5, <1>6, <1>7, <1>8

\* runInstance gives up its token at shutdown.
LEMMA RunInstanceCtxDoneIInv ==
  ASSUME IInv, NEW g \in Gors, RunInstanceCtxDone(g)
  PROVE  IInv'
  <1> USE NoneAssumption DEF IInv
  <1>1. queue' = queue /\ blocked' = blocked /\ \A x : InQueue(x)' <=> InQueue(x)
    BY QueueUnchanged DEF RunInstanceCtxDone, RunInstanceReturn, mgrVars, runVars, gorVars, regVars, ctxVars
  <1>2. TypeOK'
    BY <1>1, QueueSizeAssumption
    DEF TypeOK, TokenHasInstance, RunStates, SyncStates, GorStates,
        RunInstanceCtxDone, RunInstanceReturn, mgrVars, runVars, gorVars, regVars, ctxVars
  <1>3. OneToken'
    BY <1>1
    DEF TypeOK, OneToken, TokenHasInstance,
        RunInstanceCtxDone, RunInstanceReturn, mgrVars, runVars, gorVars, regVars, ctxVars
  <1>4. TokenHasInstance'
    BY <1>1
    DEF TypeOK, OneToken, TokenHasInstance, MapInjective,
        RunInstanceCtxDone, RunInstanceReturn, mgrVars, runVars, gorVars, regVars, ctxVars
  <1>5. MapInjective'
    BY <1>1 DEF TypeOK, TokenHasInstance, MapInjective,
        RunInstanceCtxDone, RunInstanceReturn, mgrVars, runVars, gorVars, regVars, ctxVars
  <1>6. StartedInMap'
    BY <1>1 DEF TypeOK, TokenHasInstance, MapInjective, StartedInMap,
        RunInstanceCtxDone, RunInstanceReturn, mgrVars, runVars, gorVars, regVars, ctxVars
  <1>7. ValidatorMatchesInstance'
    BY <1>1 DEF TypeOK, TokenHasInstance, MapInjective, ValidatorMatchesInstance,
        RunInstanceCtxDone, RunInstanceReturn, mgrVars, runVars, gorVars, regVars, ctxVars
  <1>8. DiagnosticsServeRunning'
    BY <1>1 DEF TypeOK, OneToken, TokenHasInstance, DiagnosticsServeRunning,
        RunInstanceCtxDone, RunInstanceReturn, mgrVars, runVars, gorVars, regVars, ctxVars
  <1>9. QED BY <1>2, <1>3, <1>4, <1>5, <1>6, <1>7, <1>8

\* Start turns a queue entry into a goroutine with the same token.
LEMMA StartReceiveIInv ==
  ASSUME IInv, NEW g \in Gors, StartReceive(g)
  PROVE  IInv'
  <1> USE NoneAssumption DEF IInv
  <1>1. /\ queue' \in Seq(IDs) /\ Len(queue') <= QueueSize
        /\ Head(queue) \in IDs /\ InQueue(Head(queue))
        /\ \A i, j \in 1..Len(queue') : queue'[i] = queue'[j] => i = j
        /\ \A x : InQueue(x)' => InQueue(x) /\ x # Head(queue)
    BY ReceiveFacts DEF StartReceive
  <1>2. TypeOK'
    BY <1>1, QueueSizeAssumption
    DEF TypeOK, TokenHasInstance, RunStates, SyncStates, GorStates,
        StartReceive, mgrVars, runVars, gorVars, regVars, ctxVars
  <1>3. OneToken'
    BY <1>1
    DEF TypeOK, OneToken, TokenHasInstance,
        StartReceive, mgrVars, runVars, gorVars, regVars, ctxVars
  <1>4. TokenHasInstance'
    BY <1>1
    DEF TypeOK, OneToken, TokenHasInstance, MapInjective,
        StartReceive, mgrVars, runVars, gorVars, regVars, ctxVars
  <1>5. MapInjective'
    BY <1>1 DEF TypeOK, TokenHasInstance, MapInjective,
        StartReceive, mgrVars, runVars, gorVars, regVars, ctxVars
  <1>6. StartedInMap'
    BY <1>1 DEF TypeOK, TokenHasInstance, MapInjective, StartedInMap,
        StartReceive, mgrVars, runVars, gorVars, regVars, ctxVars
  <1>7. ValidatorMatchesInstance'
    BY <1>1 DEF TypeOK, TokenHasInstance, MapInjective, ValidatorMatchesInstance,
        StartReceive, mgrVars, runVars, gorVars, regVars, ctxVars
  <1>8. DiagnosticsServeRunning'
    BY <1>1 DEF TypeOK, OneToken, TokenHasInstance, DiagnosticsServeRunning,
        StartReceive, mgrVars, runVars, gorVars, regVars, ctxVars
  <1>9. QED BY <1>2, <1>3, <1>4, <1>5, <1>6, <1>7, <1>8

\* ScheduleInstance makes one token for an ID that had none.
LEMMA ScheduleInstanceIInv ==
  ASSUME IInv, NEW id \in IDs, NEW h \in Handles, NEW c \in Configs, ScheduleInstance(id, h, c)
  PROVE  IInv'
  <1> USE NoneAssumption DEF IInv
  <1>0. /\ ~InQueue(id) /\ blocked = None
        /\ \A g \in Gors : gpc[g] # "free" => gid[g] # id
    BY NoInstanceNoToken DEF ScheduleInstance, LockFree
  <1>1. /\ queue' \in Seq(IDs) /\ Len(queue') <= QueueSize
        /\ \A i, j \in 1..Len(queue') : queue'[i] = queue'[j] => i = j
        /\ \A x : InQueue(x)' => InQueue(x) \/ x = id
        /\ blocked' \in {None, id}
        /\ blocked' = id => ~InQueue(id)'
    <2>1. CASE Len(queue) < QueueSize
      <3>1. queue' = Append(queue, id) /\ blocked' = None
        BY <2>1 DEF ScheduleInstance, SendToQueue
      <3>2. QED BY <1>0, <2>1, <3>1, SendFacts
    <2>2. CASE ~(Len(queue) < QueueSize)
      <3>1. queue' = queue /\ blocked' = id
        BY <2>2 DEF ScheduleInstance, SendToQueue
      <3>2. \A x : InQueue(x)' <=> InQueue(x)
        BY <3>1, QueueUnchanged
      <3>3. QED BY <1>0, <3>1, <3>2 DEF TypeOK, OneToken
    <2>3. QED BY <2>1, <2>2
  <1>2. TypeOK'
    BY <1>0, <1>1, QueueSizeAssumption
    DEF TypeOK, TokenHasInstance, RunStates, SyncStates, GorStates,
        ScheduleInstance, Fresh, NewInstance, LockFree, mgrVars, gorVars, ctxVars
  <1>3. OneToken'
    BY <1>0, <1>1
    DEF TypeOK, OneToken, TokenHasInstance,
        ScheduleInstance, Fresh, NewInstance, LockFree, mgrVars, gorVars, ctxVars
  <1>4. TokenHasInstance'
    BY <1>0, <1>1
    DEF TypeOK, OneToken, TokenHasInstance, MapInjective,
        ScheduleInstance, Fresh, NewInstance, LockFree, mgrVars, gorVars, ctxVars
  <1>5. MapInjective'
    BY <1>0, <1>1 DEF TypeOK, TokenHasInstance, MapInjective,
        ScheduleInstance, Fresh, NewInstance, LockFree, mgrVars, gorVars, ctxVars
  <1>6. StartedInMap'
    BY <1>0, <1>1 DEF TypeOK, TokenHasInstance, MapInjective, StartedInMap,
        ScheduleInstance, Fresh, NewInstance, LockFree, mgrVars, gorVars, ctxVars
  <1>7. ValidatorMatchesInstance'
    BY <1>0, <1>1 DEF TypeOK, TokenHasInstance, MapInjective, ValidatorMatchesInstance,
        ScheduleInstance, Fresh, NewInstance, LockFree, mgrVars, gorVars, ctxVars
  <1>8. DiagnosticsServeRunning'
    BY <1>0, <1>1 DEF TypeOK, OneToken, TokenHasInstance, DiagnosticsServeRunning,
        ScheduleInstance, Fresh, NewInstance, LockFree, mgrVars, gorVars, ctxVars
  <1>9. QED BY <1>2, <1>3, <1>4, <1>5, <1>6, <1>7, <1>8

\* Every step of the manager, of its instances and of its callers.
LEMMA NextIInv == IInv /\ [Next]_vars => IInv'
  <1> SUFFICES ASSUME IInv, [Next]_vars PROVE IInv'
    OBVIOUS
  <1>1. ASSUME ManagerStep PROVE IInv'
    <2>1. ASSUME StartReturn PROVE IInv'
      BY <2>1, SideStepIInv DEF StartReturn, IInv, TypeOK, runVars
    <2>2. ASSUME NEW h \in Handles, SynchronizerStop(h) PROVE IInv'
      BY <2>2, SideStepIInv DEF SynchronizerStop, IInv, TypeOK, SyncStates, ctxVars
    <2>3. ASSUME NEW h \in Handles, InstanceStart(h) PROVE IInv'
      BY <2>3, ProgressIInv DEF InstanceStart, RunStates
    <2>4. ASSUME NEW h \in Handles, InstanceCancel(h) PROVE IInv'
      BY <2>4, ProgressIInv DEF InstanceCancel, RunStates
    <2>5. ASSUME NEW h \in Handles, InstanceExit(h) PROVE IInv'
      BY <2>5, ProgressIInv DEF InstanceExit, RunStates
    <2>6. QED
      BY <1>1, <2>1, <2>2, <2>3, <2>4, <2>5, ScheduleUnblockIInv, StartReceiveIInv,
         RunInstanceLookupIInv, RunInstanceSpawnIInv, RunInstanceRegisterIInv,
         RunInstanceStoppedIInv, RunInstanceCtxDoneIInv DEF ManagerStep
  <1>2. ASSUME InstanceStep PROVE IInv'
    <2>1. ASSUME NEW h \in Handles, InstanceFail(h) PROVE IInv'
      BY <2>1, ProgressIInv DEF InstanceFail, RunStates
    <2>2. ASSUME NEW h \in Handles, InstanceElected(h) PROVE IInv'
      BY <2>2, SideStepIInv DEF InstanceElected, IInv, TypeOK, SyncStates, ctxVars
    <2>3. ASSUME NEW h \in Handles, InstanceApplied(h) PROVE IInv'
      BY <2>3, SideStepIInv DEF InstanceApplied, IInv, TypeOK, SyncStates, ctxVars
    <2>4. QED BY <1>2, <2>1, <2>2, <2>3 DEF InstanceStep
  <1>3. ASSUME CtxCancel PROVE IInv'
    BY <1>3, SideStepIInv DEF CtxCancel, IInv, TypeOK, runVars
  <1>4. ASSUME UNCHANGED vars PROVE IInv'
    BY <1>4, SideStepIInv DEF vars, IInv, TypeOK, runVars, ctxVars
  <1>5. QED
    BY <1>1, <1>2, <1>3, <1>4, ScheduleInstanceIInv, StopInstanceIInv DEF Next

\* What NeverForgotten says, in terms of tokens.
LEMMA ForgottenTokens ==
  NeverForgotten <=>
    \A id \in IDs :
      instances[id] # None /\ ~ctxDone
        => \/ blocked = id \/ InQueue(id)
           \/ \E g \in Gors : gpc[g] # "free" /\ gid[g] = id
  BY DEF NeverForgotten, Queued, Carries, Active, InQueue

\* A step that keeps the map, the queue, the blocked send and the tokens of the
\* goroutines forgets nothing.
LEMMA TokensKept ==
  ASSUME NeverForgotten, instances' = instances, queue' = queue, blocked' = blocked,
         gid' = gid, ctxDone => ctxDone', \A g \in Gors : gpc[g] # "free" => gpc'[g] # "free"
  PROVE  NeverForgotten'
  BY QueueUnchanged, ForgottenTokens DEF NeverForgotten, Queued, Carries, Active

\* A token is only given up with the instance it is for, or at shutdown: it
\* passes from the sender to the queue and from the queue to a goroutine.
LEMMA NextNeverForgotten == IInv /\ NeverForgotten /\ [Next]_vars => NeverForgotten'
  <1> SUFFICES ASSUME IInv, NeverForgotten, [Next]_vars PROVE NeverForgotten'
    OBVIOUS
  <1> USE NoneAssumption
  <1> DEFINE HasToken(id) == \/ blocked = id \/ InQueue(id)
                             \/ \E g \in Gors : gpc[g] # "free" /\ gid[g] = id
  <1>0. /\ TypeOK
        /\ \A id \in IDs : instances[id] # None /\ ~ctxDone => HasToken(id)
        /\ (\A id \in IDs : instances'[id] # None /\ ~ctxDone' => HasToken(id)')
             => NeverForgotten'
    BY ForgottenTokens DEF IInv, NeverForgotten, Queued, Carries, Active, InQueue
  <1>1. ASSUME ManagerStep PROVE NeverForgotten'
    <2>1. ASSUME ScheduleUnblock PROVE NeverForgotten'
      <3>1. /\ blocked \in IDs /\ queue' = Append(queue, blocked) /\ blocked' = None
            /\ instances' = instances /\ gpc' = gpc /\ gid' = gid /\ ctxDone' = ctxDone
        BY <1>0, <2>1 DEF ScheduleUnblock, TypeOK, gorVars, ctxVars
      <3>2. PICK e \in IDs : e = blocked
        BY <3>1
      <3>3. InQueue(e)' /\ \A x : InQueue(x) => InQueue(x)'
        BY <1>0, <3>1, <3>2, SendKeeps
      <3>4. ASSUME NEW id \in IDs, HasToken(id) PROVE HasToken(id)'
        BY <3>1, <3>2, <3>3, <3>4
      <3>5. QED BY <1>0, <3>1, <3>4
    <2>2. ASSUME NEW g \in Gors, StartReceive(g) PROVE NeverForgotten'
      <3>1. /\ queue # << >> /\ queue' = Tail(queue) /\ gpc[g] = "free"
            /\ gpc' = [gpc EXCEPT ![g] = "lookup"]
            /\ gid' = [gid EXCEPT ![g] = Head(queue)]
            /\ instances' = instances /\ blocked' = blocked /\ ctxDone' = ctxDone
        BY <2>2 DEF StartReceive, ctxVars
      <3>2. \A x : InQueue(x) => InQueue(x)' \/ x = Head(queue)
        BY <1>0, <3>1, ReceiveKeeps
      <3>3. ASSUME NEW id \in IDs, HasToken(id) PROVE HasToken(id)'
        <4>1. CASE id = Head(queue)
          BY <1>0, <3>1, <4>1 DEF TypeOK
        <4>2. CASE blocked = id \/ (InQueue(id) /\ id # Head(queue))
          BY <3>1, <3>2, <4>2
        <4>3. CASE \E k \in Gors : gpc[k] # "free" /\ gid[k] = id
          BY <1>0, <3>1, <4>3 DEF TypeOK
        <4>4. QED BY <3>3, <4>1, <4>2, <4>3
      <3>4. QED BY <1>0, <3>1, <3>3
    <2>3. ASSUME NEW g \in Gors, RunInstanceStopped(g) PROVE NeverForgotten'
      <3>1. /\ gpc[g] = "wait" /\ gid[g] \in IDs
            /\ instances' = [instances EXCEPT ![gid[g]] = None]
            /\ gpc' = [gpc EXCEPT ![g] = "free"] /\ gid' = [gid EXCEPT ![g] = None]
            /\ queue' = queue /\ blocked' = blocked /\ ctxDone' = ctxDone
        BY <2>3 DEF RunInstanceStopped, RunInstanceReturn, ctxVars, IInv, TokenHasInstance
      <3>2. \A x : InQueue(x)' <=> InQueue(x)
        BY <3>1, QueueUnchanged
      <3>3. ASSUME NEW id \in IDs, instances'[id] # None
            PROVE  instances[id] # None /\ id # gid[g]
        BY <1>0, <3>1, <3>3 DEF TypeOK
      <3>4. ASSUME NEW id \in IDs, id # gid[g], HasToken(id) PROVE HasToken(id)'
        BY <1>0, <3>1, <3>2, <3>4 DEF TypeOK
      <3>5. QED BY <1>0, <3>1, <3>3, <3>4
    <2>4. ASSUME NEW g \in Gors, RunInstanceLookup(g) PROVE NeverForgotten'
      <3>1. gpc' = [gpc EXCEPT ![g] = "spawn"]
        BY <2>4 DEF RunInstanceLookup, IInv, TokenHasInstance
      <3>2. QED
        BY <1>0, <2>4, <3>1, TokensKept DEF RunInstanceLookup, mgrVars, ctxVars, TypeOK
    <2>5. ASSUME NEW g \in Gors, RunInstanceSpawn(g) PROVE NeverForgotten'
      BY <1>0, <2>5, TokensKept DEF RunInstanceSpawn, mgrVars, ctxVars, TypeOK
    <2>6. ASSUME NEW g \in Gors, RunInstanceRegister(g) PROVE NeverForgotten'
      BY <1>0, <2>6, TokensKept DEF RunInstanceRegister, mgrVars, ctxVars, TypeOK
    <2>7. ASSUME NEW g \in Gors, RunInstanceCtxDone(g) PROVE NeverForgotten'
      BY <1>0, <2>7 DEF RunInstanceCtxDone, ctxVars
    <2>8. ASSUME \/ StartReturn
                 \/ \E h \in Handles : \/ InstanceStart(h) \/ InstanceCancel(h)
                                       \/ InstanceExit(h) \/ SynchronizerStop(h)
          PROVE  NeverForgotten'
      BY <2>8, TokensKept
      DEF StartReturn, InstanceStart, InstanceCancel, InstanceExit, SynchronizerStop,
          mgrVars, gorVars, ctxVars
    <2>9. QED
      BY <1>1, <2>1, <2>2, <2>3, <2>4, <2>5, <2>6, <2>7, <2>8 DEF ManagerStep
  <1>2. ASSUME InstanceStep \/ CtxCancel \/ UNCHANGED vars PROVE NeverForgotten'
    BY <1>2, TokensKept
    DEF InstanceStep, InstanceFail, InstanceElected, InstanceApplied, CtxCancel, vars,
        mgrVars, gorVars, ctxVars
  <1>3. ASSUME NEW id \in IDs, NEW h \in Handles, NEW c \in Configs,
               ScheduleInstance(id, h, c)
        PROVE  NeverForgotten'
    <2>1. /\ blocked = None /\ instances' = [instances EXCEPT ![id] = h]
          /\ gpc' = gpc /\ gid' = gid /\ ctxDone' = ctxDone
      BY <1>3 DEF ScheduleInstance, LockFree, gorVars, ctxVars
    <2>2. /\ InQueue(id)' \/ blocked' = id
          /\ \A x : InQueue(x) => InQueue(x)'
      <3>1. CASE queue' = Append(queue, id)
        BY <1>0, <3>1, SendKeeps
      <3>2. CASE blocked' = id /\ queue' = queue
        BY <3>2, QueueUnchanged
      <3>3. QED BY <1>3, <3>1, <3>2 DEF ScheduleInstance, SendToQueue
    <2>3. ASSUME NEW k \in IDs, k # id, instances'[k] # None PROVE instances[k] # None
      BY <1>0, <2>1, <2>3 DEF TypeOK
    <2>4. ASSUME NEW k \in IDs, HasToken(k) PROVE HasToken(k)'
      BY <2>1, <2>2, <2>4
    <2>5. HasToken(id)'
      BY <2>2
    <2>6. QED BY <1>0, <2>1, <2>3, <2>4, <2>5
  <1>4. ASSUME NEW id \in IDs, StopInstance(id) PROVE NeverForgotten'
    BY <1>4, TokensKept DEF StopInstance, gorVars, ctxVars
  <1>5. QED BY <1>1, <1>2, <1>3, <1>4 DEF Next

\* The inductive invariant holds in every reachable state.
THEOREM Invariance == Spec => []IInv
  BY InitIInv, NextIInv, PTL DEF Spec

-----------------------------------------------------------------------------
(* The properties.                                                         *)

\* The variables of the manager keep their types: in particular the queue
\* never exceeds its capacity.
THEOREM TypeCorrect == Spec => []TypeOK
  BY Invariance, PTL DEF IInv

\* One token per ID means one start per instance.
LEMMA IInvImpliesRunOnce == IInv => RunOnce
  <1> SUFFICES ASSUME IInv PROVE RunOnce
    OBVIOUS
  <1> USE NoneAssumption DEF IInv
  <1>1. \A g \in Gors : gobj[g] # None =>
          /\ gpc[g] # "free" /\ gid[g] \in IDs
          /\ gobj[g] = instances[gid[g]] /\ hid[gobj[g]] = gid[g]
    BY DEF TypeOK, GorStates, TokenHasInstance, MapInjective
  <1>2. \A g1, g2 \in Gors : gobj[g1] = gobj[g2] /\ gobj[g1] # None => g1 = g2
    BY <1>1 DEF OneToken
  <1>3. QED BY <1>2 DEF RunOnce, TokenHasInstance

\* Manager.Run is called exactly once per scheduled instance: goroutines never
\* share an instance, always find one, and start only what was not started.
THEOREM RunsOnce == Spec => []RunOnce
  BY IInvImpliesRunOnce, Invariance, PTL

\* Of the started instances of an ID at most one has not been told to stop,
\* the one in the map.
THEOREM OneUnstopped == Spec => []OneUnstoppedPerID
  <1>1. IInv => OneUnstoppedPerID
    BY DEF IInv, StartedInMap, OneUnstoppedPerID
  <1>2. QED BY <1>1, Invariance, PTL

\* The admission webhook has the validator of an ID exactly while its instance
\* is in the map and not told to stop.
THEOREM RegistriesAgree == Spec => []ValidatorMatchesInstance
  BY Invariance, PTL DEF IInv

\* The diagnostics server serves the handler of every instance that is waited
\* for and not told to stop, although RegisterInstance is called without the lock.
THEOREM DiagnosticsAgree == Spec => []DiagnosticsServeRunning
  BY Invariance, PTL DEF IInv

\* Until shutdown no scheduled instance is lost between ScheduleInstance, the
\* queue and runInstance.
THEOREM NothingForgotten == Spec => []NeverForgotten
  <1>1. Init => NeverForgotten
    BY DEF Init, NeverForgotten
  <1>2. QED BY <1>1, Invariance, NextNeverForgotten, PTL DEF Spec
=============================================================================
