------------------------------ MODULE KongClient ------------------------------
(***************************************************************************)
(* KongClient.Update (ingress-controller/internal/dataplane/kong_client.go) *)
(* and the ticker that drives it: Kubernetes objects in the cache become   *)
(* one configuration that is pushed to every DB-less gateway, with the     *)
(* recovery from configurations that the gateways reject.                  *)
(*                                                                         *)
(* Update holds c.lock, so Updates do not overlap.  Everything around it   *)
(* goes on meanwhile: the cache follows the API server, gateways crash,    *)
(* the set of gateway clients changes.  A push is one step per gateway; a  *)
(* request may fail, and a gateway may apply one whose answer is lost.     *)
(*                                                                         *)
(* A configuration says for each object what it renders to; hashes are the *)
(* things they are computed from.  The cache is read at one moment.  Left  *)
(* out: DB-backed gateways, reverse sync, translation failures (an object  *)
(* that renders to Nothing), licenses (LastValidConfig puts the latest one *)
(* into the configuration it returns, which an invalid license can make    *)
(* one that Kong rejects), status reports and diagnostics.                 *)
(***************************************************************************)
EXTENDS Naturals

CONSTANTS Gateways, InitialClients, Objs,
          Versions,    \* versions (UID and resourceVersion) of objects,
          VersionsOf,  \*   of each object,
          Uses,        \*   and the objects each refers to
          Contents,    \* Kong entities an object can render to
          Nothing,     \* one of them: no entities
          Renders,     \* what each version renders to
          Rejected,    \* contents Kong does not accept
          Fetched,     \* what can become of a content that is fetched from a gateway
          Absent, None,
          FallbackConfiguration, UseLastValidConfigForFallback,
          RejectionKinds, \* rejections "named" the broken objects, or are "blank"
          MaxFailures, \* bounds: requests that fail,
          MaxLost,     \*   that are applied although the answer is lost,
          MaxCrashes, MaxRestarts, MaxJoins, MaxLeaves,
          MaxFaults    \* and all of these together

ASSUME ClientsAssumption == InitialClients \subseteq Gateways
ASSUME RendersAssumption ==
  /\ Renders \in [Versions -> Contents]
  /\ Nothing \in Contents \ Rejected
ASSUME FetchedAssumption ==
  /\ Fetched \in [Contents -> SUBSET Contents]
  /\ Fetched[Nothing] = {Nothing}
  /\ \A e \in Contents : Fetched[e] # {}
ASSUME UsesAssumption ==
  VersionsOf \in [Objs -> SUBSET Versions] /\ Uses \in [Versions -> SUBSET Objs]
ASSUME DistinctAssumption ==
  Absent \notin Versions /\ None \notin [Objs -> Contents] \cup [Objs -> Versions \cup {Absent}]
ASSUME FlagsAssumption ==
  /\ FallbackConfiguration \in BOOLEAN /\ UseLastValidConfigForFallback \in BOOLEAN
  /\ RejectionKinds \subseteq {"named", "blank"}
ASSUME BoundsAssumption ==
  /\ MaxFailures \in Nat /\ MaxLost \in Nat /\ MaxCrashes \in Nat /\ MaxRestarts \in Nat
  /\ MaxJoins \in Nat /\ MaxLeaves \in Nat /\ MaxFaults \in Nat

VARIABLES
  k8s,        \* the objects in the API server
  spent,      \* versions used
  cache,      \* the cache stores
  running,    \* configuration of a gateway; None: just booted
  clients,    \* gateways with a ready client
  sha,        \* client's LastConfigSHA
  csh,        \* client's LastCacheStoresHash
  lastProcessed,  \* lastProcessedSnapshotHash
  builder,        \* the cache kongConfigBuilder works on
  lastValidCache, \* lastValidCacheSnapshot
  lastValid,      \* the config fetcher's last valid configuration
  pushed,         \* hasSuccessfullyPushedConfig
  applied,        \* Synchronizer.configApplied
  konnect,        \* the state handed to Konnect
  pc,         \* where Update is
  phase,      \* which configuration it pushes: "current", "fallback", "lastValid"
  snapshot,   \* cacheSnapshot; None: not available
  target,     \* the configuration being pushed
  todo,       \* gateways whose send is not finished
  errs,       \* errors of the finished sends
  failures, lost, crashes, restarts, joins, leaves

k8sVars     == <<k8s, spent>>
gatewayVars == <<running, clients, sha, csh>>
clientVars  == <<lastProcessed, builder, lastValidCache, lastValid, pushed, applied, konnect>>
updateVars  == <<pc, phase, snapshot, target, todo, errs>>
countVars   == <<failures, lost, crashes, restarts, joins, leaves>>
vars == <<k8sVars, cache, gatewayVars, clientVars, updateVars, countVars>>

\* Failures, lost answers, crashes, restarts and changes of the clients so far.
Faults == failures + lost + crashes + restarts + joins + leaves

Caches == [Objs -> Versions \cup {Absent}]
States == [Objs -> Contents]
EmptyCache == [o \in Objs |-> Absent]
EmptyState == [o \in Objs |-> Nothing]

\* kongConfigBuilder.BuildKongConfig.
Translate(c) == [o \in Objs |-> IF c[o] = Absent THEN Nothing ELSE Renders[c[o]]]

\* Kong rejects a configuration as a whole.
BrokenObjects(s) == {o \in Objs : s[o] \in Rejected}
Acceptable(s) == BrokenObjects(s) = {}

TypeOK ==
  /\ k8s \in Caches /\ cache \in Caches /\ spent \in [Objs -> SUBSET Versions]
  /\ running \in [Gateways -> States \cup {None}]
  /\ clients \in SUBSET Gateways
  /\ sha \in [Gateways -> States \cup {None}]
  /\ csh \in [Gateways -> Caches \cup {None}]
  /\ lastProcessed \in Caches \cup {None}
  /\ builder \in Caches
  /\ lastValidCache \in Caches \cup {None}
  /\ lastValid \in States \cup {None}
  /\ pushed \in BOOLEAN /\ applied \in BOOLEAN
  /\ konnect \in States \cup {None}
  /\ pc \in {"idle", "snapshot", "build", "send", "targets", "sending"}
  /\ phase \in {"current", "fallback", "lastValid"}
  /\ snapshot \in Caches \cup {None}
  /\ target \in States
  /\ todo \in SUBSET Gateways
  /\ errs \in SUBSET {"transport", "named", "blank"}
  /\ failures \in 0..MaxFailures /\ lost \in 0..MaxLost /\ crashes \in 0..MaxCrashes
  /\ restarts \in 0..MaxRestarts
  /\ joins \in 0..MaxJoins /\ leaves \in 0..MaxLeaves

Init ==
  /\ k8s = EmptyCache /\ spent = [o \in Objs |-> {}] /\ cache = EmptyCache
  /\ running = [g \in Gateways |-> None]
  /\ clients = InitialClients
  /\ sha = [g \in Gateways |-> None] /\ csh = [g \in Gateways |-> None]
  /\ lastProcessed = None /\ builder = EmptyCache
  /\ lastValidCache = None /\ lastValid = None
  /\ pushed = FALSE /\ applied = FALSE /\ konnect = None
  /\ pc = "idle" /\ phase = "current" /\ snapshot = None
  /\ target = EmptyState /\ todo = {} /\ errs = {}
  /\ failures = 0 /\ lost = 0 /\ crashes = 0 /\ restarts = 0 /\ joins = 0 /\ leaves = 0

-----------------------------------------------------------------------------
(* Kubernetes, the gateways and their clients.                             *)

K8sApply(o, v) ==
  /\ v \in VersionsOf[o] \ spent[o]
  /\ k8s[o] # Absent \/ spent[o] = {}
  /\ k8s' = [k8s EXCEPT ![o] = v]
  /\ spent' = [spent EXCEPT ![o] = @ \cup {v}]
  /\ UNCHANGED <<cache, gatewayVars, clientVars, updateVars, countVars>>

K8sDelete(o) ==
  /\ k8s[o] # Absent
  /\ k8s' = [k8s EXCEPT ![o] = Absent]
  /\ UNCHANGED <<spent, cache, gatewayVars, clientVars, updateVars, countVars>>

\* A controller reconciles the object into the cache stores.
CacheSync(o) ==
  /\ cache[o] # k8s[o]
  /\ cache' = [cache EXCEPT ![o] = k8s[o]]
  /\ UNCHANGED <<k8sVars, gatewayVars, clientVars, updateVars, countVars>>

\* The gateway restarts without its configuration.
GatewayCrash(g) ==
  /\ running[g] # None
  /\ crashes < MaxCrashes /\ Faults < MaxFaults
  /\ crashes' = crashes + 1
  /\ running' = [running EXCEPT ![g] = None]
  /\ UNCHANGED <<k8sVars, cache, clients, sha, csh, clientVars, updateVars, failures, lost, restarts, joins, leaves>>

\* A gateway becomes ready: a new client, which has pushed nothing (no push
\* through an earlier client of the gateway is under way any more).
ClientJoins(g) ==
  /\ g \notin clients \cup todo
  /\ joins < MaxJoins /\ Faults < MaxFaults
  /\ joins' = joins + 1
  /\ clients' = clients \cup {g}
  /\ sha' = [sha EXCEPT ![g] = None] /\ csh' = [csh EXCEPT ![g] = None]
  /\ UNCHANGED <<k8sVars, cache, running, clientVars, updateVars, failures, lost, crashes, restarts, leaves>>

ClientLeaves(g) ==
  /\ g \in clients
  /\ leaves < MaxLeaves /\ Faults < MaxFaults
  /\ leaves' = leaves + 1
  /\ clients' = clients \ {g}
  /\ UNCHANGED <<k8sVars, cache, running, sha, csh, clientVars, updateVars, failures, lost, crashes, restarts, joins>>

\* The process restarts; the gateways keep what they run.
ControllerRestart ==
  /\ restarts < MaxRestarts /\ Faults < MaxFaults
  /\ restarts' = restarts + 1
  /\ cache' = EmptyCache
  /\ sha' = [g \in Gateways |-> None] /\ csh' = [g \in Gateways |-> None]
  /\ lastProcessed' = None /\ builder' = EmptyCache
  /\ lastValidCache' = None /\ lastValid' = None
  /\ pushed' = FALSE /\ applied' = FALSE /\ konnect' = None
  /\ pc' = "idle" /\ phase' = "current" /\ snapshot' = None
  /\ target' = EmptyState /\ todo' = {} /\ errs' = {}
  /\ UNCHANGED <<k8sVars, running, clients, failures, lost, crashes, joins, leaves>>

Fail ==
  /\ failures < MaxFailures /\ Faults < MaxFaults
  /\ failures' = failures + 1
  /\ UNCHANGED <<lost, crashes, restarts, joins, leaves>>

-----------------------------------------------------------------------------
(* Update.                                                                 *)

\* Update returns; the ticker's goroutine marks the configuration as applied
\* after the first Update without an error.
Return(ok) ==
  /\ applied' = (applied \/ ok)
  /\ pc' = "idle" /\ phase' = "current" /\ snapshot' = None
  /\ target' = EmptyState /\ todo' = {} /\ errs' = {}

\* TryFetchingValidConfigFromGateways keeps less than the gateway runs, and in
\* another form: KongRawStateToKongState strips IDs that references still name and
\* drops what belongs to no service, FillIDs gives new IDs.  Kong may reject it.
Convert(s) == {t \in States : \A o \in Objs : t[o] \in Fetched[s[o]]}

\* A tick.  Without a last valid configuration, take that of the first gateway
\* that has one ...
UpdateFetch(g) ==
  /\ pc = "idle"
  /\ lastValid = None
  /\ g \in clients
  /\ running[g] # None
  /\ lastValid' \in Convert(running[g])
  /\ pc' = "snapshot"
  /\ UNCHANGED <<k8sVars, cache, gatewayVars, lastProcessed, builder, lastValidCache, pushed,
                 applied, konnect, phase, snapshot, target, todo, errs, countVars>>

\* ... or go on without: there is one, no gateway has any, or the calls fail.
UpdateNoFetch ==
  /\ pc = "idle"
  /\ \/ /\ lastValid # None \/ \A g \in clients : running[g] = None
        /\ UNCHANGED countVars
     \/ lastValid = None /\ (\E g \in clients : running[g] # None) /\ Fail
  /\ pc' = "snapshot"
  /\ UNCHANGED <<k8sVars, cache, gatewayVars, clientVars, phase, snapshot, target, todo, errs>>

\* TakeSnapshotIfChanged; a hash stands for the objects' versions.
TakeSnapshotIfChanged(previous) == IF cache = previous THEN None ELSE cache

\* The snapshot, and the test whether all gateways are in sync.
UpdateSnapshot ==
  /\ pc = "snapshot"
  /\ FallbackConfiguration
  /\ lastProcessed' = cache
  /\ builder' = IF TakeSnapshotIfChanged(lastProcessed) = None THEN builder ELSE cache
  /\ IF \A g \in clients : csh[g] = lastProcessed'
     THEN Return(TRUE)
     ELSE /\ snapshot' = TakeSnapshotIfChanged(lastProcessed)
          /\ pc' = "build"
          /\ UNCHANGED <<applied, phase, target, todo, errs>>
  /\ UNCHANGED <<k8sVars, cache, gatewayVars, lastValidCache, lastValid, pushed, konnect, countVars>>

\* Without the feature the builder reads the live cache.
UpdateNoSnapshot ==
  /\ pc = "snapshot"
  /\ ~FallbackConfiguration
  /\ builder' = cache
  /\ pc' = "build"
  /\ UNCHANGED <<k8sVars, cache, gatewayVars, lastProcessed, lastValidCache, lastValid, pushed,
                 applied, konnect, phase, snapshot, target, todo, errs, countVars>>

\* Mutant: no check that there is a last valid configuration.
SkipInitialEmptyUnchecked(s) == ~pushed /\ s = EmptyState

\* shouldSkipInitialEmptyConfigPush.
SkipInitialEmpty(s) ==
  /\ ~pushed
  /\ s = EmptyState
  /\ lastValid # None /\ lastValid # EmptyState

\* Mutant: the configuration is stored as valid before a gateway has seen it.
UpdateBuildStoring ==
  /\ pc = "build"
  /\ target' = IF SkipInitialEmpty(Translate(builder)) THEN lastValid ELSE Translate(builder)
  /\ lastValid' = target'
  /\ pc' = "send"
  /\ UNCHANGED <<k8sVars, cache, gatewayVars, lastProcessed, builder, lastValidCache, pushed,
                 applied, konnect, phase, snapshot, todo, errs, countVars>>

UpdateBuild ==
  /\ pc = "build"
  /\ target' = IF SkipInitialEmpty(Translate(builder)) THEN lastValid ELSE Translate(builder)
  /\ pc' = "send"
  /\ UNCHANGED <<k8sVars, cache, gatewayVars, clientVars, phase, snapshot, todo, errs, countVars>>

-----------------------------------------------------------------------------
(* sendOutToGatewayClients.                                                *)

\* GatewayClients() is asked first, GatewayClientsToConfigure() after it.
SendStart ==
  /\ pc = "send"
  /\ clients # {}
  /\ pc' = "targets"
  /\ UNCHANGED <<k8sVars, cache, gatewayVars, clientVars, phase, snapshot, target, todo, errs, countVars>>

SendTargets ==
  /\ pc = "targets"
  /\ todo' = clients
  /\ errs' = {}
  /\ pc' = "sending"
  /\ UNCHANGED <<k8sVars, cache, gatewayVars, clientVars, phase, snapshot, target, countVars>>

\* Mutant: a gateway that lost its configuration is not noticed.
ChangedBySHA(g) == sha[g] # target

\* HasConfigurationChanged: another hash, or a gateway without configuration
\* (an empty configuration has a stub entity in it).
Changed(g) == sha[g] # target \/ running[g] = None

Finish(g) ==
  /\ todo' = todo \ {g}
  /\ UNCHANGED <<k8sVars, cache, clients, clientVars, pc, phase, snapshot, target>>

\* SetLastConfigSHA and SetLastCacheStoresHash.
Recorded(g) ==
  /\ sha' = [sha EXCEPT ![g] = target]
  /\ csh' = [csh EXCEPT ![g] = lastProcessed]

SendSkip(g) ==
  /\ pc = "sending" /\ g \in todo
  /\ ~Changed(g)
  /\ Recorded(g)
  /\ Finish(g)
  /\ UNCHANGED <<running, errs, countVars>>

\* Mutant: the hash is recorded although the gateway rejects the configuration.
SendRejectRecorded(g) ==
  /\ pc = "sending" /\ g \in todo
  /\ Changed(g)
  /\ ~Acceptable(target)
  /\ \E e \in RejectionKinds : errs' = errs \cup {e}
  /\ Recorded(g)
  /\ Finish(g)
  /\ UNCHANGED <<running, countVars>>

SendAccept(g) ==
  /\ pc = "sending" /\ g \in todo
  /\ Changed(g)
  /\ Acceptable(target)
  /\ running' = [running EXCEPT ![g] = target]
  /\ Recorded(g)
  /\ Finish(g)
  /\ UNCHANGED <<errs, countVars>>

\* An UpdateError that names the broken objects, or names none.
SendReject(g) ==
  /\ pc = "sending" /\ g \in todo
  /\ Changed(g)
  /\ ~Acceptable(target)
  /\ \E e \in RejectionKinds : errs' = errs \cup {e}
  /\ Finish(g)
  /\ UNCHANGED <<running, sha, csh, countVars>>

\* Any other error, of the status request or of the update.
SendFail(g) ==
  /\ pc = "sending" /\ g \in todo
  /\ errs' = errs \cup {"transport"}
  /\ Fail
  /\ Finish(g)
  /\ UNCHANGED <<running, sha, csh>>

\* The request times out after the gateway has applied the configuration.
SendLost(g) ==
  /\ pc = "sending" /\ g \in todo
  /\ lost < MaxLost /\ Faults < MaxFaults
  /\ lost' = lost + 1
  /\ Changed(g)
  /\ Acceptable(target)
  /\ running' = [running EXCEPT ![g] = target]
  /\ errs' = errs \cup {"transport"}
  /\ Finish(g)
  /\ UNCHANGED <<sha, csh, failures, crashes, restarts, joins, leaves>>

-----------------------------------------------------------------------------
(* What Update makes of the result.                                        *)

SendSucceeds ==
  \/ pc = "send" /\ clients = {} /\ UNCHANGED <<pushed, lastValid>>
  \/ pc = "sending" /\ todo = {} /\ errs = {} /\ pushed' = TRUE /\ lastValid' = target

SendFails == pc = "sending" /\ todo = {} /\ errs # {}

\* maybePreserveTheLastValidConfigCache.
Preserve(c) ==
  lastValidCache' = IF FallbackConfiguration /\ UseLastValidConfigForFallback THEN c ELSE lastValidCache

\* The current configuration is in place.  An unchanged cache has left no
\* snapshot to preserve, only empty stores.
UpdateApplied ==
  /\ phase = "current"
  /\ SendSucceeds
  /\ konnect' = target
  /\ Preserve(IF snapshot = None THEN EmptyCache ELSE snapshot)
  /\ Return(TRUE)
  /\ UNCHANGED <<k8sVars, cache, gatewayVars, lastProcessed, builder, countVars>>

\* Mutant: Konnect is told although the push has failed.
UpdateFailedTellingKonnect ==
  /\ phase = "current"
  /\ SendFails
  /\ errs = {"transport"}
  /\ konnect' = target
  /\ Return(FALSE)
  /\ UNCHANGED <<k8sVars, cache, gatewayVars, lastProcessed, builder, lastValidCache, lastValid,
                 pushed, countVars>>

\* No gateway has rejected it: wait for the next tick.
UpdateFailed ==
  /\ phase = "current"
  /\ SendFails
  /\ errs = {"transport"}
  /\ Return(FALSE)
  /\ UNCHANGED <<k8sVars, cache, gatewayVars, lastProcessed, builder, lastValidCache, lastValid,
                 pushed, konnect, countVars>>

\* CacheToGraph: an edge from every object of c that a version in c refers to.
Present(c) == {o \in Objs : c[o] # Absent}
CacheToGraph(c) == {e \in Present(c) \X Present(c) : e[1] \in Uses[c[e[2]]]}

\* ConfigGraph.SubgraphObjects: b, if it is in c, and what depends on it there.
ClosedUnder(E, S) == \A e \in E : e[1] \in S => e[2] \in S
Subgraph(c, b) ==
  {o \in Present(c) : b \in Present(c)
     /\ \A S \in SUBSET Present(c) : b \in S /\ ClosedUnder(CacheToGraph(c), S) => o \in S}

Affected(c, B) == UNION {Subgraph(c, b) : b \in B}

\* GenerateExcludingBrokenObjects.
Excluding(c, B) == [o \in Objs |-> IF o \in Affected(c, B) THEN Absent ELSE c[o]]

\* GenerateBackfillingBrokenObjects.  What depended on an affected object in the
\* last valid cache is put back too, also over a version that no longer does.
Backfilling(c, old, B) ==
  IF old = None THEN Excluding(c, B)
  ELSE LET back == Affected(old, Affected(c, B))
       IN  [o \in Objs |-> IF o \in back THEN old[o] ELSE Excluding(c, B)[o]]

\* Mutant: the broken objects stay in.
FallbackCacheWithBroken == snapshot

\* Mutant: the broken objects are not backfilled.
FallbackCacheExcluding == Excluding(snapshot, BrokenObjects(target))

FallbackCache ==
  IF UseLastValidConfigForFallback
  THEN Backfilling(snapshot, lastValidCache, BrokenObjects(target))
  ELSE Excluding(snapshot, BrokenObjects(target))

\* tryRecoveringWithFallbackConfiguration, up to the push.
RecoverWithFallback ==
  /\ phase = "current"
  /\ SendFails
  /\ "named" \in errs
  /\ FallbackConfiguration
  /\ snapshot # None
  /\ builder' = FallbackCache
  /\ target' = Translate(builder')
  /\ phase' = "fallback" /\ pc' = "send" /\ errs' = {}
  /\ UNCHANGED <<k8sVars, cache, gatewayVars, lastProcessed, lastValidCache, lastValid, pushed,
                 applied, konnect, snapshot, todo, countVars>>

\* Mutant: the cache with the broken objects is preserved.
FallbackAppliedPreservingCurrent ==
  /\ phase = "fallback"
  /\ SendSucceeds
  /\ konnect' = target
  /\ Preserve(snapshot)
  /\ Return(FALSE)
  /\ UNCHANGED <<k8sVars, cache, gatewayVars, lastProcessed, builder, countVars>>

\* Recovered, but Update still returns the error.
FallbackApplied ==
  /\ phase = "fallback"
  /\ SendSucceeds
  /\ konnect' = target
  /\ Preserve(builder)
  /\ Return(FALSE)
  /\ UNCHANGED <<k8sVars, cache, gatewayVars, lastProcessed, builder, countVars>>

\* No fallback configuration, or it was not accepted either.
FallbackUnavailable ==
  /\ SendFails
  /\ \/ phase = "fallback"
     \/ /\ phase = "current"
        /\ \/ "blank" \in errs
           \/ "named" \in errs /\ (~FallbackConfiguration \/ snapshot = None)

\* Mutant: the last valid configuration is not pushed again.
RecoverWithoutLastValid ==
  /\ FallbackUnavailable
  /\ lastValid # None
  /\ Return(FALSE)
  /\ UNCHANGED <<k8sVars, cache, gatewayVars, lastProcessed, builder, lastValidCache, lastValid,
                 pushed, konnect, countVars>>

RecoverWithLastValid ==
  /\ FallbackUnavailable
  /\ lastValid # None
  /\ target' = lastValid
  /\ phase' = "lastValid" /\ pc' = "send" /\ errs' = {}
  /\ UNCHANGED <<k8sVars, cache, gatewayVars, clientVars, snapshot, todo, countVars>>

RecoverNothing ==
  /\ FallbackUnavailable
  /\ lastValid = None
  /\ Return(FALSE)
  /\ UNCHANGED <<k8sVars, cache, gatewayVars, lastProcessed, builder, lastValidCache, lastValid,
                 pushed, konnect, countVars>>

LastValidPushed ==
  /\ phase = "lastValid"
  /\ \/ SendSucceeds
     \/ SendFails /\ UNCHANGED <<pushed, lastValid>>
  /\ Return(FALSE)
  /\ UNCHANGED <<k8sVars, cache, gatewayVars, lastProcessed, builder, lastValidCache, konnect, countVars>>

-----------------------------------------------------------------------------
Update ==
  \/ \E g \in Gateways : UpdateFetch(g)
  \/ UpdateNoFetch \/ UpdateSnapshot \/ UpdateNoSnapshot \/ UpdateBuild
  \/ SendStart \/ SendTargets
  \/ \E g \in Gateways : SendSkip(g) \/ SendAccept(g) \/ SendReject(g)
  \/ UpdateApplied \/ UpdateFailed
  \/ RecoverWithFallback \/ FallbackApplied
  \/ RecoverWithLastValid \/ RecoverNothing \/ LastValidPushed

Environment ==
  \/ \E o \in Objs, v \in Versions : K8sApply(o, v)
  \/ \E o \in Objs : K8sDelete(o)
  \/ \E g \in Gateways : ClientJoins(g) \/ ClientLeaves(g) \/ GatewayCrash(g)
  \/ \E g \in Gateways : SendFail(g) \/ SendLost(g)
  \/ ControllerRestart

Next == Update \/ (\E o \in Objs : CacheSync(o)) \/ Environment

\* The ticker ticks, an Update runs to its end, and the controllers bring every
\* object into the cache.
Fairness ==
  /\ WF_vars(Update)
  /\ WF_vars(\E o \in Objs : CacheSync(o))

Spec == Init /\ [][Next]_vars
FairSpec == Spec /\ Fairness

-----------------------------------------------------------------------------
(* Properties.                                                             *)

\* The hash of a client tells what its gateway runs, unless the gateway has
\* restarted: PerformUpdate skips the push on that evidence.  Lost answers are
\* the exception the code has no means against.
SHATellsTruth ==
  lost = 0 => \A g \in clients : sha[g] \in {None, running[g]} \/ running[g] = None

\* sendOutToGatewayClients: a configuration is not stored in last valid config
\* when it "is not validated on Kong gateway".  The recovery relies on it: once a
\* push has ended well, the last valid configuration is one that Kong accepts.
\* Before, it may be a fetched one, which Kong has not seen in that form.  True
\* until a client leaves: the last one may do so between the two reads of the
\* client set, and the push to nobody succeeds.
LastValidIsAcceptable == leaves = 0 /\ pushed => Acceptable(lastValid)

\* Update: "Send configuration to Konnect only when successfully applied
\* configuration to Kong Gateways run in cluster."  Without clients (or when the
\* last one leaves) Update sends it all the same.
KonnectSeesApplied ==
  [][konnect' # konnect /\ konnect' # None /\ leaves = 0 => \E g \in Gateways : sha[g] = konnect']_vars

\* "ships the resulting configuration to the data-plane": when the objects no
\* longer change, every gateway ends up with what they render to, if Kong
\* accepts it.  A push whose answer was lost is repeated until it is known to
\* have arrived, unless the objects render to what the client's old hash
\* describes again: that hash hides what the gateway runs.  And an empty
\* configuration is held back while a fetched one that Kong rejects takes its place.
Serves(g, s) == running[g] = s \/ (running[g] = None /\ s = EmptyState)
HiddenByLost(g, s) == lost > 0 /\ sha[g] = s
HeldBack(s) == SkipInitialEmpty(s) /\ ~Acceptable(lastValid)
Converges ==
  <>[](Acceptable(Translate(k8s)) /\ ~HeldBack(Translate(k8s))
         => \A g \in clients : Serves(g, Translate(k8s)) \/ HiddenByLost(g, Translate(k8s)))

\* A configuration that Kong rejects does not leave gateways without one: those
\* that start or restart meanwhile get the last valid configuration.
LastValidServed ==
  <>[](lastValid # None /\ Acceptable(lastValid) => \A g \in clients : running[g] # None)

\* maybeTryRecoveringFromGatewaysSyncError: with FallbackConfiguration broken
\* objects take only their dependants with them; every other object is served
\* as it is in Kubernetes, on every gateway.  Dependants are also those that an
\* earlier version, their own or of an object between, made depend on a broken
\* object: they are backfilled although they no longer depend on it.  The
\* exceptions: after a failed push, a restart, or a tick without gateways there is
\* no snapshot of an unchanged cache, and a crashed gateway counts as in sync.
EverUsed == {e \in Objs \X Objs : \E v \in spent[e[2]] : e[1] \in Uses[v]}
EverAffected(B) ==
  {o \in Objs : \A S \in SUBSET Objs : B \subseteq S /\ ClosedUnder(EverUsed, S) => o \in S}
UnaffectedServed ==
  <>[](failures = 0 /\ lost = 0 /\ crashes = 0 /\ restarts = 0 /\ leaves = 0 =>
       \A g \in clients, o \in Present(k8s) \ EverAffected(BrokenObjects(Translate(k8s))) :
         running[g] # None /\ running[g][o] = Translate(k8s)[o])

\* lastValidCacheSnapshot "stores the state of the cache that was last
\* successfully synced with the gateways".  The exceptions: a gateway that joins
\* later, or a push that is tried again, is configured from an unchanged cache,
\* which leaves an empty snapshot; a restart, after which the fetched configuration
\* is pushed in place of an empty one; and a push to nobody.
Undisturbed == failures = 0 /\ lost = 0 /\ restarts = 0 /\ joins = 0 /\ leaves = 0
LastValidCacheWasSynced ==
  pc = "idle" /\ Undisturbed /\ lastValidCache # None /\ lastValid # None
    => Translate(lastValidCache) = lastValid

\* generateFallbackCache backfills broken objects "from the last valid cache
\* snapshot": with it, an object that a gateway serves is dropped only when it is
\* deleted, however broken its later versions and its dependencies are.  The
\* exceptions are those of LastValidCacheWasSynced.
NeverDropsServed ==
  [][\A g \in Gateways, o \in Objs :
       (/\ Undisturbed /\ running[g] # None /\ running'[g] # None
        /\ running[g][o] # Nothing /\ running'[g][o] = Nothing)
          => k8s[o] = Absent]_vars
=============================================================================
