----------------------------- MODULE KonnectSync -----------------------------
(***************************************************************************)
(* How the configuration of the gateways, and the status of applying it,   *)
(* reach Konnect: KongClient.Update hands states over through              *)
(* UpdateKongState, ConfigSynchronizer (konnect/config_synchronizer.go)    *)
(* uploads the latest it has on its ticks under KonnectBackoffStrategy     *)
(* (adminapi/backoff_strategy_konnect.go), and both report to the node     *)
(* agent through ChannelConfigNotifier (clients/config_status.go).         *)
(*                                                                         *)
(* Every hand-over and every notification is a goroutine of its own, so    *)
(* they arrive in any order, and a notification that the agent does not    *)
(* take within a second is dropped.  An upload is a series of requests:    *)
(* one that fails may have changed some of Konnect's entities or, when     *)
(* only the answer is lost, all of them.  Any upload may end in any kind   *)
(* of error: a client error says nothing lasting about its content.        *)
(*                                                                         *)
(* A state, its content and its hash are one value.  Time is whether the   *)
(* backoff has elapsed.  Left out: sanitising, consumers that are not      *)
(* synchronised, reverse sync and fallback configurations.                 *)
(***************************************************************************)
EXTENDS Naturals

CONSTANTS Contents,
          InitialContent, \* the first configuration of the gateways
          Torn,    \* what Konnect has when an upload was applied in part
          None,
          MaxChanges,       \* bounds: configurations the gateways get,
          MaxInFlight,      \*   goroutines under way for each value,
          MaxUpdateFailures, MaxUploadFailures

ASSUME ContentsAssumption ==
  /\ InitialContent \in Contents
  /\ Torn \notin Contents /\ None \notin Contents
ASSUME BoundsAssumption ==
  /\ MaxChanges \in Nat /\ MaxInFlight \in Nat \ {0}
  /\ MaxUpdateFailures \in Nat /\ MaxUploadFailures \in Nat

VARIABLES
  fallback,   \* FallbackConfiguration: Update returns early once all is in sync
  wanted,     \* the state of the gateways
  handed,     \* it has been handed over
  flying,     \* goroutines of UpdateKongState that wait for the lock
  targetKongState,
  client,     \* konnectAdminClient: "none", "ready", or "failed" for good
  sha,        \* its LastConfigSHA
  konnect,    \* the configuration in Konnect
  uploading,  \* content of the upload under way; None: waiting for a tick
  waiting,    \* nextAttempt is in the future
  lastFailedConfigHash,
  torn,       \* a failed upload changed Konnect since sha was set
  refused,    \* contents whose last upload ended in a client error other than
              \*   "too many requests"
  gatewayNotes, konnectNotes, \* notifications under way, by their value of "failed"
  gatewayFailed, konnectFailed, \* what the node agent knows
  changes, updateFailures, uploadFailures

handoverVars == <<fallback, wanted, handed, flying, changes, updateFailures>>
backoffVars  == <<waiting, lastFailedConfigHash>>
remoteVars   == <<konnect, torn, refused, uploadFailures>>
agentVars    == <<gatewayFailed, konnectFailed>>
vars == <<handoverVars, targetKongState, client, sha, uploading, backoffVars, remoteVars,
          gatewayNotes, konnectNotes, agentVars>>

NoNotes == [b \in BOOLEAN |-> 0]

TypeOK ==
  /\ fallback \in BOOLEAN /\ handed \in BOOLEAN
  /\ wanted \in Contents
  /\ flying \in [Contents -> 0..MaxInFlight]
  /\ targetKongState \in Contents \cup {None}
  /\ client \in {"none", "ready", "failed"}
  /\ sha \in Contents \cup {None} /\ konnect \in Contents \cup {None, Torn}
  /\ uploading \in Contents \cup {None}
  /\ waiting \in BOOLEAN /\ lastFailedConfigHash \in Contents \cup {None}
  /\ torn \in BOOLEAN /\ refused \in SUBSET Contents
  /\ gatewayNotes \in [BOOLEAN -> 0..MaxInFlight]
  /\ konnectNotes \in [BOOLEAN -> 0..MaxInFlight]
  /\ gatewayFailed \in BOOLEAN /\ konnectFailed \in BOOLEAN
  /\ changes \in 0..MaxChanges
  /\ updateFailures \in 0..MaxUpdateFailures /\ uploadFailures \in 0..MaxUploadFailures

Init ==
  /\ fallback \in BOOLEAN /\ handed = FALSE
  /\ wanted = InitialContent
  /\ flying = [c \in Contents |-> 0]
  /\ targetKongState = None /\ client = "none" /\ sha = None
  /\ konnect = None
  /\ uploading = None /\ waiting = FALSE /\ lastFailedConfigHash = None
  /\ torn = FALSE /\ refused = {}
  /\ gatewayNotes = NoNotes /\ konnectNotes = NoNotes
  /\ gatewayFailed = FALSE /\ konnectFailed = FALSE
  /\ changes = 0 /\ updateFailures = 0 /\ uploadFailures = 0

-----------------------------------------------------------------------------
(* KongClient.Update.                                                      *)

\* NotifyGatewayConfigStatus and NotifyKonnectConfigStatus start a goroutine.
Post(notes, failed) ==
  /\ notes[failed] < MaxInFlight
  /\ notes' = [notes EXCEPT ![failed] = @ + 1]

WantedChanges(c) ==
  /\ changes < MaxChanges /\ c # wanted
  /\ changes' = changes + 1
  /\ wanted' = c /\ handed' = FALSE
  /\ UNCHANGED <<fallback, flying, updateFailures, targetKongState, client, sha, uploading,
                 backoffVars, remoteVars, gatewayNotes, konnectNotes, agentVars>>

\* The gateways accept the configuration: the status is reported and the state
\* handed over.  With FallbackConfiguration this is not repeated.
UpdateSucceeds ==
  /\ ~(fallback /\ handed)
  /\ Post(gatewayNotes, FALSE)
  /\ flying[wanted] < MaxInFlight
  /\ flying' = [flying EXCEPT ![wanted] = @ + 1]
  /\ handed' = TRUE
  /\ UNCHANGED <<fallback, wanted, changes, updateFailures, targetKongState, client, sha,
                 uploading, backoffVars, remoteVars, konnectNotes, agentVars>>

\* They do not, and Konnect is not told.
UpdateFails ==
  /\ ~(fallback /\ handed)
  /\ updateFailures < MaxUpdateFailures
  /\ updateFailures' = updateFailures + 1
  /\ Post(gatewayNotes, TRUE)
  /\ UNCHANGED <<fallback, wanted, handed, flying, changes, targetKongState, client, sha,
                 uploading, backoffVars, remoteVars, konnectNotes, agentVars>>

-----------------------------------------------------------------------------
(* ConfigSynchronizer.                                                     *)

\* The goroutine of UpdateKongState gets the lock.
UpdateKongState(c) ==
  /\ flying[c] > 0
  /\ flying' = [flying EXCEPT ![c] = @ - 1]
  /\ targetKongState' = c
  /\ UNCHANGED <<fallback, wanted, handed, changes, updateFailures, client, sha, uploading,
                 backoffVars, remoteVars, gatewayNotes, konnectNotes, agentVars>>

\* Start creates the Konnect client once.
Start ==
  /\ client = "none"
  /\ client' \in {"ready", "failed"}
  /\ UNCHANGED <<handoverVars, targetKongState, sha, uploading, backoffVars, remoteVars,
                 gatewayNotes, konnectNotes, agentVars>>

\* KonnectBackoffStrategy.CanUpdate
CanUpdate(c) == ~waiting /\ lastFailedConfigHash # c

Ticking == client = "ready" /\ uploading = None /\ targetKongState # None

\* handleConfigSynchronizationTick: the hash is the one that was uploaded last,
TickUnchanged ==
  /\ Ticking /\ sha = targetKongState
  /\ Post(konnectNotes, FALSE)
  /\ UNCHANGED <<handoverVars, targetKongState, client, sha, uploading, backoffVars,
                 remoteVars, gatewayNotes, agentVars>>

\* Mutant: a skipped upload is not reported.
TickSkippedSilently ==
  /\ Ticking /\ sha # targetKongState /\ ~CanUpdate(targetKongState)
  /\ UNCHANGED vars

\* or it is not and the backoff strategy does not allow an upload,
TickSkipped ==
  /\ Ticking /\ sha # targetKongState /\ ~CanUpdate(targetKongState)
  /\ Post(konnectNotes, TRUE)
  /\ UNCHANGED <<handoverVars, targetKongState, client, sha, uploading, backoffVars,
                 remoteVars, gatewayNotes, agentVars>>

\* or an upload begins.  The lock is not held while it lasts.
TickUpload ==
  /\ Ticking /\ sha # targetKongState /\ CanUpdate(targetKongState)
  /\ uploading' = targetKongState
  /\ UNCHANGED <<handoverVars, targetKongState, client, sha, backoffVars, remoteVars,
                 gatewayNotes, konnectNotes, agentVars>>

\* The upload ends; RegisterUpdateSuccess.
UploadSucceeds ==
  /\ uploading # None
  /\ konnect' = uploading /\ sha' = uploading
  /\ torn' = FALSE /\ refused' = refused \ {uploading}
  /\ waiting' = FALSE /\ lastFailedConfigHash' = None
  /\ uploading' = None
  /\ Post(konnectNotes, FALSE)
  /\ UNCHANGED <<handoverVars, targetKongState, client, uploadFailures, gatewayNotes, agentVars>>

\* Mutant: the hash of a failed upload is kept.
UploadFailsRecorded(outcomes, lastFailed) ==
  /\ uploading # None
  /\ konnect' \in outcomes /\ torn' = (torn \/ konnect' # konnect)
  /\ waiting' = TRUE /\ lastFailedConfigHash' = lastFailed
  /\ sha' = uploading
  /\ uploading' = None
  /\ Post(konnectNotes, TRUE)
  /\ UNCHANGED <<handoverVars, targetKongState, client, gatewayNotes, agentVars>>

\* RegisterUpdateFailure; outcomes are what may have become of Konnect.
UploadFails(outcomes, lastFailed) ==
  /\ uploading # None
  /\ konnect' \in outcomes /\ torn' = (torn \/ konnect' # konnect)
  /\ waiting' = TRUE /\ lastFailedConfigHash' = lastFailed
  /\ uploading' = None
  /\ Post(konnectNotes, TRUE)
  /\ UNCHANGED <<handoverVars, targetKongState, client, sha, gatewayNotes, agentVars>>

\* A client error, of Konnect as a whole or for some entities only: the content
\* is not tried again until another one is uploaded, refused or rate limited.
UploadRefused ==
  /\ UploadFails({konnect, Torn}, uploading)
  /\ refused' = refused \cup {uploading}
  /\ UNCHANGED uploadFailures

\* Mutant: too many requests are a client error like any other.
UploadRateLimitedForGood ==
  /\ uploadFailures < MaxUploadFailures
  /\ uploadFailures' = uploadFailures + 1
  /\ UploadFails({konnect, Torn}, uploading)
  /\ refused' = refused \ {uploading}

\* Too many requests: the hash is forgotten, so that the content is tried again.
UploadRateLimited ==
  /\ uploadFailures < MaxUploadFailures
  /\ uploadFailures' = uploadFailures + 1
  /\ UploadFails({konnect, Torn}, None)
  /\ refused' = refused \ {uploading}

\* A server error, or no answer.
UploadBreaks ==
  /\ uploadFailures < MaxUploadFailures
  /\ uploadFailures' = uploadFailures + 1
  /\ UploadFails({konnect, Torn, uploading}, lastFailedConfigHash)
  /\ refused' = refused \ {uploading}

BackoffElapses ==
  /\ waiting /\ waiting' = FALSE
  /\ UNCHANGED <<handoverVars, targetKongState, client, sha, uploading, lastFailedConfigHash,
                 remoteVars, gatewayNotes, konnectNotes, agentVars>>

-----------------------------------------------------------------------------
(* The node agent's subscription.                                          *)

\* subscribeConfigStatus receives a status,
GatewayStatusArrives(b) ==
  /\ gatewayNotes[b] > 0
  /\ gatewayNotes' = [gatewayNotes EXCEPT ![b] = @ - 1]
  /\ gatewayFailed' = b
  /\ UNCHANGED <<handoverVars, targetKongState, client, sha, uploading, backoffVars,
                 remoteVars, konnectNotes, konnectFailed>>

KonnectStatusArrives(b) ==
  /\ konnectNotes[b] > 0
  /\ konnectNotes' = [konnectNotes EXCEPT ![b] = @ - 1]
  /\ konnectFailed' = b
  /\ UNCHANGED <<handoverVars, targetKongState, client, sha, uploading, backoffVars,
                 remoteVars, gatewayNotes, gatewayFailed>>

\* or is busy updating nodes until the sender times out.
StatusTimesOut(b) ==
  /\ \/ /\ gatewayNotes[b] > 0
        /\ gatewayNotes' = [gatewayNotes EXCEPT ![b] = @ - 1]
        /\ UNCHANGED konnectNotes
     \/ /\ konnectNotes[b] > 0
        /\ konnectNotes' = [konnectNotes EXCEPT ![b] = @ - 1]
        /\ UNCHANGED gatewayNotes
  /\ UNCHANGED <<handoverVars, targetKongState, client, sha, uploading, backoffVars,
                 remoteVars, agentVars>>

Tick == TickUnchanged \/ TickSkipped \/ TickUpload
UploadEnds == UploadSucceeds \/ UploadRefused \/ UploadRateLimited \/ UploadBreaks

Next ==
  \/ \E c \in Contents : WantedChanges(c)
  \/ UpdateSucceeds
  \/ UpdateFails
  \/ \E c \in Contents : UpdateKongState(c)
  \/ Start
  \/ TickUnchanged
  \/ TickSkipped
  \/ TickUpload
  \/ UploadSucceeds
  \/ UploadRefused
  \/ UploadRateLimited
  \/ UploadBreaks
  \/ BackoffElapses
  \/ \E b \in BOOLEAN : GatewayStatusArrives(b)
  \/ \E b \in BOOLEAN : KonnectStatusArrives(b)
  \/ \E b \in BOOLEAN : StatusTimesOut(b)

Spec == Init /\ [][Next]_vars

\* Both tickers fire, goroutines run, uploads end, the backoff elapses, and
\* the agent does not miss every notification of a status.
FairSpec ==
  /\ Spec
  /\ WF_vars(UpdateSucceeds)
  /\ \A c \in Contents : WF_vars(UpdateKongState(c))
  /\ WF_vars(Start) /\ WF_vars(Tick) /\ WF_vars(UploadEnds) /\ WF_vars(BackoffElapses)
  /\ SF_vars(\E b \in BOOLEAN : GatewayStatusArrives(b))
  /\ SF_vars(\E b \in BOOLEAN : KonnectStatusArrives(b))

-----------------------------------------------------------------------------
(* Correctness.                                                            *)

\* "LastConfigSHA returns a checksum of the last successful configuration push":
\* Konnect has that configuration, unless an upload that failed later has
\* changed it.
SHATellsTruth == sha # None /\ ~torn => konnect = sha

\* When the gateways' configuration has settled, Konnect gets it, whatever was
\* refused, lost or delayed before.  There are three exceptions.  A
\* configuration whose last upload ended in a client error, be it for a reason
\* that has passed since: KonnectBackoffStrategy gives it up "until a config
\* changes"; one that was uploaded before, after the upload of another one failed
\* in part: its hash is still the last, so it is not uploaded again; and, with
\* FallbackConfiguration, one whose hand-over was overtaken by that of an older one.
KonnectConverges ==
  <>[](client = "ready" =>
         /\ \/ targetKongState \in refused /\ lastFailedConfigHash = targetKongState
            \/ konnect = targetKongState
            \/ torn /\ sha = targetKongState
         /\ ~fallback => targetKongState = wanted)

\* The node agent ends up with the right status although notifications are
\* dropped and arrive in any order: Konnect has failed exactly when the last
\* successful upload is not of the latest configuration, also when the upload of
\* that one was given up (the status of the gateways needs the repetition that
\* FallbackConfiguration avoids).
StatusConverges ==
  <>[](/\ client = "ready" => konnectFailed = (sha # targetKongState)
       /\ ~fallback => ~gatewayFailed)
=============================================================================
