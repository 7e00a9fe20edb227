---------------------------- MODULE GatewayClients ----------------------------
(***************************************************************************)
(* What AdminAPIClientsManager (clients/manager.go) promises to those who  *)
(* use its clients: GatewayClients returns the ready ones, and whoever     *)
(* subscribed to their changes finds a notification in its channel after   *)
(* every change, when the slice is already updated.  ClientsManager        *)
(* implements this specification; NodeAgent is built on it.                *)
(***************************************************************************)
CONSTANT Addrs \* addresses of gateways

VARIABLES
  ready,      \* the clients GatewayClients returns
  unnoticed,  \* they changed and the subscribers have not been notified yet
  subscriber, \* "none", "subscribed", or "racing": it subscribed so late that
              \*   the notification under way may miss it
  signal      \* its channel, of one place, holds a notification

clientsVars == <<ready, unnoticed, subscriber, signal>>

ClientsTypeOK ==
  /\ ready \in SUBSET Addrs
  /\ unnoticed \in BOOLEAN /\ signal \in BOOLEAN
  /\ subscriber \in {"none", "racing", "subscribed"}

ClientsInit ==
  /\ ready \in SUBSET Addrs
  /\ unnoticed = FALSE /\ signal = FALSE
  /\ subscriber = "none"

\* Mutant: subscribers are told about new clients only.
ClientsChangeOfNew(set) ==
  /\ ready' = set
  /\ unnoticed' = (unnoticed \/ set \ ready # {})
  /\ UNCHANGED <<subscriber, signal>>

\* Clients appear and vanish, in as many steps as it takes; pending ones, which
\* are not seen here, may do so too.
ClientsChange(set) ==
  /\ ready' = set
  /\ unnoticed' = TRUE
  /\ UNCHANGED <<subscriber, signal>>

\* The subscriber is notified; this waits until its channel has room.
NotifySubscriber ==
  /\ unnoticed /\ unnoticed' = FALSE
  /\ \/ subscriber = "subscribed" /\ ~signal /\ signal' = TRUE
     \/ subscriber = "racing" /\ signal' \in BOOLEAN
     \/ subscriber = "none" /\ UNCHANGED signal
  /\ subscriber' = IF subscriber = "none" THEN "none" ELSE "subscribed"
  /\ UNCHANGED ready

\* SubscribeToGatewayClientsChanges: the list of subscribers is read without
\* the lock it is appended to under.
Subscribe ==
  /\ subscriber = "none"
  /\ subscriber' \in IF unnoticed THEN {"racing", "subscribed"} ELSE {"subscribed"}
  /\ UNCHANGED <<ready, unnoticed, signal>>

\* The subscriber receives from its channel.
TakeSignal ==
  /\ signal /\ signal' = FALSE
  /\ UNCHANGED <<ready, unnoticed, subscriber>>

ClientsNext ==
  \/ \E set \in SUBSET Addrs : ClientsChange(set)
  \/ NotifySubscriber
  \/ Subscribe
  \/ TakeSignal

ClientsSpec == ClientsInit /\ [][ClientsNext]_clientsVars
=============================================================================
