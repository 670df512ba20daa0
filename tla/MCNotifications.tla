---------------------------- MODULE MCNotifications ----------------------------
(***************************************************************************)
(* Small instances of Notifications for TLC.  The constants have names of  *)
(* their own, so that the proofs may speak of another module's beside them. *)
(***************************************************************************)
EXTENDS TLC

CONSTANTS Recipients, Sockets, Tokens, NoUser, Events, AlertFailures

VARIABLES socket, connected, device, event, result, ghosts, alertFailures

Notify == INSTANCE Notifications WITH
  Users <- Recipients, MaxFailures <- AlertFailures, failures <- alertFailures

NotifySpec == Notify!Spec

\* The map of connected users agrees with the sockets (handleConnection,
\* handleDisconnect).
TrackedAreOpen == Notify!TrackedAreOpen

\* Every recipient is reached on his own (sendNotification).
EveryRecipientIsReached == Notify!EveryRecipientIsReached

\* What Notifications takes for granted of this instance.
ASSUME AlertsAssumption == Notify!NotificationsAssumption

\* Users, sockets and devices are interchangeable.
DeliverySymmetry ==
  Permutations(Recipients) \cup Permutations(Sockets) \cup Permutations(Tokens)
=============================================================================
