----------------------- MODULE MCNotificationDelivery -----------------------
(***************************************************************************)
(* The instance of NotificationDelivery for TLC.                           *)
(***************************************************************************)
EXTENDS NotificationDelivery

CONSTANTS m1, m2

\* One message to notify about and one the worker has no use for.
MCKey == [m \in Msgs |-> IF m = m2 THEN "event.updated" ELSE "join.promoted"]

MCBackoffs == <<1, 2>>

=============================================================================
