-------------------------- MODULE MCConsumerRetry --------------------------
(***************************************************************************)
(* The instance of ConsumerRetry for TLC.                                  *)
(***************************************************************************)
EXTENDS ConsumerRetry

CONSTANTS feed, notification, m1, m2

\* The notification workers are down: their queue only fills.
MCQueueOf == [c \in Consumers |-> feed]

\* Both consumers are bound to join.canceled, only the feed to event.updated.
MCKey == [m \in Msgs |-> IF m = m1 THEN "join.canceled" ELSE "event.updated"]

MCEventBindings ==
    [q \in Queues |-> IF q = feed THEN {"join.canceled", "event.updated"}
                                  ELSE {"join.canceled"}]

=============================================================================
