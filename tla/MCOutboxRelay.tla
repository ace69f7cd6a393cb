--------------------------- MODULE MCOutboxRelay ---------------------------
(***************************************************************************)
(* The instance of OutboxRelay for TLC.                                    *)
(***************************************************************************)
EXTENDS OutboxRelay

\* One step per attempt that may be followed by another, as in the code
\* (seven backoffs, eight attempts).
MCBackoffs == [a \in 1 .. MaxAttempts - 1 |-> a]

=============================================================================
