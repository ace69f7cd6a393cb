------------------------ MODULE MCEventRegistration ------------------------
(***************************************************************************)
(* Instances of EventRegistration for TLC.                                 *)
(***************************************************************************)
EXTENDS EventRegistration, TLC

CONSTANTS org, u1, u2, w1, w2

\* org organizes the events and may attend them; the others only attend.
MCRole == [u \in Users |-> IF u = org THEN "ORGANIZER" ELSE "USER"]

\* Requests differ only in the worker and the attendee they concern.
Symmetry == Permutations({u1, u2}) \cup Permutations({w1, w2})

=============================================================================
