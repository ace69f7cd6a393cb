--------------------------- MODULE MCAuthSessions ---------------------------
(***************************************************************************)
(* The instance of AuthSessions for TLC: one replica with two workers.     *)
(***************************************************************************)
EXTENDS AuthSessions

CONSTANT r1

MCHost == [w \in Workers |-> r1]

=============================================================================
