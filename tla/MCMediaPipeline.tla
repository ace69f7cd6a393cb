-------------------------- MODULE MCMediaPipeline --------------------------
(***************************************************************************)
(* The instance of MediaPipeline for TLC.                                  *)
(***************************************************************************)
EXTENDS MediaPipeline

CONSTANTS org, usr, e1, e2

MCRole == [u \in Users |-> IF u = org THEN "ORGANIZER" ELSE "USER"]

\* e2 does not exist, so fetchEvent answers not found.
MCOrganizer == [e \in Events |-> IF e = e1 THEN org ELSE None]

=============================================================================
