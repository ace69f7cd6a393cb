--------------------------- MODULE MCFeedPipeline ---------------------------
(***************************************************************************)
(* The instance of FeedPipeline for TLC.                                   *)
(***************************************************************************)
EXTENDS FeedPipeline

CONSTANT org

MCRole == [u \in Users |-> IF u = org THEN "ORGANIZER" ELSE "USER"]

=============================================================================
