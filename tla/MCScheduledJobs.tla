--------------------------- MODULE MCScheduledJobs ---------------------------
(* One job of the catalog and one that was retired. *)
EXTENDS ScheduledJobs
=============================================================================
