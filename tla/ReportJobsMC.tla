--------------------------- MODULE ReportJobsMC ---------------------------
(***************************************************************************)
(* Small instances of ReportJobs: two jobs, so that one waits while the    *)
(* other is handled, and one or two workers.                               *)
(***************************************************************************)
EXTENDS ReportJobs
=============================================================================
