------------------------- MODULE TelemetryIngestMC --------------------------
(* Small instances of TelemetryIngest.                                     *)
EXTENDS TelemetryIngest

CONSTANTS l1, l2, p1, p2
=============================================================================
