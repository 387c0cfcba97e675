-------------------------- MODULE LiveDashboardMC --------------------------
(* Instances of the live page for TLC. *)
EXTENDS LiveDashboard
CONSTANTS l1, l2, MaxManagers

MCSocket == 1..MaxManagers
=============================================================================
