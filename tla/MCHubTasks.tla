----------------------------- MODULE MCHubTasks -----------------------------
(* Instance of HubTasks for TLC. *)
EXTENDS HubTasks
=============================================================================
