--------------------------- MODULE MCCoordinator ---------------------------
(* Instance of Coordinator for TLC. *)
EXTENDS Coordinator
=============================================================================
