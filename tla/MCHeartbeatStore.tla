-------------------------- MODULE MCHeartbeatStore --------------------------
(* Instance of HeartbeatStore for TLC: one registered household.         *)
EXTENDS HeartbeatStore

CONSTANTS h1, h2

MCOneHome == {h1}
MCTwoHomes == {h1, h2}
=============================================================================
