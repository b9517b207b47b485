-------------------------- MODULE MCEntryLifecycle --------------------------
(* Instance of EntryLifecycle for TLC: up to two wizards at once. *)
EXTENDS EntryLifecycle

CONSTANTS f1, f2

MCOneFlow == {f1}
MCTwoFlows == {f1, f2}

\* What the user types into the second wizard is no mnemonic.
MCSecondSeed == {f2}
MCNoSeed == {}
=============================================================================
