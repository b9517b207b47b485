----------------------------- MODULE MCHubVault -----------------------------
(* Instance of HubVault for TLC: three requests, one short passphrase. *)
EXTENDS HubVault

CONSTANTS r1, r2, r3, seedA, seedB, long1, long2, short

MCRequests == {r1, r2, r3}
MCSecrets == {seedA, seedB}
MCPassphrases == {long1, long2, short}
MCTooShort == {short}
=============================================================================
