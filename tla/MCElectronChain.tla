--------------------------- MODULE MCElectronChain ---------------------------
(* Two households; o1 can be sold while o3 stays.  The broker may deliver o1   *)
(* twice.                                                                      *)
EXTENDS ElectronChain

CONSTANTS o1, o3, h1, h2

MCOffers == {o1, o3}
MCHomes == {h1, h2}
MCHome == [o \in Offers |-> IF o = o3 THEN h2 ELSE h1]
MCPrice == [o \in Offers |-> IF o = o3 THEN 2 ELSE 1]
MCKwh == [o \in Offers |-> IF o = o3 THEN 3 ELSE 2]
MCValid == [o \in Offers |-> 1]
MCTwiceFirst == [o \in Offers |-> IF o = o1 THEN 2 ELSE 1]
=============================================================================
