------------------------------ MODULE MCHubBook ------------------------------
(* Instances of HubBook for TLC.  The full book has four offers, so that a     *)
(* cycle can clear two; two of them tie on the price, and two lapse early.     *)
EXTENDS HubBook

CONSTANTS o1, o2, o3, o4

MCFour == {o1, o2, o3, o4}
MCTwo == {o1, o3}

MCPrice == [o \in Offers |-> CASE o \in {o1, o2} -> 1 [] o = o3 -> 2 [] OTHER -> 3]
MCKwh == [o \in Offers |-> CASE o = o1 -> 2 [] o = o3 -> 3 [] OTHER -> 1]

\* With MaxTime = 1: o1 and o3 lapse in the run, o2 and o4 do not.
MCSomeLapse == [o \in Offers |-> IF o \in {o1, o3} THEN 1 ELSE 2]

\* Each offer is stored once, or o1 is delivered a second time.
MCOnce == [o \in Offers |-> 1]
MCTwiceFirst == [o \in Offers |-> IF o = o1 THEN 2 ELSE 1]
=============================================================================
