----------------------------- MODULE MCLiveFeed -----------------------------
(* Instances of LiveFeed for TLC: one tab or two, and a match query that *)
(* returns at most two rows.                                             *)
EXTENDS LiveFeed

CONSTANTS s1, s2, h1, h2

MCOneTab == {s1}
MCTwoTabs == {s1, s2}
MCOneHome == {h1}
MCTwoHomes == {h1, h2}
=============================================================================
