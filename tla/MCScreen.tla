------------------------------ MODULE MCScreen ------------------------------
(* Bounded instance of Screen for TLC: two apps, the five levels of the arc, *)
(* every list of the two with one level each.                               *)
EXTENDS Screen

CONSTANTS a, b

MCApps == {a, b}
Entry(app) == [id |-> app, volume |-> 1, muted |-> FALSE]
MCLists == {<<>>, <<Entry(a)>>, <<Entry(a), Entry(b)>>, <<Entry(b), Entry(a)>>}
MCEntries == [id : MCApps, volume : Levels, muted : BOOLEAN]
MCHostLevels == {3}
MCDeltas == {-2, 2}
MCBatteries == {20, 80}
=============================================================================
