---------------------------- MODULE MCKnobSystem ----------------------------
(* Bounded instances of KnobSystem for TLC: two processes, three levels, and *)
(* the scenarios of each run.                                               *)
EXTENDS KnobSystem

CONSTANTS a, b

MCApps == {a, b}
Entry(app) == [id |-> app, volume |-> 1, muted |-> FALSE]
OneSession == {<<Entry(a)>>}
TwoSessions == {<<Entry(a), Entry(b)>>}
MCDeltas == {1}

Scenario(user, mixer, exit, loss, calm) ==
    [user |-> user, mixer |-> mixer, exit |-> exit, loss |-> loss, calm |-> calm]

\* Anything may interrupt anything.
SafetyScenarios == {Scenario(2, 1, 1, 0, FALSE)}

\* Losses and ends of the companion, or a patient user and a busy mixer.
LiveScenarios ==
    {Scenario(1, 0, 1, 1, FALSE), Scenario(0, 1, 2, 1, FALSE), Scenario(2, 1, 0, 0, TRUE),
     Scenario(1, 2, 0, 0, TRUE)}

\* A user who does not wait; a mixer that comes back to where it was.
HastyScenarios == {Scenario(2, 0, 0, 0, FALSE)}
ReturnScenarios == {Scenario(0, 2, 0, 0, FALSE)}

MCEntries == [id : MCApps, volume : Levels, muted : BOOLEAN]
MCLists ==
    {list \in UNION {[1 .. n -> MCEntries] : n \in 0 .. 2} : UniqueIds(list)}
=============================================================================
