---------------------------- MODULE KnobMessages ----------------------------
(***************************************************************************)
(* The messages of protocol/src/messages.rs that the volume session uses,  *)
(* and the operators on an app list that both ends share.                  *)
(*                                                                         *)
(* An app is its process id (`AppInfo::id`); its name and the pixels of    *)
(* its icon carry nothing the session depends on, so a message that brings *)
(* the icon of an app is tagged with the id alone.  A volume is one of a   *)
(* few levels in place of 0..100.                                          *)
(***************************************************************************)
EXTENDS Integers, Sequences

CONSTANTS
    Apps,      \* process ids that may own an audio session
    NoApp,     \* Rust's None where an Option<u32> holds an app id
    MaxLevel   \* the level that stands for 100 %

ASSUME NoAppAssumption == NoApp \notin Apps
ASSUME MaxLevelAssumption == MaxLevel \in Nat \ {0}

Levels == 0 .. MaxLevel

AppInfo == [id : Apps, volume : Levels, muted : BOOLEAN]

\* The companion sends one AppInfo per process id: it skips a session whose
\* pid it has already seen.
UniqueIds(list) ==
    \A i, j \in DOMAIN list : list[i].id = list[j].id => i = j

AppLists == {list \in Seq(AppInfo) : UniqueIds(list)}

Listed(list, app) == \E i \in DOMAIN list : list[i].id = app

\* iter().position(..) where an entry exists; 1-based.
Place(list, app) == CHOOSE i \in DOMAIN list : list[i].id = app

\* Mutant: the index is not brought back to 0-based.
PositionOffByOne(list, app) == IF Listed(list, app) THEN Place(list, app) ELSE 0

\* The same index as the firmware stores it: 0-based, `unwrap_or(0)`.
Position(list, app) == IF Listed(list, app) THEN Place(list, app) - 1 ELSE 0

Find(list, app) == list[Place(list, app)]

Clamp(n) == IF n < 0 THEN 0 ELSE IF n > MaxLevel THEN MaxLevel ELSE n

-----------------------------------------------------------------------------
(* HostToDevice                                                            *)

Ping                 == [type |-> "Ping"]
SetAppList(list)     == [type |-> "SetAppList", list |-> list]
SetSelectedApp(app)  == [type |-> "SetSelectedApp", app |-> app]
SetAppIcon(app)      == [type |-> "SetAppIcon", app |-> app]
SetVolume(app, v)    == [type |-> "SetVolume", app |-> app, level |-> v]
SetMute(app, m)      == [type |-> "SetMute", app |-> app, muted |-> m]
SetBacklight         == [type |-> "SetBacklight"]

(* DeviceToHost                                                            *)

Ready                == [type |-> "Ready"]
Pong                 == [type |-> "Pong"]
Ack                  == [type |-> "Ack"]
Gesture              == [type |-> "Gesture"]
VolumeDelta(app, d)  == [type |-> "VolumeDelta", app |-> app, delta |-> d]
AppSelected(app)     == [type |-> "AppSelected", app |-> app]
MuteToggle(app)      == [type |-> "MuteToggle", app |-> app]
=============================================================================
