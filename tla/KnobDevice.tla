----------------------------- MODULE KnobDevice -----------------------------
(***************************************************************************)
(* The session state of the firmware (firmware/src/main.rs): the app list  *)
(* the host pushed, which app is selected, and what is shown of it.  One   *)
(* action per message handler of the main loop and one per input of the    *)
(* user.  The device is open here: any message may arrive at any time; the *)
(* composition with the companion is KnobSystem.                           *)
(***************************************************************************)
EXTENDS KnobMessages

CONSTANTS
    HostLists,   \* the app lists a host may send
    Deltas       \* encoder steps seen in one iteration of the loop

ASSUME HostListsAssumption == HostLists \subseteq AppLists
ASSUME DeltasAssumption == Deltas \subseteq Int \ {0}

VARIABLES
    apps,              \* Vec<AppInfo>
    selected_app,      \* Option<u32>
    selected_idx,      \* index into apps, from 0
    current_icon,      \* the app whose pixels are held, NoApp when empty
    current_volume,
    current_muted,
    standalone_value,  \* what the encoder turns while no app is selected
    ready_sent

shown == <<current_volume, current_muted>>
deviceVars == <<apps, selected_app, selected_idx, current_icon, current_volume,
                current_muted, standalone_value, ready_sent>>

DeviceInit ==
    /\ apps = <<>>
    /\ selected_app = NoApp
    /\ selected_idx = 0
    /\ current_icon = NoApp
    /\ current_volume = 0
    /\ current_muted = FALSE
    /\ standalone_value = MaxLevel \div 2
    /\ ready_sent = FALSE

-----------------------------------------------------------------------------
(* Messages from the host                                                  *)

\* current_volume and current_muted follow the entry of `app`, if there is one.
ShowEntry(list, app) ==
    /\ current_volume' = IF Listed(list, app) THEN Find(list, app).volume
                                              ELSE current_volume
    /\ current_muted'  = IF Listed(list, app) THEN Find(list, app).muted
                                              ELSE current_muted

\* Ping and SetBacklight leave the session alone.
HandleOther ==
    /\ ready_sent' = TRUE
    /\ UNCHANGED <<apps, selected_app, selected_idx, current_icon, shown,
                   standalone_value>>

\* Mutant: the new list is added to the old one.
HandleSetAppListExtends(list) ==
    /\ apps' = apps \o list
    /\ selected_app' = IF selected_app = NoApp /\ list # <<>> THEN list[1].id
                                                            ELSE selected_app
    /\ ready_sent' = TRUE
    /\ UNCHANGED <<selected_idx, current_icon, shown, standalone_value>>

HandleSetAppList(list) ==
    /\ apps' = list
    /\ IF selected_app = NoApp
          THEN /\ selected_app' = IF list = <<>> THEN NoApp ELSE list[1].id
               /\ selected_idx' = 0
          ELSE /\ selected_app' = selected_app
               /\ selected_idx' = Position(list, selected_app)
    /\ ShowEntry(list, selected_app')
    /\ ready_sent' = TRUE
    /\ UNCHANGED <<current_icon, standalone_value>>

HandleSetSelectedApp(app) ==
    /\ selected_app' = app
    /\ selected_idx' = Position(apps, app)
    /\ current_icon' = NoApp
    /\ ShowEntry(apps, app)
    /\ ready_sent' = TRUE
    /\ UNCHANGED <<apps, standalone_value>>

\* Mutant: pixels are taken whoever they belong to.
HandleAnyAppIcon(app) ==
    /\ current_icon' = app
    /\ ready_sent' = TRUE
    /\ UNCHANGED <<apps, selected_app, selected_idx, shown, standalone_value>>

\* Pixels of an app that is no longer selected are dropped.
HandleSetAppIcon(app) ==
    /\ current_icon' = IF selected_app = app THEN app ELSE current_icon
    /\ ready_sent' = TRUE
    /\ UNCHANGED <<apps, selected_app, selected_idx, shown, standalone_value>>

\* Mutant: the copy in the list is forgotten.
HandleShownVolume(app, level) ==
    /\ current_volume' = IF selected_app = app THEN level ELSE current_volume
    /\ ready_sent' = TRUE
    /\ UNCHANGED <<apps, selected_app, selected_idx, current_icon, current_muted,
                   standalone_value>>

HandleSetVolume(app, level) ==
    /\ apps' = IF Listed(apps, app)
                  THEN [apps EXCEPT ![Place(apps, app)].volume = level]
                  ELSE apps
    /\ current_volume' = IF selected_app = app THEN level ELSE current_volume
    /\ ready_sent' = TRUE
    /\ UNCHANGED <<selected_app, selected_idx, current_icon, current_muted,
                   standalone_value>>

HandleSetMute(app, muted) ==
    /\ apps' = IF Listed(apps, app)
                  THEN [apps EXCEPT ![Place(apps, app)].muted = muted]
                  ELSE apps
    /\ current_muted' = IF selected_app = app THEN muted ELSE current_muted
    /\ ready_sent' = TRUE
    /\ UNCHANGED <<selected_app, selected_idx, current_icon, current_volume,
                   standalone_value>>

-----------------------------------------------------------------------------
(* The user and the clock                                                  *)

\* A turn is the host's business while an app is selected.
Turn(delta) ==
    /\ standalone_value' = IF selected_app = NoApp
                              THEN Clamp(standalone_value + delta)
                              ELSE standalone_value
    /\ UNCHANGED <<apps, selected_app, selected_idx, current_icon, shown,
                   ready_sent>>

\* A swipe moves the cursor by one place round the list.
Swipe(step) ==
    /\ apps # <<>>
    /\ selected_idx' = (selected_idx + step) % Len(apps)
    /\ LET app == apps[selected_idx' + 1] IN
          /\ selected_app'   = app.id
          /\ current_volume' = app.volume
          /\ current_muted'  = app.muted
    /\ current_icon' = NoApp
    /\ UNCHANGED <<apps, standalone_value, ready_sent>>

\* The index is unsigned, so a step to the left adds len - 1.
SwipeLeft == Swipe(Len(apps) - 1)
SwipeRight == Swipe(1)

\* Mutant: the list survives the loss of the host.
DisconnectKeepsList ==
    /\ apps # <<>>
    /\ selected_app' = NoApp
    /\ current_icon' = NoApp
    /\ UNCHANGED <<apps, selected_idx, shown, standalone_value, ready_sent>>

\* Mutant: only the list goes, and the encoder stays with the app.
DisconnectKeepsSelection ==
    /\ apps # <<>>
    /\ apps' = <<>>
    /\ current_icon' = NoApp
    /\ UNCHANGED <<selected_app, selected_idx, shown, standalone_value, ready_sent>>

\* 10 000 ticks without a message from the host while apps are loaded.
Disconnect ==
    /\ apps # <<>>
    /\ apps' = <<>>
    /\ selected_app' = NoApp
    /\ current_icon' = NoApp
    /\ UNCHANGED <<selected_idx, shown, standalone_value, ready_sent>>

-----------------------------------------------------------------------------

DeviceNext ==
    \/ HandleOther
    \/ \E list \in HostLists : HandleSetAppList(list)
    \/ \E app \in Apps : HandleSetSelectedApp(app)
    \/ \E app \in Apps : HandleSetAppIcon(app)
    \/ \E app \in Apps, level \in Levels : HandleSetVolume(app, level)
    \/ \E app \in Apps, muted \in BOOLEAN : HandleSetMute(app, muted)
    \/ \E delta \in Deltas : Turn(delta)
    \/ SwipeLeft
    \/ SwipeRight
    \/ Disconnect

DeviceSpec == DeviceInit /\ [][DeviceNext]_deviceVars

-----------------------------------------------------------------------------
(* Properties                                                              *)

\* Every variable keeps its type; an app list never holds an id twice.
DeviceTypeOK ==
    /\ apps \in AppLists
    /\ selected_app \in Apps \cup {NoApp}
    /\ selected_idx \in Nat
    /\ current_icon \in Apps \cup {NoApp}
    /\ current_volume \in Levels
    /\ current_muted \in BOOLEAN
    /\ standalone_value \in Levels
    /\ ready_sent \in BOOLEAN

\* The icon on the screen is the selected app's: icons arrive long after the
\* swipe that asked for them, when another app may be selected
\* (main.rs SetAppIcon, and every place that changes selected_app).
IconIsOfSelected == current_icon # NoApp => current_icon = selected_app

\* The carousel index points at the selected app whenever the list has it, so
\* that a swipe goes to its neighbour and not to another app's
\* (selected_idx is recomputed by three handlers and left alone by others).
CursorOnSelected ==
    Listed(apps, selected_app) =>
        selected_idx < Len(apps) /\ apps[selected_idx + 1].id = selected_app

\* The volume and mute shown are those of the selected app's list entry, which
\* is what a later swipe back to it restores (SetVolume and SetMute keep two
\* copies; SetAppList, SetSelectedApp and the swipes copy one to the other).
ShownIsListed ==
    Listed(apps, selected_app) =>
        /\ current_volume = Find(apps, selected_app).volume
        /\ current_muted = Find(apps, selected_app).muted

\* While apps are listed one is selected: without it the encoder and the tap
\* would be dead on a screen that shows apps.
ListHasSelection == apps # <<>> => selected_app # NoApp
=============================================================================
