-------------------------- MODULE KnobDevice_proofs --------------------------
(***************************************************************************)
(* What holds of the firmware's session state whatever the host sends,     *)
(* for any set of apps, any lists and any number of levels.                *)
(***************************************************************************)
EXTENDS KnobDevice, TLAPS

\* The index the firmware looks up is in the list and holds the id.
LEMMA PlaceIsListed ==
    ASSUME NEW list \in AppLists, NEW app, Listed(list, app)
    PROVE  /\ Place(list, app) \in 1 .. Len(list)
           /\ list[Place(list, app)].id = app
           /\ Find(list, app) \in AppInfo
  BY DEF Place, Listed, Find, AppLists

\* In a list without duplicates there is no other place for it.
LEMMA PlaceIsUnique ==
    ASSUME NEW list \in AppLists, NEW i \in 1 .. Len(list)
    PROVE  /\ Listed(list, list[i].id)
           /\ Place(list, list[i].id) = i
  BY PlaceIsListed DEF Listed, AppLists, UniqueIds

\* Replacing an entry by one with the same id keeps the list, its ids and the
\* other entries: what SetVolume and SetMute do to their copy in the list.
LEMMA EntryUpdate ==
    ASSUME NEW list \in AppLists, NEW i \in 1 .. Len(list), NEW entry \in AppInfo,
           entry.id = list[i].id
    PROVE  /\ [list EXCEPT ![i] = entry] \in AppLists
           /\ Len([list EXCEPT ![i] = entry]) = Len(list)
           /\ \A j \in 1 .. Len(list) :
                 /\ [list EXCEPT ![i] = entry][j].id = list[j].id
                 /\ [list EXCEPT ![i] = entry][j] = IF j = i THEN entry ELSE list[j]
  <1> DEFINE new == [list EXCEPT ![i] = entry]
  <1>1. list \in Seq(AppInfo) /\ UniqueIds(list)
    BY DEF AppLists
  <1>2. new \in Seq(AppInfo) /\ Len(new) = Len(list)
    BY <1>1
  <1>3. \A j \in 1 .. Len(list) : new[j] = IF j = i THEN entry ELSE list[j]
    BY <1>1
  <1>4. \A j \in 1 .. Len(list) : new[j].id = list[j].id
    BY <1>3
  <1>5. UniqueIds(new)
    BY <1>1, <1>2, <1>4 DEF UniqueIds
  <1> QED
    BY <1>2, <1>3, <1>4, <1>5 DEF AppLists

\* Setting the volume of an entry gives an entry of the same app.
LEMMA VolumeField ==
    ASSUME NEW e \in AppInfo, NEW v \in Levels
    PROVE  /\ [e EXCEPT !.volume = v] \in AppInfo
           /\ [e EXCEPT !.volume = v].id = e.id
           /\ [e EXCEPT !.volume = v].volume = v
           /\ [e EXCEPT !.volume = v].muted = e.muted
  BY DEF AppInfo

\* And so does setting its mute flag.
LEMMA MuteField ==
    ASSUME NEW e \in AppInfo, NEW m \in BOOLEAN
    PROVE  /\ [e EXCEPT !.muted = m] \in AppInfo
           /\ [e EXCEPT !.muted = m].id = e.id
           /\ [e EXCEPT !.muted = m].muted = m
           /\ [e EXCEPT !.muted = m].volume = e.volume
  BY DEF AppInfo

\* Lists with the same ids in the same places find an app at the same place.
LEMMA SameIdsSamePlace ==
    ASSUME NEW old \in AppLists, NEW new \in AppLists, Len(new) = Len(old),
           \A j \in 1 .. Len(old) : new[j].id = old[j].id, NEW app
    PROVE  /\ Listed(new, app) <=> Listed(old, app)
           /\ Listed(old, app) => Place(new, app) = Place(old, app)
  <1>1. DOMAIN new = 1 .. Len(old) /\ DOMAIN old = 1 .. Len(old)
    BY DEF AppLists
  <1>2. Listed(new, app) <=> Listed(old, app)
    BY <1>1 DEF Listed
  <1>3. ASSUME Listed(old, app)
        PROVE  Place(new, app) = Place(old, app)
    <2>1. Place(old, app) \in 1 .. Len(old) /\ old[Place(old, app)].id = app
      BY <1>3, PlaceIsListed
    <2>2. new[Place(old, app)].id = app
      BY <2>1
    <2> QED
      BY <2>1, <2>2, PlaceIsUnique
  <1> QED
    BY <1>2, <1>3

-----------------------------------------------------------------------------

\* The inductive invariant: none of the parts is inductive alone, because a
\* swipe reads its entry at selected_idx and SetVolume writes it at the place
\* of the id.
DeviceInv ==
    /\ DeviceTypeOK
    /\ IconIsOfSelected
    /\ CursorOnSelected
    /\ ShownIsListed
    /\ ListHasSelection

LEMMA DeviceInitInv == DeviceInit => DeviceInv
  <1> SUFFICES ASSUME DeviceInit PROVE DeviceInv
    OBVIOUS
  <1> USE DEF DeviceInit
  <1>1. <<>> \in AppLists /\ ~ Listed(<<>>, NoApp)
    BY DEF AppLists, UniqueIds, Listed
  <1>2. 0 \in Levels /\ MaxLevel \div 2 \in Levels
    BY MaxLevelAssumption, SMT DEF Levels
  <1>3. DeviceTypeOK
    BY <1>1, <1>2 DEF DeviceTypeOK
  <1> QED
    BY <1>1, <1>3 DEF DeviceInv, IconIsOfSelected, CursorOnSelected,
                      ShownIsListed, ListHasSelection

\* ShowEntry leaves what is shown equal to the entry it copied.
LEMMA ShowEntryCopies ==
    ASSUME NEW list \in AppLists, NEW app, ShowEntry(list, app),
           current_volume \in Levels, current_muted \in BOOLEAN
    PROVE  /\ current_volume' \in Levels
           /\ current_muted' \in BOOLEAN
           /\ Listed(list, app) =>
                 /\ current_volume' = Find(list, app).volume
                 /\ current_muted' = Find(list, app).muted
  BY PlaceIsListed DEF ShowEntry, AppInfo

\* The index stored for an app is its place in the list.
LEMMA PositionIsPlace ==
    ASSUME NEW list \in AppLists, NEW app
    PROVE  /\ Position(list, app) \in Nat
           /\ Listed(list, app) =>
                 /\ Position(list, app) < Len(list)
                 /\ list[Position(list, app) + 1].id = app
  <1>1. CASE Listed(list, app)
    <2>1. /\ Place(list, app) \in 1 .. Len(list)
          /\ list[Place(list, app)].id = app
      BY <1>1, PlaceIsListed
    <2>2. Len(list) \in Nat
      BY DEF AppLists
    <2>3. Position(list, app) = Place(list, app) - 1
      BY <1>1 DEF Position
    <2>4. Position(list, app) + 1 = Place(list, app)
      BY <2>1, <2>2, <2>3
    <2> QED
      BY <2>1, <2>2, <2>3, <2>4
  <1>2. CASE ~ Listed(list, app)
    BY <1>2 DEF Position
  <1> QED
    BY <1>1, <1>2

LEMMA SetAppListInv ==
    ASSUME DeviceInv, NEW list \in AppLists, HandleSetAppList(list)
    PROVE  DeviceInv'
  <1> USE DEF DeviceInv, DeviceTypeOK, HandleSetAppList
  <1>1. /\ selected_app' \in Apps \cup {NoApp}
        /\ selected_idx' \in Nat
        /\ current_icon # NoApp => selected_app' = selected_app
        /\ list # <<>> => selected_app' # NoApp
        /\ Listed(list, selected_app') =>
              /\ selected_idx' < Len(list)
              /\ list[selected_idx' + 1].id = selected_app'
    <2>1. CASE selected_app = NoApp /\ list = <<>>
      <3>1. ~ Listed(list, NoApp)
        BY <2>1 DEF Listed
      <3> QED
        BY <2>1, <3>1 DEF IconIsOfSelected
    <2>2. CASE selected_app = NoApp /\ list # <<>>
      <3>1. Len(list) \in Nat /\ Len(list) > 0 /\ list[1] \in AppInfo
        BY <2>2 DEF AppLists
      <3>2. list[1].id \in Apps
        BY <3>1 DEF AppInfo
      <3>3. selected_app' = list[1].id /\ selected_idx' = 0
        BY <2>2
      <3>4. current_icon = NoApp
        BY <2>2 DEF IconIsOfSelected
      <3> QED
        BY <3>1, <3>2, <3>3, <3>4, NoAppAssumption
    <2>3. CASE selected_app # NoApp
      BY <2>3, PositionIsPlace
    <2> QED
      BY <2>1, <2>2, <2>3
  <1>2. /\ current_volume' \in Levels
        /\ current_muted' \in BOOLEAN
        /\ Listed(list, selected_app') =>
              /\ current_volume' = Find(list, selected_app').volume
              /\ current_muted' = Find(list, selected_app').muted
    BY ShowEntryCopies
  <1>3. DeviceTypeOK'
    BY <1>1, <1>2
  <1>4. IconIsOfSelected' /\ CursorOnSelected'
    BY <1>1 DEF IconIsOfSelected, CursorOnSelected
  <1>5. ShownIsListed' /\ ListHasSelection'
    BY <1>1, <1>2 DEF ShownIsListed, ListHasSelection
  <1> QED
    BY <1>3, <1>4, <1>5

LEMMA SetSelectedAppInv ==
    ASSUME DeviceInv, NEW app \in Apps, HandleSetSelectedApp(app)
    PROVE  DeviceInv'
  <1> USE DEF DeviceInv, DeviceTypeOK, HandleSetSelectedApp
  <1>1. /\ selected_idx' \in Nat
        /\ Listed(apps, app) =>
              /\ selected_idx' < Len(apps)
              /\ apps[selected_idx' + 1].id = app
    BY PositionIsPlace
  <1>2. /\ current_volume' \in Levels
        /\ current_muted' \in BOOLEAN
        /\ Listed(apps, app) =>
              /\ current_volume' = Find(apps, app).volume
              /\ current_muted' = Find(apps, app).muted
    BY ShowEntryCopies
  <1>3. app # NoApp
    BY NoAppAssumption
  <1>4. DeviceTypeOK'
    BY <1>1, <1>2
  <1>5. IconIsOfSelected' /\ CursorOnSelected'
    BY <1>1 DEF IconIsOfSelected, CursorOnSelected
  <1>6. ShownIsListed' /\ ListHasSelection'
    BY <1>2, <1>3 DEF ShownIsListed, ListHasSelection
  <1> QED
    BY <1>4, <1>5, <1>6

\* What both updates of a list entry need: the cursor stays where it was, and
\* the entry found for any app is the old one or the one just written.
LEMMA EntryWritten ==
    ASSUME DeviceInv, NEW app \in Apps, Listed(apps, app),
           NEW entry \in AppInfo, entry.id = app,
           apps' = [apps EXCEPT ![Place(apps, app)] = entry],
           selected_app' = selected_app, selected_idx' = selected_idx
    PROVE  /\ apps' \in AppLists
           /\ CursorOnSelected'
           /\ apps # <<>>
           /\ Listed(apps', selected_app) <=> Listed(apps, selected_app)
           /\ Listed(apps, selected_app) =>
                 Find(apps', selected_app) =
                    IF selected_app = app THEN entry ELSE Find(apps, selected_app)
  <1> DEFINE i == Place(apps, app)
  <1>1. apps \in AppLists /\ i \in 1 .. Len(apps) /\ apps[i].id = app
    BY PlaceIsListed DEF DeviceInv, DeviceTypeOK
  <1>. apps' = [apps EXCEPT ![i] = entry] /\ entry.id = apps[i].id
    BY <1>1
  <1> HIDE DEF i
  <1>2. /\ apps' \in AppLists
        /\ Len(apps') = Len(apps)
        /\ \A j \in 1 .. Len(apps) :
              /\ apps'[j].id = apps[j].id
              /\ apps'[j] = IF j = i THEN entry ELSE apps[j]
    <2>1. /\ [apps EXCEPT ![i] = entry] \in AppLists
          /\ Len([apps EXCEPT ![i] = entry]) = Len(apps)
      BY <1>1, EntryUpdate
    <2>2. \A j \in 1 .. Len(apps) :
             /\ [apps EXCEPT ![i] = entry][j].id = apps[j].id
             /\ [apps EXCEPT ![i] = entry][j] = IF j = i THEN entry ELSE apps[j]
      BY ONLY <1>1, EntryUpdate, entry \in AppInfo, entry.id = apps[i].id
    <2> QED
      BY <2>1, <2>2
  <1>3. /\ Listed(apps', selected_app) <=> Listed(apps, selected_app)
        /\ Listed(apps, selected_app) =>
              Place(apps', selected_app) = Place(apps, selected_app)
    <2>1. apps \in AppLists
      BY <1>1
    <2> QED
      BY ONLY <1>2, <2>1, SameIdsSamePlace
  <1>4. CursorOnSelected'
    <2> SUFFICES ASSUME Listed(apps, selected_app)
                 PROVE  /\ selected_idx < Len(apps)
                        /\ apps'[selected_idx + 1].id = selected_app
      BY <1>2, <1>3 DEF CursorOnSelected
    <2>1. selected_idx < Len(apps) /\ apps[selected_idx + 1].id = selected_app
      BY DEF DeviceInv, CursorOnSelected
    <2>2. selected_idx + 1 \in 1 .. Len(apps)
      BY <2>1, <1>1 DEF DeviceInv, DeviceTypeOK, AppLists
    <2> QED
      BY <2>1, <2>2, <1>2
  <1>5. ASSUME Listed(apps, selected_app)
        PROVE  Find(apps', selected_app) =
                 IF selected_app = app THEN entry ELSE Find(apps, selected_app)
    <2>1. /\ Place(apps, selected_app) \in 1 .. Len(apps)
          /\ apps[Place(apps, selected_app)].id = selected_app
      BY <1>1, <1>5, PlaceIsListed
    <2>2. Find(apps', selected_app) = apps'[Place(apps, selected_app)]
      BY <1>3, <1>5 DEF Find
    <2>3. selected_app = app <=> Place(apps, selected_app) = i
      BY <1>1, <2>1 DEF i
    <2> QED
      BY <1>2, <2>1, <2>2, <2>3 DEF Find
  <1>6. apps # <<>>
    BY <1>1
  <1> QED
    BY <1>2, <1>3, <1>4, <1>5, <1>6

LEMMA SetVolumeInv ==
    ASSUME DeviceInv, NEW app \in Apps, NEW level \in Levels,
           HandleSetVolume(app, level)
    PROVE  DeviceInv'
  <1> USE DEF DeviceInv, DeviceTypeOK, HandleSetVolume
  <1>1. current_volume' \in Levels
    OBVIOUS
  <1>2. IconIsOfSelected'
    BY DEF IconIsOfSelected
  <1>3. CASE Listed(apps, app)
    <2> DEFINE e == Find(apps, app)
               entry == [e EXCEPT !.volume = level]
    <2>1. e \in AppInfo /\ e.id = app /\ Place(apps, app) \in 1 .. Len(apps)
      BY <1>3, PlaceIsListed DEF Find
    <2>2. /\ entry \in AppInfo /\ entry.id = app
          /\ entry.volume = level /\ entry.muted = e.muted
      BY <2>1, VolumeField
    <2>3. apps' = [apps EXCEPT ![Place(apps, app)] = entry]
      BY <1>3 DEF Find
    <2> HIDE DEF entry
    <2>4. /\ apps' \in AppLists
          /\ CursorOnSelected'
          /\ apps # <<>>
          /\ Listed(apps', selected_app) <=> Listed(apps, selected_app)
          /\ Listed(apps, selected_app) =>
                Find(apps', selected_app) =
                  IF selected_app = app THEN entry ELSE Find(apps, selected_app)
      BY <1>3, <2>2, <2>3, EntryWritten
    <2>5. DeviceTypeOK'
      BY <1>1, <2>4
    <2>6. ShownIsListed'
      BY <2>2, <2>4 DEF ShownIsListed
    <2>7. ListHasSelection'
      BY <2>4 DEF ListHasSelection
    <2> QED
      BY <1>2, <2>4, <2>5, <2>6, <2>7
  <1>4. CASE ~ Listed(apps, app)
    <2>1. DeviceTypeOK' /\ CursorOnSelected' /\ ListHasSelection'
      BY <1>1, <1>4 DEF CursorOnSelected, ListHasSelection
    <2>2. ShownIsListed'
      BY <1>4 DEF ShownIsListed
    <2> QED
      BY <1>2, <2>1, <2>2
  <1> QED
    BY <1>3, <1>4

LEMMA SetMuteInv ==
    ASSUME DeviceInv, NEW app \in Apps, NEW muted \in BOOLEAN,
           HandleSetMute(app, muted)
    PROVE  DeviceInv'
  <1> USE DEF DeviceInv, DeviceTypeOK, HandleSetMute
  <1>1. current_muted' \in BOOLEAN
    OBVIOUS
  <1>2. IconIsOfSelected'
    BY DEF IconIsOfSelected
  <1>3. CASE Listed(apps, app)
    <2> DEFINE e == Find(apps, app)
               entry == [e EXCEPT !.muted = muted]
    <2>1. e \in AppInfo /\ e.id = app /\ Place(apps, app) \in 1 .. Len(apps)
      BY <1>3, PlaceIsListed DEF Find
    <2>2. /\ entry \in AppInfo /\ entry.id = app
          /\ entry.muted = muted /\ entry.volume = e.volume
      BY <2>1, MuteField
    <2>3. apps' = [apps EXCEPT ![Place(apps, app)] = entry]
      BY <1>3 DEF Find
    <2> HIDE DEF entry
    <2>4. /\ apps' \in AppLists
          /\ CursorOnSelected'
          /\ apps # <<>>
          /\ Listed(apps', selected_app) <=> Listed(apps, selected_app)
          /\ Listed(apps, selected_app) =>
                Find(apps', selected_app) =
                  IF selected_app = app THEN entry ELSE Find(apps, selected_app)
      BY <1>3, <2>2, <2>3, EntryWritten
    <2>5. DeviceTypeOK'
      BY <1>1, <2>4
    <2>6. ShownIsListed'
      BY <2>2, <2>4 DEF ShownIsListed
    <2>7. ListHasSelection'
      BY <2>4 DEF ListHasSelection
    <2> QED
      BY <1>2, <2>4, <2>5, <2>6, <2>7
  <1>4. CASE ~ Listed(apps, app)
    <2>1. DeviceTypeOK' /\ CursorOnSelected' /\ ListHasSelection'
      BY <1>1, <1>4 DEF CursorOnSelected, ListHasSelection
    <2>2. ShownIsListed'
      BY <1>4 DEF ShownIsListed
    <2> QED
      BY <1>2, <2>1, <2>2
  <1> QED
    BY <1>3, <1>4

LEMMA SetAppIconInv ==
    ASSUME DeviceInv, NEW app \in Apps, HandleSetAppIcon(app)
    PROVE  DeviceInv'
  <1> USE DEF HandleSetAppIcon, shown
  <1>1. DeviceTypeOK'
    BY DEF DeviceInv, DeviceTypeOK
  <1>2. IconIsOfSelected'
    BY DEF DeviceInv, IconIsOfSelected
  <1>3. CursorOnSelected' /\ ListHasSelection'
    BY DEF DeviceInv, CursorOnSelected, ListHasSelection
  <1>4. ShownIsListed'
    BY DEF DeviceInv, ShownIsListed
  <1> QED
    BY <1>1, <1>2, <1>3, <1>4 DEF DeviceInv

\* Handlers that touch neither the list nor the selection.
LEMMA SessionUnchangedInv ==
    ASSUME DeviceInv, ready_sent' \in BOOLEAN, standalone_value' \in Levels,
           UNCHANGED <<apps, selected_app, selected_idx, current_icon,
                       current_volume, current_muted>>
    PROVE  DeviceInv'
  <1>1. DeviceTypeOK'
    BY DEF DeviceInv, DeviceTypeOK
  <1>2. IconIsOfSelected' /\ CursorOnSelected' /\ ListHasSelection'
    BY DEF DeviceInv, IconIsOfSelected, CursorOnSelected, ListHasSelection
  <1>3. ShownIsListed'
    BY DEF DeviceInv, ShownIsListed
  <1> QED
    BY <1>1, <1>2, <1>3 DEF DeviceInv

LEMMA SwipeInv ==
    ASSUME DeviceInv, NEW step \in Nat, Swipe(step)
    PROVE  DeviceInv'
  <1> USE DEF Swipe
  <1> DEFINE i == selected_idx'
  <1>1. apps \in AppLists /\ Len(apps) \in Nat /\ Len(apps) > 0
    BY DEF DeviceInv, DeviceTypeOK, AppLists
  <1>2. i \in Nat /\ i < Len(apps) /\ i + 1 \in 1 .. Len(apps)
    <2>1. selected_idx + step \in Nat
      BY DEF DeviceInv, DeviceTypeOK
    <2> QED
      BY <1>1, <2>1
  <1>3. /\ apps[i + 1] \in AppInfo
        /\ Find(apps, apps[i + 1].id) = apps[i + 1]
    BY <1>1, <1>2, PlaceIsUnique DEF Find, AppLists
  <1>4. DeviceTypeOK'
    BY <1>1, <1>2, <1>3 DEF DeviceInv, DeviceTypeOK, AppInfo
  <1>5. IconIsOfSelected' /\ CursorOnSelected'
    BY <1>2 DEF IconIsOfSelected, CursorOnSelected
  <1>6. ShownIsListed'
    BY <1>3 DEF ShownIsListed
  <1>7. ListHasSelection'
    BY <1>3, NoAppAssumption DEF ListHasSelection, AppInfo
  <1> QED
    BY <1>4, <1>5, <1>6, <1>7 DEF DeviceInv

LEMMA DisconnectInv ==
    ASSUME DeviceInv, Disconnect
    PROVE  DeviceInv'
  <1> USE DEF Disconnect, shown
  <1>1. <<>> \in AppLists /\ ~ Listed(<<>>, NoApp)
    BY DEF AppLists, UniqueIds, Listed
  <1>2. DeviceTypeOK'
    BY <1>1 DEF DeviceInv, DeviceTypeOK
  <1>3. IconIsOfSelected' /\ CursorOnSelected' /\ ShownIsListed' /\ ListHasSelection'
    BY <1>1 DEF IconIsOfSelected, CursorOnSelected, ShownIsListed, ListHasSelection
  <1> QED
    BY <1>2, <1>3 DEF DeviceInv

LEMMA ClampInLevels ==
    ASSUME NEW n \in Int
    PROVE  Clamp(n) \in Levels
  BY MaxLevelAssumption DEF Clamp, Levels

\* Every step of the firmware preserves the invariant.
LEMMA DeviceNextInv == DeviceInv /\ [DeviceNext]_deviceVars => DeviceInv'
  <1> SUFFICES ASSUME DeviceInv, [DeviceNext]_deviceVars
               PROVE  DeviceInv'
    OBVIOUS
  <1>0. ready_sent \in BOOLEAN /\ standalone_value \in Levels
    BY DEF DeviceInv, DeviceTypeOK
  <1>1. CASE HandleOther
    BY <1>0, <1>1, SessionUnchangedInv DEF HandleOther, shown
  <1>2. ASSUME NEW list \in HostLists, HandleSetAppList(list)
        PROVE  DeviceInv'
    BY <1>2, SetAppListInv, HostListsAssumption
  <1>3. ASSUME NEW app \in Apps, HandleSetSelectedApp(app)
        PROVE  DeviceInv'
    BY <1>3, SetSelectedAppInv
  <1>4. ASSUME NEW app \in Apps, HandleSetAppIcon(app)
        PROVE  DeviceInv'
    BY <1>4, SetAppIconInv
  <1>5. ASSUME NEW app \in Apps, NEW level \in Levels, HandleSetVolume(app, level)
        PROVE  DeviceInv'
    BY <1>5, SetVolumeInv
  <1>6. ASSUME NEW app \in Apps, NEW muted \in BOOLEAN, HandleSetMute(app, muted)
        PROVE  DeviceInv'
    BY <1>6, SetMuteInv
  <1>7. ASSUME NEW delta \in Deltas, Turn(delta)
        PROVE  DeviceInv'
    <2>1. standalone_value + delta \in Int
      BY <1>0, DeltasAssumption, MaxLevelAssumption DEF Levels
    <2>2. standalone_value' \in Levels
      BY <1>0, <1>7, <2>1, ClampInLevels DEF Turn
    <2> QED
      BY <1>0, <1>7, <2>2, SessionUnchangedInv DEF Turn, shown
  <1>8. CASE SwipeLeft
    <2>1. Len(apps) - 1 \in Nat
      BY <1>8 DEF SwipeLeft, Swipe, DeviceInv, DeviceTypeOK, AppLists
    <2> QED
      BY <1>8, <2>1, SwipeInv DEF SwipeLeft
  <1>9. CASE SwipeRight
    BY <1>9, SwipeInv DEF SwipeRight
  <1>10. CASE Disconnect
    BY <1>10, DisconnectInv
  <1>11. CASE UNCHANGED deviceVars
    BY <1>0, <1>11, SessionUnchangedInv DEF deviceVars, shown
  <1> QED
    BY <1>1, <1>2, <1>3, <1>4, <1>5, <1>6, <1>7, <1>8, <1>9, <1>10, <1>11
       DEF DeviceNext

\* Whatever the host sends and the user does, the firmware's session state is
\* coherent: DeviceInv always holds (main.rs, the main loop).
THEOREM DeviceInvariance == DeviceSpec => []DeviceInv
  BY DeviceInitInv, DeviceNextInv, PTL DEF DeviceSpec

\* The types of the session state, among them that no id is listed twice.
THEOREM DeviceTyping == DeviceSpec => []DeviceTypeOK
  <1>1. DeviceInv => DeviceTypeOK
    BY DEF DeviceInv
  <1> QED
    BY <1>1, DeviceInvariance, PTL

\* An icon that arrives late is never shown for another app (main.rs
\* SetAppIcon and every change of selected_app).
THEOREM IconSafety == DeviceSpec => []IconIsOfSelected
  <1>1. DeviceInv => IconIsOfSelected
    BY DEF DeviceInv
  <1> QED
    BY <1>1, DeviceInvariance, PTL

\* The carousel index points at the selected app's entry, so a swipe goes to
\* its neighbour (main.rs SetAppList, SetSelectedApp and the swipes).
THEOREM CursorSafety == DeviceSpec => []CursorOnSelected
  <1>1. DeviceInv => CursorOnSelected
    BY DEF DeviceInv
  <1> QED
    BY <1>1, DeviceInvariance, PTL

\* The two copies of the volume and mute of the selected app agree: a swipe
\* away and back shows what was shown (main.rs SetVolume, SetMute, the swipes).
THEOREM ShownSafety == DeviceSpec => []ShownIsListed
  <1>1. DeviceInv => ShownIsListed
    BY DEF DeviceInv
  <1> QED
    BY <1>1, DeviceInvariance, PTL

\* While apps are listed one is selected (main.rs SetAppList, disconnect).
THEOREM ListedSafety == DeviceSpec => []ListHasSelection
  <1>1. DeviceInv => ListHasSelection
    BY DEF DeviceInv
  <1> QED
    BY <1>1, DeviceInvariance, PTL
=============================================================================
