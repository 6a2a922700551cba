--------------------------- MODULE Screen_proofs ---------------------------
(***************************************************************************)
(* Drawing leaves the session alone, so all that is proved of KnobDevice   *)
(* holds of the loop that draws; and the parts that each handler draws for *)
(* itself always add up to the picture that a full redraw would make.      *)
(***************************************************************************)
EXTENDS Screen, KnobDevice_proofs

\* A step of the loop is a step of the session, or leaves it alone.
LEMMA StepIsDevice == [ScreenNext]_screenVars => [DeviceNext]_deviceVars
  <1> SUFFICES ASSUME [ScreenNext]_screenVars PROVE [DeviceNext]_deviceVars
    OBVIOUS
  <1>1. ASSUME NEW delta \in Deltas, TurnDraws(delta) PROVE DeviceNext
    BY <1>1 DEF TurnDraws, DeviceNext
  <1>2. CASE HoldToggles \/ WakeSkips \/ EventDraws \/ EndOfIteration \/ BatteryDraws
    BY <1>2 DEF HoldToggles, WakeSkips, EventDraws, EndOfIteration, BatteryDraws
  <1>3. CASE SwipeDraws
    BY <1>3 DEF SwipeDraws, DeviceNext
  <1>4. CASE ScreenOther
    BY <1>4 DEF ScreenOther, DeviceNext
  <1>5. ASSUME NEW list \in HostLists, ScreenSetAppList(list) PROVE DeviceNext
    BY <1>5 DEF ScreenSetAppList, DeviceNext
  <1>6. ASSUME NEW app \in Apps, ScreenSetSelectedApp(app) PROVE DeviceNext
    BY <1>6 DEF ScreenSetSelectedApp, DeviceNext
  <1>7. ASSUME NEW app \in Apps, ScreenSetAppIcon(app) PROVE DeviceNext
    BY <1>7 DEF ScreenSetAppIcon, DeviceNext
  <1>8. ASSUME NEW app \in Apps, NEW muted \in BOOLEAN, ScreenSetMute(app, muted)
        PROVE  DeviceNext
    BY <1>8 DEF ScreenSetMute, DeviceNext
  <1>9. ASSUME NEW app \in Apps, NEW level \in HostLevels, ScreenSetVolume(app, level)
        PROVE  DeviceNext
    BY <1>9, ScreenAssumption DEF ScreenSetVolume, DeviceNext
  <1>10. CASE DisconnectDraws
    BY <1>10 DEF DisconnectDraws, DeviceNext
  <1>11. CASE UNCHANGED screenVars
    BY <1>11 DEF screenVars
  <1> QED
    BY <1>1, <1>2, <1>3, <1>4, <1>5, <1>6, <1>7, <1>8, <1>9, <1>10, <1>11
       DEF ScreenNext

\* What is proved of KnobDevice carries over to the loop that draws.
LEMMA ScreenIsDevice == ScreenSpec => DeviceSpec
  <1>1. ScreenInit => DeviceInit
    BY DEF ScreenInit
  <1> QED
    BY <1>1, StepIsDevice, PTL DEF ScreenSpec, DeviceSpec

\* Hence its session is coherent, whatever is drawn in between.
THEOREM ScreenSession == ScreenSpec => []DeviceInv
  BY ScreenIsDevice, DeviceInvariance, PTL

-----------------------------------------------------------------------------

\* Writing an entry of the list takes no app off it.
LEMMA VolumeKeepsNames ==
    ASSUME DeviceInv, NEW app \in Apps, NEW level \in Levels,
           HandleSetVolume(app, level)
    PROVE  /\ apps' # <<>> => apps # <<>>
           /\ Listed(apps', selected_app) <=> Listed(apps, selected_app)
  <1> DEFINE e == Find(apps, app)
             entry == [e EXCEPT !.volume = level]
  <1>1. CASE ~ Listed(apps, app)
    BY <1>1 DEF HandleSetVolume
  <1>2. CASE Listed(apps, app)
    <2>1. apps \in AppLists
      BY DEF DeviceInv, DeviceTypeOK
    <2>2. e \in AppInfo /\ e.id = app
      BY <1>2, <2>1, PlaceIsListed DEF Find, AppLists
    <2>3. entry \in AppInfo /\ entry.id = app
      BY <2>2, VolumeField
    <2>4. /\ apps' = [apps EXCEPT ![Place(apps, app)] = entry]
          /\ selected_app' = selected_app /\ selected_idx' = selected_idx
      BY <1>2 DEF HandleSetVolume, Find
    <2> HIDE DEF entry
    <2> QED
      BY <1>2, <2>3, <2>4, EntryWritten
  <1> QED
    BY <1>1, <1>2

LEMMA MuteKeepsNames ==
    ASSUME DeviceInv, NEW app \in Apps, NEW muted \in BOOLEAN,
           HandleSetMute(app, muted)
    PROVE  /\ apps' # <<>> => apps # <<>>
           /\ Listed(apps', selected_app) <=> Listed(apps, selected_app)
  <1> DEFINE e == Find(apps, app)
             entry == [e EXCEPT !.muted = muted]
  <1>1. CASE ~ Listed(apps, app)
    BY <1>1 DEF HandleSetMute
  <1>2. CASE Listed(apps, app)
    <2>1. apps \in AppLists
      BY DEF DeviceInv, DeviceTypeOK
    <2>2. e \in AppInfo /\ e.id = app
      BY <1>2, <2>1, PlaceIsListed DEF Find, AppLists
    <2>3. entry \in AppInfo /\ entry.id = app
      BY <2>2, MuteField
    <2>4. /\ apps' = [apps EXCEPT ![Place(apps, app)] = entry]
          /\ selected_app' = selected_app /\ selected_idx' = selected_idx
      BY <1>2 DEF HandleSetMute, Find
    <2> HIDE DEF entry
    <2> QED
      BY <1>2, <2>3, <2>4, EntryWritten
  <1> QED
    BY <1>1, <1>2

\* What a full redraw would draw changes only with the session.
LEMMA SameSessionSameFrame ==
    ASSUME FrameIsSession, UNCHANGED deviceVars, frame' = frame
    PROVE  FrameIsSession'
  BY DEF FrameIsSession, SessionFrame, deviceVars, shown

LEMMA FrameStep ==
    ASSUME DeviceInv, FrameIsSession, [ScreenNext]_screenVars
    PROVE  FrameIsSession'
  <1> USE DEF FrameIsSession
  \* A turn draws only while no app is selected, and then none is listed.
  <1>1. ASSUME NEW delta \in Deltas, TurnDraws(delta) PROVE FrameIsSession'
    <2>1. /\ UNCHANGED <<apps, selected_app, current_icon, current_volume, current_muted>>
          /\ apps # <<>> => frame' = frame
      BY <1>1 DEF TurnDraws, Turn, NoDrawing, shown, DeviceInv, ListHasSelection
    <2> QED
      BY <2>1 DEF SessionFrame
  <1>2. CASE HoldToggles
    BY <1>2 DEF HoldToggles, Draw, SessionFrame, deviceVars, shown
  <1>3. CASE SwipeDraws
    BY <1>3 DEF SwipeDraws, Draw
  <1>4. CASE WakeSkips \/ EndOfIteration \/ BatteryDraws
    BY <1>4, SameSessionSameFrame DEF WakeSkips, EndOfIteration, BatteryDraws, NoDrawing, FlushAll
  <1>5. CASE EventDraws
    BY <1>5, SameSessionSameFrame DEF EventDraws, NoDrawing, deviceVars
  <1>6. CASE ScreenOther
    BY <1>6 DEF ScreenOther, ShowsNothing, HandleOther, SessionFrame, shown
  <1>7. ASSUME NEW list \in HostLists, ScreenSetAppList(list) PROVE FrameIsSession'
    BY <1>7 DEF ScreenSetAppList, Shows
  <1>8. ASSUME NEW app \in Apps, ScreenSetSelectedApp(app) PROVE FrameIsSession'
    BY <1>8 DEF ScreenSetSelectedApp, Shows
  <1>9. ASSUME NEW app \in Apps, ScreenSetAppIcon(app) PROVE FrameIsSession'
    <2>1. /\ UNCHANGED <<apps, selected_app, current_volume, current_muted>>
          /\ frame' = IF selected_app = app THEN [frame EXCEPT !.icon = current_icon']
                                            ELSE frame
          /\ selected_app # app => current_icon' = current_icon
      BY <1>9 DEF ScreenSetAppIcon, HandleSetAppIcon, Shows, ShowsNothing, shown
    <2>2. SUFFICES ASSUME apps # <<>> PROVE frame' = SessionFrame'
      BY <2>1
    <2>3. frame = SessionFrame
      BY <2>2
    <2>4. CASE selected_app = app
      BY <2>1, <2>3, <2>4 DEF SessionFrame
    <2>5. CASE selected_app # app
      BY <2>1, <2>3, <2>5 DEF SessionFrame
    <2> QED
      BY <2>4, <2>5
  <1>10. ASSUME NEW app \in Apps, NEW muted \in BOOLEAN, ScreenSetMute(app, muted)
         PROVE  FrameIsSession'
    <2>1. HandleSetMute(app, muted)
      BY <1>10 DEF ScreenSetMute
    <2>2. /\ UNCHANGED <<selected_app, current_icon, current_volume>>
          /\ current_muted' = IF selected_app = app THEN muted ELSE current_muted
          /\ frame' = IF selected_app = app THEN MuteIndicator(frame, muted) ELSE frame
      BY <1>10 DEF ScreenSetMute, HandleSetMute, Shows, ShowsNothing
    <2>3. SUFFICES ASSUME apps' # <<>> PROVE frame' = SessionFrame'
      OBVIOUS
    <2>4. frame = SessionFrame /\ (Listed(apps', selected_app) <=> Listed(apps, selected_app))
      BY <2>1, <2>3, MuteKeepsNames
    <2> QED
      BY <2>2, <2>4 DEF SessionFrame, MuteIndicator
  <1>11. ASSUME NEW app \in Apps, NEW level \in HostLevels, ScreenSetVolume(app, level)
         PROVE  FrameIsSession'
    <2>1. HandleSetVolume(app, level) /\ level \in Levels
      BY <1>11, ScreenAssumption DEF ScreenSetVolume
    <2>2. /\ UNCHANGED <<selected_app, current_icon, current_muted>>
          /\ current_volume' = IF selected_app = app THEN level ELSE current_volume
          /\ frame' = IF selected_app = app /\ level # current_volume
                         THEN [frame EXCEPT !.level = level] ELSE frame
      BY <1>11 DEF ScreenSetVolume, HandleSetVolume, FlushArc, ShowsNothing
    <2>3. SUFFICES ASSUME apps' # <<>> PROVE frame' = SessionFrame'
      OBVIOUS
    <2>4. frame = SessionFrame /\ (Listed(apps', selected_app) <=> Listed(apps, selected_app))
      BY <2>1, <2>3, VolumeKeepsNames
    <2> QED
      BY <2>2, <2>4 DEF SessionFrame
  <1>12. CASE DisconnectDraws
    BY <1>12 DEF DisconnectDraws, Disconnect
  <1>13. CASE UNCHANGED screenVars
    BY <1>13, SameSessionSameFrame DEF screenVars
  <1> QED
    BY <1>1, <1>2, <1>3, <1>4, <1>5, <1>6, <1>7, <1>8, <1>9, <1>10, <1>11, <1>12, <1>13
       DEF ScreenNext

LEMMA OverlayStep ==
    ASSUME OverlayIsCleared, [ScreenNext]_screenVars
    PROVE  OverlayIsCleared'
  <1> USE DEF OverlayIsCleared
  <1>1. ASSUME NEW delta \in Deltas, TurnDraws(delta) PROVE OverlayIsCleared'
    BY <1>1 DEF TurnDraws, NoDrawing, FlushArc, ArcOver
  <1>2. CASE HoldToggles \/ DisconnectDraws
    BY <1>2 DEF HoldToggles, DisconnectDraws, Draw
  <1>3. CASE SwipeDraws
    BY <1>3 DEF SwipeDraws, Draw, ArcOver
  <1>4. CASE WakeSkips \/ EventDraws \/ BatteryDraws
    BY <1>4 DEF WakeSkips, EventDraws, BatteryDraws, NoDrawing, Draw
  <1>5. CASE EndOfIteration
    BY <1>5 DEF EndOfIteration
  <1>6. CASE ScreenOther
    BY <1>6 DEF ScreenOther, Host, ShowsNothing
  <1>7. ASSUME NEW list \in HostLists, ScreenSetAppList(list) PROVE OverlayIsCleared'
    BY <1>7 DEF ScreenSetAppList, Host, Shows, ArcOver
  <1>8. ASSUME NEW app \in Apps, ScreenSetSelectedApp(app) PROVE OverlayIsCleared'
    BY <1>8 DEF ScreenSetSelectedApp, Host, Shows, ArcOver
  <1>9. ASSUME NEW app \in Apps, ScreenSetAppIcon(app) PROVE OverlayIsCleared'
    BY <1>9 DEF ScreenSetAppIcon, Host, Shows, ShowsNothing
  <1>10. ASSUME NEW app \in Apps, NEW muted \in BOOLEAN, ScreenSetMute(app, muted)
         PROVE  OverlayIsCleared'
    BY <1>10 DEF ScreenSetMute, Host, Shows, ShowsNothing
  <1>11. ASSUME NEW app \in Apps, NEW level \in HostLevels, ScreenSetVolume(app, level)
         PROVE  OverlayIsCleared'
    BY <1>11 DEF ScreenSetVolume, Host, FlushArc, ArcOver, ShowsNothing
  <1>12. CASE UNCHANGED screenVars
    BY <1>12 DEF screenVars
  <1> QED
    BY <1>1, <1>2, <1>3, <1>4, <1>5, <1>6, <1>7, <1>8, <1>9, <1>10, <1>11, <1>12
       DEF ScreenNext

\* While apps are listed the frame buffer holds what a full redraw would draw:
\* no icon, label or WiFi line of another app or of the not-connected screen
\* survives a handler that draws only its own part, and none of the overlay its
\* being toggled off (main.rs, all drawing).
THEOREM FrameSafety == ScreenSpec => []FrameShowsSession
  <1>1. ScreenInit => FrameShowsSession
    BY DEF ScreenInit, DeviceInit, FrameShowsSession, FrameIsSession, OverlayIsCleared
  <1>2. DeviceInv /\ FrameShowsSession /\ [ScreenNext]_screenVars => FrameShowsSession'
    BY FrameStep, OverlayStep DEF FrameShowsSession
  <1> QED
    BY <1>1, <1>2, ScreenSession, PTL DEF ScreenSpec

-----------------------------------------------------------------------------
(* The rows that a change of the arc flushes                               *)

LEMMA TipRows ==
    /\ TipRow(0) = 300 /\ TipRow(1) = 115 /\ TipRow(2) = 10
    /\ TipRow(3) = 115 /\ TipRow(4) = 300
  BY DEF TipRow

LEMMA LevelsAreFive == Levels = {0, 1, 2, 3, 4}
  BY ScaleAssumption DEF Levels

\* Among the rows the arc may turn or end in there is a first and a last one.
LEMMA Extremes ==
    ASSUME NEW rows \in SUBSET {10, 115, 180, 300}, rows # {}
    PROVE  /\ \E y \in rows : \A z \in rows : y <= z
           /\ \E y \in rows : \A z \in rows : y >= z
  <1>0. \A z \in rows : z = 10 \/ z = 115 \/ z = 180 \/ z = 300
    OBVIOUS
  <1>a. PICK some \in rows : TRUE
    OBVIOUS
  <1>1. \E y \in rows : \A z \in rows : y <= z
    <2>1. CASE 10 \in rows
      <3>1. \A z \in rows : 10 <= z
        BY <1>0
      <3> QED
        BY <2>1, <3>1
    <2>2. CASE 10 \notin rows /\ 115 \in rows
      <3>1. \A z \in rows : 115 <= z
        BY <1>0, <2>2
      <3> QED
        BY <2>2, <3>1
    <2>3. CASE rows \cap {10, 115} = {} /\ 180 \in rows
      <3>1. \A z \in rows : 180 <= z
        BY <1>0, <2>3
      <3> QED
        BY <2>3, <3>1
    <2>4. CASE rows \cap {10, 115, 180} = {}
      <3>1. \A z \in rows : z = 300
        BY <1>0, <2>4
      <3>2. some = 300 /\ \A z \in rows : 300 <= z
        BY <3>1
      <3> QED
        BY <3>2
    <2> QED
      BY <2>1, <2>2, <2>3, <2>4
  <1>2. \E y \in rows : \A z \in rows : y >= z
    <2>1. CASE 300 \in rows
      <3>1. \A z \in rows : 300 >= z
        BY <1>0
      <3> QED
        BY <2>1, <3>1
    <2>2. CASE 300 \notin rows /\ 180 \in rows
      <3>1. \A z \in rows : 180 >= z
        BY <1>0, <2>2
      <3> QED
        BY <2>2, <3>1
    <2>3. CASE rows \cap {300, 180} = {} /\ 115 \in rows
      <3>1. \A z \in rows : 115 >= z
        BY <1>0, <2>3
      <3> QED
        BY <2>3, <3>1
    <2>4. CASE rows \cap {300, 180, 115} = {}
      <3>1. \A z \in rows : z = 10
        BY <1>0, <2>4
      <3>2. some = 10 /\ \A z \in rows : 10 >= z
        BY <3>1
      <3> QED
        BY <3>2
    <2> QED
      BY <2>1, <2>2, <2>3, <2>4
  <1> QED
    BY <1>1, <1>2

\* The rows flushed go from 8 above the highest to 8 below the lowest of: the
\* two ends of the arc, and its top if the change passes it.
LEMMA DeltaRowsSpan ==
    ASSUME NEW prev \in Levels, NEW new \in Levels, prev # new,
           NEW row \in Nat,
           \/ TipRow(prev) - 8 <= row
           \/ TipRow(new) - 8 <= row
           \/ /\ LesserOf(prev, new) <= 2 /\ 2 <= GreaterOf(prev, new)
              /\ 2 <= row,
           row <= TipRow(prev) + 8 \/ row <= TipRow(new) + 8
    PROVE  row \in DeltaRows(prev, new)
  <1> DEFINE lo == LesserOf(Sweep(prev), Sweep(new))
             hi == GreaterOf(Sweep(prev), Sweep(new))
             crossed == {y \in {10, 180} :
                 \E at \in (IF y = 10 THEN {270} ELSE {90, 450}) : lo <= at /\ at <= hi}
             ends == {TipRow(prev), TipRow(new)}
                        \cup (IF prev = 0 \/ new = 0 THEN {300} ELSE {})
             top == ends \cup crossed
             bottom == ends \cup (crossed \ {10})
             y_min == CHOOSE y \in top : \A z \in top : y <= z
             y_max == CHOOSE y \in bottom : \A z \in bottom : y >= z
  <1>1. {TipRow(prev), TipRow(new)} \subseteq {10, 115, 300}
    BY TipRows, LevelsAreFive
  <1>2. top \in SUBSET {10, 115, 180, 300} /\ bottom \in SUBSET {10, 115, 180, 300}
    BY <1>1
  <1>3. /\ TipRow(prev) \in top /\ TipRow(new) \in top
        /\ TipRow(prev) \in bottom /\ TipRow(new) \in bottom
    OBVIOUS
  <1>4. LesserOf(prev, new) <= 2 /\ 2 <= GreaterOf(prev, new) => 10 \in top
    <2> SUFFICES ASSUME LesserOf(prev, new) <= 2, 2 <= GreaterOf(prev, new)
                 PROVE  10 \in crossed
      OBVIOUS
    <2>1. lo <= 270 /\ 270 <= hi
      BY LevelsAreFive DEF LesserOf, GreaterOf, Sweep
    <2> QED
      BY <2>1
  <1>5. DeltaRows(prev, new) = y_min - CapR .. y_max + CapR
    BY DEF DeltaRows
  <1> HIDE DEF top, bottom
  <1>6. y_min \in top /\ \A z \in top : y_min <= z
    <2>1. \E y \in top : \A z \in top : y <= z
      BY ONLY <1>2, <1>3, Extremes
    <2> QED
      BY ONLY <2>1
  <1>7. y_max \in bottom /\ \A z \in bottom : y_max >= z
    <2>1. \E y \in bottom : \A z \in bottom : y >= z
      BY ONLY <1>2, <1>3, Extremes
    <2> QED
      BY ONLY <2>1
  <1> HIDE DEF y_min, y_max
  <1>8. y_min \in Int /\ y_max \in Int
    BY <1>2, <1>6, <1>7
  <1>9. y_min - 8 <= row
    BY <1>1, <1>3, <1>4, <1>6, <1>8
  <1>10. row <= y_max + 8
    BY <1>1, <1>3, <1>7, <1>8
  <1> QED
    BY <1>5, <1>8, <1>9, <1>10 DEF CapR

\* A row that is not flushed shows the same of the arc before and after.
LEMMA DeltaRowsSuffice ==
    ASSUME NEW prev \in Levels, NEW new \in Levels, NEW row \in Rows,
           prev # new, row \notin DeltaRows(prev, new), NEW level \in Passes(row)
    PROVE  prev >= level <=> new >= level
  <1> SUFFICES ASSUME ~ (prev >= level <=> new >= level) PROVE FALSE
    OBVIOUS
  <1>1. row \in Nat
    BY DEF Rows, StatsRow
  <1>2. ~ \/ TipRow(prev) - 8 <= row
          \/ TipRow(new) - 8 <= row
          \/ /\ LesserOf(prev, new) <= 2 /\ 2 <= GreaterOf(prev, new)
             /\ 2 <= row
        \/ ~ (row <= TipRow(prev) + 8 \/ row <= TipRow(new) + 8)
    BY <1>1, DeltaRowsSpan
  <1>3. CASE row \in {10, 80}
    BY <1>2, <1>3, TipRows, LevelsAreFive DEF Passes, LesserOf, GreaterOf, StatsRow
  <1>4. CASE row = 115
    BY <1>2, <1>4, TipRows, LevelsAreFive DEF Passes, LesserOf, GreaterOf
  <1>5. CASE row \in {150, 220, StatsRow, 306}
    BY <1>2, <1>5, TipRows, LevelsAreFive DEF Passes, LesserOf, GreaterOf, StatsRow
  <1>6. CASE row = 320
    BY <1>6 DEF Passes, StatsRow
  <1> QED
    BY <1>3, <1>4, <1>5, <1>6 DEF Rows

-----------------------------------------------------------------------------
(* The panel                                                               *)

Frames == [icon : Apps \cup {NoApp, Blank}, name : Apps \cup {NoApp, Blank},
           level : Levels, label : {"", "MUTED", "NOT DETECTED"},
           line : {"", "WiFi: connecting...", "WiFi: ip", "WiFi: disconnected"}]

Overlays == {"none", "over", "under"}

\* The frame is a picture, and all of it that was drawn was sent.
PanelInv == frame \in Frames /\ stats \in Overlays /\ PanelIsCurrent

LEMMA SessionFrameType == DeviceInv => SessionFrame \in Frames
  BY DEF SessionFrame, Frames, DeviceInv, DeviceTypeOK

LEMMA WaitingFrameType == DeviceInv => WaitingFrame \in Frames
  BY DEF WaitingFrame, Frames, DeviceInv, DeviceTypeOK

\* Flushing the rows of a change of the arc is as good as flushing them all,
\* unless the change also restores the ends of the arc that the overlay wiped.
LEMMA ArcFlushSuffices ==
    ASSUME NEW f \in Frames, NEW new \in Levels, NEW pct, NEW overlay \in Overlays,
           f.level # new,
           overlay = "over" => StatsRow \in DeltaRows(f.level, new),
           panel = Picture(f, pct, overlay),
           FlushRows([f EXCEPT !.level = new], pct, ArcOver(overlay), DeltaRows(f.level, new))
    PROVE  panel' = Picture([f EXCEPT !.level = new], pct, ArcOver(overlay))
  <1> DEFINE g == [f EXCEPT !.level = new]
             rows == DeltaRows(f.level, new)
             after == ArcOver(overlay)
  <1>1. /\ g.level = new /\ g.icon = f.icon /\ g.name = f.name
        /\ g.label = f.label /\ g.line = f.line
        /\ f.level \in Levels
    BY DEF Frames
  <1>2. after = IF overlay = "none" THEN "none" ELSE "under"
    BY DEF ArcOver
  <1> HIDE DEF g, after
  <1>3. ASSUME NEW row \in Rows, row \notin rows
        PROVE  Look(f, pct, overlay, row) = Look(g, pct, after, row)
    <2>1. \A level \in Passes(row) : f.level >= level <=> g.level >= level
      BY <1>1, <1>3, DeltaRowsSuffice
    <2>2. row = StatsRow => overlay # "over" /\ after = overlay
      BY <1>2, <1>3 DEF Overlays
    <2>3. {level \in Passes(row) : f.level >= level /\ ~ (row = StatsRow /\ overlay = "over")}
            = {level \in Passes(row) : g.level >= level /\ ~ (row = StatsRow /\ after = "over")}
      BY <2>1, <2>2
    <2>4. (IF row = StatsRow THEN overlay ELSE "none") = (IF row = StatsRow THEN after ELSE "none")
      BY <2>2
    <2> QED
      BY <1>1, <2>3, <2>4 DEF Look
  <1>4. panel' = [row \in Rows |-> IF row \in rows THEN Look(g, pct, after, row) ELSE panel[row]]
    BY DEF FlushRows, g, after
  <1>5. \A row \in Rows : panel[row] = Look(f, pct, overlay, row)
    BY DEF Picture
  <1> HIDE DEF rows
  <1>6. \A row \in Rows : (IF row \in rows THEN Look(g, pct, after, row) ELSE panel[row])
                             = Look(g, pct, after, row)
    BY <1>3, <1>5
  <1>7. panel' = [row \in Rows |-> Look(g, pct, after, row)]
    BY <1>4, <1>6
  <1> QED
    BY <1>7 DEF Picture, g, after

\* The battery is drawn in the rows that are flushed for it.
LEMMA BatteryFlushSuffices ==
    ASSUME NEW f, NEW old, NEW pct, NEW overlay, panel = Picture(f, old, overlay),
           FlushRows(f, pct, overlay, 305 .. 330)
    PROVE  panel' = Picture(f, pct, overlay)
  <1>1. ASSUME NEW row \in Rows, row \notin 305 .. 330
        PROVE  Look(f, old, overlay, row) = Look(f, pct, overlay, row)
    BY <1>1 DEF Look
  <1>2. panel' = [row \in Rows |-> IF row \in 305 .. 330 THEN Look(f, pct, overlay, row)
                                                        ELSE panel[row]]
    BY DEF FlushRows
  <1>3. \A row \in Rows : panel[row] = Look(f, old, overlay, row)
    BY DEF Picture
  <1>4. \A row \in Rows : (IF row \in 305 .. 330 THEN Look(f, pct, overlay, row) ELSE panel[row])
                             = Look(f, pct, overlay, row)
    BY <1>1, <1>3
  <1>5. panel' = [row \in Rows |-> Look(f, pct, overlay, row)]
    BY <1>2, <1>4
  <1> QED
    BY <1>5 DEF Picture

LEMMA PanelKept ==
    ASSUME PanelInv, UNCHANGED <<frame, batt_pct, stats, panel, needs_flush, unsent>>
    PROVE  PanelInv'
  <1>1. Picture(frame, batt_pct, stats)' = Picture(frame, batt_pct, stats)
    BY DEF Picture, Look
  <1> QED
    BY <1>1 DEF PanelInv, PanelIsCurrent

\* Drawn without a flush, the frame is allowed to differ.
LEMMA PanelDrawn ==
    ASSUME NEW f, f \in Frames, NEW overlay \in Overlays, Draw(f, overlay)
    PROVE  PanelInv'
  BY DEF Draw, PanelInv, PanelIsCurrent

LEMMA PanelFlushed ==
    ASSUME NEW f, f \in Frames, NEW overlay \in Overlays, frame' = f, stats' = overlay,
           FlushAll(f, batt_pct, overlay), batt_pct' = batt_pct
    PROVE  PanelInv'
  BY DEF FlushAll, PanelInv, PanelIsCurrent

LEMMA PanelSilent ==
    ASSUME PanelInv, ShowsNothing, UNCHANGED batt_pct
    PROVE  PanelInv'
  <1>1. CASE needs_flush
    BY <1>1, PanelFlushed DEF ShowsNothing, PanelInv
  <1>2. CASE ~ needs_flush
    BY <1>2, PanelKept DEF ShowsNothing
  <1> QED
    BY <1>1, <1>2

\* The arc goes from prev to new: what the rows sent leave out is on record.
LEMMA PanelArc ==
    ASSUME PanelInv, NEW prev \in Levels, NEW new \in Levels, NEW lacking,
           FlushArc(prev, new, lacking),
           needs_flush => lacking \/ needs_flush',
           UNCHANGED batt_pct
    PROVE  PanelInv'
  <1>1. /\ frame' = IF prev = new THEN frame ELSE [frame EXCEPT !.level = new]
        /\ stats' = IF prev = new THEN stats ELSE ArcOver(stats)
        /\ FlushRows(frame', batt_pct, stats', DeltaRows(prev, new))
        /\ ~ unsent' => /\ ~ unsent /\ ~ lacking
                        /\ prev # new => /\ frame.level = prev
                                         /\ stats = "over" => StatsRow \in DeltaRows(prev, new)
    BY DEF FlushArc
  <1>2. frame' \in Frames /\ stats' \in Overlays
    BY <1>1 DEF PanelInv, Frames, Overlays, ArcOver
  <1>3. ASSUME ~ unsent', ~ needs_flush' PROVE panel' = Picture(frame', batt_pct, stats')
    <2>1. panel = Picture(frame, batt_pct, stats)
      BY <1>1, <1>3 DEF PanelInv, PanelIsCurrent
    <2>2. CASE prev = new
      <3>1. panel' = [row \in Rows |-> IF row \in DeltaRows(prev, new)
                                          THEN Look(frame, batt_pct, stats, row) ELSE panel[row]]
        BY <1>1, <2>2 DEF FlushRows
      <3>2. \A row \in Rows : panel[row] = Look(frame, batt_pct, stats, row)
        BY <2>1 DEF Picture
      <3>3. panel' = [row \in Rows |-> Look(frame, batt_pct, stats, row)]
        BY <3>1, <3>2
      <3> QED
        BY <1>1, <2>2, <3>3 DEF Picture
    <2>3. CASE prev # new
      <3>1. frame.level = prev /\ (stats = "over" => StatsRow \in DeltaRows(prev, new))
        BY <1>1, <1>3, <2>3
      <3> QED
        BY <1>1, <2>1, <2>3, <3>1, ArcFlushSuffices DEF PanelInv
    <2> QED
      BY <2>2, <2>3
  <1> QED
    BY <1>2, <1>3 DEF PanelInv, PanelIsCurrent

LEMMA PanelStep ==
    ASSUME DeviceInv, DeviceInv', PanelInv, [ScreenNext]_screenVars
    PROVE  PanelInv'
  <1>0. /\ {"none", stats, ArcOver(stats)} \subseteq Overlays
        /\ SessionFrame \in Frames /\ SessionFrame' \in Frames
        /\ WaitingFrame \in Frames /\ WaitingFrame' \in Frames
    <2>1. SessionFrame' \in Frames
      BY DEF SessionFrame, Frames, DeviceInv, DeviceTypeOK
    <2>2. WaitingFrame' \in Frames
      BY DEF WaitingFrame, Frames, DeviceInv, DeviceTypeOK
    <2>3. {"none", stats, ArcOver(stats)} \subseteq Overlays
      BY DEF PanelInv, Overlays, ArcOver
    <2> QED
      BY <2>1, <2>2, <2>3, SessionFrameType, WaitingFrameType
  <1>1. ASSUME NEW delta \in Deltas, TurnDraws(delta) PROVE PanelInv'
    <2>1. standalone_value \in Levels /\ standalone_value' \in Levels
      BY DEF DeviceInv, DeviceTypeOK
    <2>2. CASE selected_app # NoApp
      BY <1>1, <2>2, PanelKept DEF TurnDraws, NoDrawing
    <2>3. CASE selected_app = NoApp
      <3>1. FlushArc(standalone_value, standalone_value', FALSE)
            /\ UNCHANGED <<needs_flush, batt_pct>>
        BY <1>1, <2>3 DEF TurnDraws
      <3> QED
        BY <2>1, <3>1, PanelArc
    <2> QED
      BY <2>2, <2>3
  <1>2. CASE HoldToggles
    BY <1>0, <1>2, PanelDrawn DEF HoldToggles
  <1>3. CASE SwipeDraws
    BY <1>0, <1>3, PanelDrawn DEF SwipeDraws
  <1>4. CASE WakeSkips
    BY <1>4, PanelKept DEF WakeSkips, NoDrawing
  <1>5. CASE EventDraws
    <2>1. \A text \in {"WiFi: ip", "WiFi: disconnected"} : [frame EXCEPT !.line = text] \in Frames
      BY DEF PanelInv, Frames
    <2> QED
      BY <1>0, <1>5, <2>1, PanelDrawn, PanelKept DEF EventDraws, NoDrawing
  <1>6. CASE ScreenOther
    BY <1>6, PanelSilent DEF ScreenOther, Host
  <1>7. ASSUME NEW list \in HostLists, ScreenSetAppList(list) PROVE PanelInv'
    BY <1>0, <1>7, PanelFlushed DEF ScreenSetAppList, Shows, Host
  <1>8. ASSUME NEW app \in Apps, ScreenSetSelectedApp(app) PROVE PanelInv'
    BY <1>0, <1>8, PanelFlushed DEF ScreenSetSelectedApp, Shows, Host
  <1>9. ASSUME NEW app \in Apps, ScreenSetAppIcon(app) PROVE PanelInv'
    <2>1. [frame EXCEPT !.icon = current_icon'] \in Frames
      <3>1. current_icon' \in Apps \cup {NoApp}
        BY DEF DeviceInv, DeviceTypeOK
      <3> QED
        BY <3>1 DEF PanelInv, Frames
    <2> QED
      BY <1>0, <1>9, <2>1, PanelFlushed, PanelSilent DEF ScreenSetAppIcon, Shows, Host
  <1>10. ASSUME NEW app \in Apps, NEW muted \in BOOLEAN, ScreenSetMute(app, muted)
         PROVE  PanelInv'
    <2>1. MuteIndicator(frame, muted) \in Frames
      BY DEF MuteIndicator, PanelInv, Frames
    <2> QED
      BY <1>0, <1>10, <2>1, PanelFlushed, PanelSilent DEF ScreenSetMute, Shows, Host
  <1>11. ASSUME NEW app \in Apps, NEW level \in HostLevels, ScreenSetVolume(app, level)
         PROVE  PanelInv'
    <2>1. CASE selected_app # app
      BY <1>11, <2>1, PanelSilent DEF ScreenSetVolume, Host
    <2>2. CASE selected_app = app
      <3>1. FlushArc(current_volume, level, needs_flush) /\ UNCHANGED batt_pct
        BY <1>11, <2>2 DEF ScreenSetVolume, Host
      <3>2. current_volume \in Levels /\ level \in Levels
        BY ScreenAssumption DEF DeviceInv, DeviceTypeOK
      <3> QED
        BY <3>1, <3>2, PanelArc
    <2> QED
      BY <2>1, <2>2
  <1>12. CASE DisconnectDraws
    BY <1>0, <1>12, PanelDrawn DEF DisconnectDraws
  <1>13. CASE EndOfIteration
    <2>1. frame \in Frames /\ frame' = frame /\ batt_pct' = batt_pct
      BY <1>13 DEF EndOfIteration, PanelInv
    <2>2. CASE UNCHANGED <<stats, panel, needs_flush, unsent>>
      BY <2>1, <2>2, PanelKept
    <2>3. CASE /\ stats' = IF debug_visible THEN "over" ELSE stats
               /\ FlushAll(frame, batt_pct, stats')
      <3>1. stats' \in Overlays
        BY <2>3 DEF PanelInv, Overlays
      <3> QED
        BY <2>1, <2>3, <3>1, PanelFlushed
    <2> QED
      BY <1>13, <2>2, <2>3 DEF EndOfIteration
  <1>14. CASE BatteryDraws
    <2>1. PICK pct \in Batteries :
             batt_pct' = pct /\ FlushRows(frame, pct, stats, 305 .. 330)
      BY <1>14 DEF BatteryDraws
    <2>2. UNCHANGED <<frame, stats, needs_flush, unsent>> /\ ~ needs_flush
      BY <1>14 DEF BatteryDraws
    <2>3. ASSUME ~ unsent PROVE panel' = Picture(frame, pct, stats)
      BY <2>1, <2>2, <2>3, BatteryFlushSuffices DEF PanelInv, PanelIsCurrent
    <2> QED
      BY <2>1, <2>2, <2>3 DEF PanelInv, PanelIsCurrent
  <1>15. CASE UNCHANGED screenVars
    BY <1>15, PanelKept DEF screenVars
  <1> QED
    BY <1>1, <1>2, <1>3, <1>4, <1>5, <1>6, <1>7, <1>8, <1>9, <1>10, <1>11, <1>12,
       <1>13, <1>14, <1>15 DEF ScreenNext

\* With no flush due the display shows the frame buffer, though a volume change
\* flushes only the rows of draw_volume_delta (main.rs, draw_volume_delta and
\* flush_rows).
THEOREM PanelSafety == ScreenSpec => []PanelIsCurrent
  <1>1. ScreenInit => PanelInv
    <2> SUFFICES ASSUME ScreenInit PROVE PanelInv
      OBVIOUS
    <2>1. DeviceInv
      BY DeviceInitInv DEF ScreenInit
    <2>2. WaitingFrame \in Frames
      BY <2>1, WaitingFrameType
    <2>3. [WaitingFrame EXCEPT !.line = "WiFi: connecting..."] \in Frames
      BY <2>2 DEF Frames
    <2> QED
      BY <2>2, <2>3 DEF ScreenInit, PanelInv, PanelIsCurrent, Overlays
  <1>2. DeviceInv /\ DeviceInv' /\ PanelInv /\ [ScreenNext]_screenVars => PanelInv'
    BY PanelStep
  <1>3. PanelInv => PanelIsCurrent
    BY DEF PanelInv
  <1> QED
    BY <1>1, <1>2, <1>3, ScreenSession, PTL DEF ScreenSpec
=============================================================================
