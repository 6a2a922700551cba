------------------------------- MODULE Screen -------------------------------
(***************************************************************************)
(* What the knob draws of its session (firmware/src/main.rs): the frame    *)
(* buffer, the panel that shows the rows last flushed to it, and the one   *)
(* iteration of the main loop in which encoder, touch, WiFi event and host *)
(* messages draw in turn.  A volume change flushes only the rows between   *)
(* the old and the new end of the arc; everything else asks for a flush of *)
(* the whole screen with needs_flush.                                      *)
(*                                                                         *)
(* Levels 0 .. 4 put the end of the 270 degree arc at both ends, half way  *)
(* up both sides, and at the top.  The panel is looked at in one row of    *)
(* every band that some flush may leave out.  The debug overlay is a black *)
(* band with a text, through both ends of the arc; what the text says is   *)
(* left out.  The inner edge of the arc that the box of draw_status cuts   *)
(* off in rows 244 .. 247 is in no row looked at.                          *)
(***************************************************************************)
EXTENDS KnobDevice

CONSTANTS
    HostLevels,  \* the levels a host sets
    Batteries,   \* the percentages of the battery that differ on the screen
    Blank        \* nothing is drawn there

ASSUME ScaleAssumption == MaxLevel = 4
ASSUME ScreenAssumption ==
    /\ HostLevels \subseteq Levels
    /\ Blank \notin Apps \cup {NoApp}

VARIABLES
    stage,          \* how far the iteration of the main loop has come
    frame,          \* the frame buffer, as the last thing drawn in each place
    batt_pct,       \* drawn whenever it changes
    stats,          \* the debug overlay: "none", "over" or "under" the arc
    panel,          \* what the display shows in each row looked at
    needs_flush,
    debug_visible,
    unsent          \* for the properties: a change was drawn that no flush sent

screenVars == <<deviceVars, stage, frame, batt_pct, stats, panel, needs_flush,
                debug_visible, unsent>>

-----------------------------------------------------------------------------
(* Geometry                                                                *)

StatsRow == 260

Rows == {10, 80, 115, 150, 220, StatsRow, 306, 320}

\* arc_tip_point: the row of the end of the arc.
TipRow(level) == <<300, 115, 10, 115, 300>>[level + 1]

\* In half degrees from the lower left, 270 degrees in all.
Sweep(level) == level * 135

CapR == 8

LesserOf(x, y) == IF x < y THEN x ELSE y
GreaterOf(x, y) == IF x < y THEN y ELSE x

\* Mutant: the rows between the two ends, without the top of the arc.
DeltaTips(prev, new) ==
    LesserOf(TipRow(prev), TipRow(new)) - CapR
        .. GreaterOf(TipRow(prev), TipRow(new)) + CapR

\* draw_volume_delta: the rows to flush after the arc went from prev to new.
DeltaRows(prev, new) ==
    LET lo == LesserOf(Sweep(prev), Sweep(new))
        hi == GreaterOf(Sweep(prev), Sweep(new))
        crossed == {y \in {10, 180} :
                       \E at \in (IF y = 10 THEN {270} ELSE {90, 450}) : lo <= at /\ at <= hi}
        ends == {TipRow(prev), TipRow(new)}
                   \cup (IF prev = 0 \/ new = 0 THEN {300} ELSE {})
        top == ends \cup crossed
        bottom == ends \cup (crossed \ {10})
        y_min == CHOOSE y \in top : \A z \in top : y <= z
        y_max == CHOOSE y \in bottom : \A z \in bottom : y >= z
    IN IF prev = new THEN 0 .. 0 ELSE y_min - CapR .. y_max + CapR

\* The levels at which the arc changes in a row.
Passes(row) == CASE row \in {10, 80}       -> {2, 3}
                 [] row = 115              -> {1, 2, 3, 4}
                 [] row \in {150, 220, StatsRow, 306} -> {1, 4}
                 [] OTHER                  -> {}

\* draw_rx_stats wipes its band from edge to edge; an arc drawn after it is
\* whole again, with the text inside.
ArcOver(overlay) == IF overlay = "none" THEN "none" ELSE "under"

\* What a row shows of a frame.
Look(f, pct, overlay, row) ==
    [arc     |-> {level \in Passes(row) :
                     f.level >= level /\ ~ (row = StatsRow /\ overlay = "over")},
     stats   |-> IF row = StatsRow THEN overlay ELSE "none",
     icon    |-> IF row \in 60 .. 123 THEN f.icon ELSE Blank,
     name    |-> IF row \in 134 .. 173 THEN f.name ELSE Blank,
     label   |-> IF row \in 158 .. 247 THEN f.label ELSE "",
     line    |-> IF row \in 205 .. 232 THEN f.line ELSE "",
     battery |-> IF row \in 305 .. 330 THEN {pct} ELSE {}]

Picture(f, pct, overlay) == [row \in Rows |-> Look(f, pct, overlay, row)]

-----------------------------------------------------------------------------
(* Drawing                                                                 *)

\* redraw_app and draw_mute_indicator, which also wipe the WiFi line.
SessionFrame ==
    [icon  |-> current_icon,
     name  |-> IF Listed(apps, selected_app) THEN selected_app ELSE NoApp,
     level |-> current_volume,
     label |-> IF current_muted THEN "MUTED" ELSE "",
     line  |-> ""]

\* draw_not_connected and draw_volume.
WaitingFrame ==
    [icon |-> Blank, name |-> Blank, level |-> standalone_value,
     label |-> "NOT DETECTED", line |-> ""]

\* draw_mute_indicator
MuteIndicator(f, muted) ==
    [f EXCEPT !.label = IF muted THEN "MUTED" ELSE "", !.line = ""]

\* display.flush
FlushAll(f, pct, overlay) ==
    /\ panel' = Picture(f, pct, overlay)
    /\ needs_flush' = FALSE
    /\ unsent' = FALSE

\* display.flush_rows
FlushRows(f, pct, overlay, rows) ==
    panel' = [row \in Rows |->
                 IF row \in rows THEN Look(f, pct, overlay, row) ELSE panel[row]]

\* Drawn now, flushed at the next occasion.
Draw(f, overlay) ==
    /\ frame' = f
    /\ stats' = overlay
    /\ needs_flush' = TRUE
    /\ UNCHANGED <<panel, unsent>>

NoDrawing == UNCHANGED <<frame, stats, panel, needs_flush, unsent>>

\* The arc goes from prev to new and the rows of the delta are flushed; what
\* else the display lacks (lacking), and the ends of the arc that the overlay
\* had wiped, are not sent with them.
FlushArc(prev, new, lacking) ==
    /\ frame' = IF prev = new THEN frame ELSE [frame EXCEPT !.level = new]
    /\ stats' = IF prev = new THEN stats ELSE ArcOver(stats)
    /\ FlushRows(frame', batt_pct, stats', DeltaRows(prev, new))
    /\ unsent' = \/ unsent \/ lacking
                 \/ /\ prev # new
                    /\ \/ frame.level # prev
                       \/ stats = "over" /\ StatsRow \notin DeltaRows(prev, new)

ScreenInit ==
    /\ DeviceInit
    /\ stage = 0
    /\ frame \in {WaitingFrame, [WaitingFrame EXCEPT !.line = "WiFi: connecting..."]}
    /\ batt_pct \in Batteries
    /\ stats = "none"
    /\ panel = Picture(frame, batt_pct, stats)
    /\ needs_flush = FALSE
    /\ debug_visible = FALSE
    /\ unsent = FALSE

-----------------------------------------------------------------------------
(* One iteration: encoder (0), hold (1), gesture (2), event (3), host      *)

At(n) == stage <= n /\ stage' = n + 1

\* With an app selected a turn is only sent to the host.
TurnDraws(delta) ==
    /\ At(0)
    /\ Turn(delta)
    /\ IF selected_app # NoApp
          THEN NoDrawing
          ELSE /\ FlushArc(standalone_value, standalone_value', FALSE)
               /\ UNCHANGED needs_flush
    /\ UNCHANGED <<batt_pct, debug_visible>>

\* A finger down for four seconds toggles the overlay and redraws it all.
HoldToggles ==
    /\ At(1)
    /\ debug_visible' = ~ debug_visible
    /\ Draw(IF apps = <<>> THEN WaitingFrame ELSE SessionFrame, "none")
    /\ UNCHANGED <<deviceVars, batt_pct>>

\* Mutant: the label of the app before is left on the screen.
SwipeKeepsLabel ==
    /\ At(2)
    /\ SwipeLeft \/ SwipeRight
    /\ Draw([SessionFrame' EXCEPT !.label = frame.label], ArcOver(stats))
    /\ UNCHANGED <<batt_pct, debug_visible>>

SwipeDraws ==
    /\ At(2)
    /\ SwipeLeft \/ SwipeRight
    /\ Draw(SessionFrame', ArcOver(stats))
    /\ UNCHANGED <<batt_pct, debug_visible>>

\* A touch on a dark screen ends the iteration, whatever still needs a flush.
WakeSkips ==
    /\ stage <= 2
    /\ stage' = 0
    /\ NoDrawing
    /\ UNCHANGED <<deviceVars, batt_pct, debug_visible>>

\* The WiFi line belongs to the not-connected screen.
EventDraws ==
    /\ At(3)
    /\ IF apps = <<>>
          THEN \E text \in {"WiFi: ip", "WiFi: disconnected"} :
                  Draw([frame EXCEPT !.line = text], stats)
          ELSE NoDrawing
    /\ UNCHANGED <<deviceVars, batt_pct, debug_visible>>

-----------------------------------------------------------------------------
(* Host messages, over either transport: the Ack follows the flush         *)

Host == /\ stage <= 5 /\ stage' = 5
        /\ UNCHANGED <<batt_pct, debug_visible>>

\* Drawn and flushed in full before the Ack.
Shows(f, overlay) ==
    /\ frame' = f
    /\ stats' = overlay
    /\ FlushAll(f, batt_pct, overlay)

\* A flush that is due takes place even if this message draws nothing.
ShowsNothing ==
    /\ UNCHANGED <<frame, stats>>
    /\ IF needs_flush THEN FlushAll(frame, batt_pct, stats)
                      ELSE UNCHANGED <<panel, needs_flush, unsent>>

ScreenOther == Host /\ HandleOther /\ ShowsNothing

ScreenSetAppList(list) ==
    /\ Host
    /\ HandleSetAppList(list)
    /\ Shows(SessionFrame', ArcOver(stats))

ScreenSetSelectedApp(app) ==
    /\ Host
    /\ HandleSetSelectedApp(app)
    /\ Shows(SessionFrame', ArcOver(stats))

ScreenSetAppIcon(app) ==
    /\ Host
    /\ HandleSetAppIcon(app)
    /\ IF selected_app = app THEN Shows([frame EXCEPT !.icon = current_icon'], stats)
                             ELSE ShowsNothing

ScreenSetMute(app, muted) ==
    /\ Host
    /\ HandleSetMute(app, muted)
    /\ IF selected_app = app THEN Shows(MuteIndicator(frame, muted), stats)
                             ELSE ShowsNothing

\* The rows of the arc are flushed, and nothing needs a flush any more.
ScreenSetVolume(app, level) ==
    /\ Host
    /\ HandleSetVolume(app, level)
    /\ IF selected_app = app
          THEN /\ FlushArc(current_volume, level, needs_flush)
               /\ needs_flush' = FALSE
          ELSE ShowsNothing

-----------------------------------------------------------------------------
(* The end of the iteration                                                *)

\* No message for 10 000 ticks, so none in this iteration either.
DisconnectDraws ==
    /\ stage <= 4 /\ stage' = 6
    /\ Disconnect
    /\ Draw(WaitingFrame', "none")
    /\ UNCHANGED <<batt_pct, debug_visible>>

\* The flush that is due, or the overlay's every 200 ticks; the only flushes
\* that draw the overlay again.
EndOfIteration ==
    /\ stage' = 0
    /\ \/ /\ needs_flush \/ debug_visible
          /\ stats' = IF debug_visible THEN "over" ELSE stats
          /\ FlushAll(frame, batt_pct, stats')
       \/ /\ ~ needs_flush
          /\ UNCHANGED <<stats, panel, needs_flush, unsent>>
    /\ UNCHANGED <<deviceVars, frame, batt_pct, debug_visible>>

\* Every 10 000 ticks, after that flush.
BatteryDraws ==
    /\ stage = 0 /\ ~ needs_flush
    /\ \E pct \in Batteries \ {batt_pct} :
          /\ batt_pct' = pct
          /\ FlushRows(frame, pct, stats, 305 .. 330)
    /\ UNCHANGED <<deviceVars, stage, frame, stats, needs_flush, debug_visible, unsent>>

-----------------------------------------------------------------------------

ScreenNext ==
    \/ \E delta \in Deltas : TurnDraws(delta)
    \/ HoldToggles
    \/ SwipeDraws
    \/ WakeSkips
    \/ EventDraws
    \/ ScreenOther
    \/ \E list \in HostLists : ScreenSetAppList(list)
    \/ \E app \in Apps : ScreenSetSelectedApp(app)
    \/ \E app \in Apps : ScreenSetAppIcon(app)
    \/ \E app \in Apps, muted \in BOOLEAN : ScreenSetMute(app, muted)
    \/ \E app \in Apps, level \in HostLevels : ScreenSetVolume(app, level)
    \/ DisconnectDraws
    \/ EndOfIteration
    \/ BatteryDraws

ScreenSpec == ScreenInit /\ [][ScreenNext]_screenVars

-----------------------------------------------------------------------------
(* Properties                                                              *)

FrameIsSession == apps # <<>> => frame = SessionFrame

OverlayIsCleared == ~ debug_visible => stats = "none"

\* While apps are listed the frame buffer is what a full redraw would make it,
\* though each handler draws only its own part: no label, icon or WiFi line of
\* another app or of the not-connected screen survives; and nothing is left of
\* the debug overlay once it is toggled off (main.rs, all drawing).
FrameShowsSession ==
    /\ FrameIsSession
    /\ OverlayIsCleared

\* With no flush due the display shows the frame buffer, though volume changes
\* flush a few rows only: the rows of draw_volume_delta are enough, and every
\* handler that draws asks for its flush.  The three ways to draw something that
\* is never sent are excepted: a SetVolume that cancels a flush still due, an
\* arc that was not where the delta starts, and the ends of the arc that are
\* redrawn over the debug overlay in rows outside the delta.
PanelIsCurrent ==
    ~ unsent /\ ~ needs_flush => panel = Picture(frame, batt_pct, stats)
=============================================================================
