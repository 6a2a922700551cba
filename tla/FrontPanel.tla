----------------------------- MODULE FrontPanel -----------------------------
(***************************************************************************)
(* The touch glass and the backlight together: the CST816 driver           *)
(* (firmware/src/touch.rs) and the first half of the main loop, where the  *)
(* encoder and the touch events are handled, with the finger and the touch *)
(* chip around them.  What it does to the screen is all in Backlight.      *)
(*                                                                         *)
(* An iteration has two steps: Inputs (encoder and touch, up to the end of *)
(* the gesture's match) and, unless `continue` skips it, the rest of the   *)
(* loop: messages of the host in any number, then Tick.                    *)
(***************************************************************************)
EXTENDS Backlight

CONSTANT Gestures   \* what the chip recognises

ASSUME GesturesAssumption == "None" \notin Gestures

VARIABLES
    pc,            \* "inputs" or "rest": the step the iteration is at
    points,        \* chip: the num_points register
    gesture,       \* chip: the gesture register
    irq,           \* chip: the interrupt line is asserted
    last_gesture,  \* driver: the last gesture register read
    finger_down,   \* driver: num_points of the last read
    acted,         \* the gesture whose arm of the match ran in this iteration
    from_dark,     \* history: the screen was off when the finger came down, and
                   \* neither a turn nor the host has lit it since
    fresh          \* history: the gesture made has not been acted upon

chip == <<points, gesture, irq>>
driver == <<last_gesture, finger_down>>
panelVars == <<vars, pc, chip, driver, acted, from_dark, fresh>>

PanelInit ==
    /\ Init
    /\ pc = "inputs"
    /\ points = 0 /\ gesture = "None" /\ irq = FALSE
    /\ last_gesture = "None" /\ finger_down = FALSE
    /\ acted = "None"
    /\ from_dark = FALSE /\ fresh = FALSE

-----------------------------------------------------------------------------
(* The finger and the chip                                                 *)

ChipSteps == UNCHANGED <<vars, pc, driver, acted>>

Press ==
    /\ ChipSteps
    /\ points = 0
    /\ points' = 1 /\ gesture' = "None" /\ irq' = TRUE
    /\ from_dark' = (state = "Off") /\ fresh' = FALSE

\* Under the finger (a swipe, a long press) or as it leaves (a tap); one
\* gesture for each touch.
Recognise ==
    /\ ChipSteps
    /\ points = 1 /\ gesture = "None"
    /\ gesture' \in Gestures /\ points' \in {0, 1} /\ irq' = TRUE
    /\ fresh' = TRUE
    /\ UNCHANGED from_dark

Lift ==
    /\ ChipSteps
    /\ points = 1 /\ points' = 0 /\ irq' = TRUE
    /\ UNCHANGED <<gesture, from_dark, fresh>>

\* The chip clears the register some time after the finger has gone.
Expire ==
    /\ ChipSteps
    /\ points = 0 /\ gesture # "None"
    /\ gesture' = "None"
    /\ UNCHANGED <<points, irq, from_dark, fresh>>

\* The interrupt is a short pulse.
PulseEnds ==
    /\ ChipSteps
    /\ irq /\ irq' = FALSE
    /\ UNCHANGED <<points, gesture, from_dark, fresh>>

-----------------------------------------------------------------------------
(* The driver                                                              *)

\* What the bus may answer: nothing, the registers of a sleeping chip, or the
\* registers.
Answers == {"error", "asleep", "registers"}

\* is_finger_down after a read.
FingerAfter(answer) ==
    CASE answer = "error"  -> finger_down
      [] answer = "asleep" -> FALSE
      [] OTHER             -> points > 0

\* Mutant: every read of the register is an event.
EventAgain(answer) == IF answer = "registers" THEN gesture ELSE "None"

\* A gesture register that still holds the gesture reported before, or none,
\* is no event.
EventOf(answer) ==
    IF answer = "registers" /\ gesture # last_gesture THEN gesture ELSE "None"

\* Mutant: only the interrupt starts a read.
PolledOnIrq == irq

\* The registers are read while the line is asserted or a finger was down.
Polled == irq \/ finger_down

-----------------------------------------------------------------------------
(* The main loop                                                           *)

\* wake_from_off is asked after a turn or a finger has lit the screen.
Dropped(lit) == state = "Off" /\ ~ lit

\* One pass over encoder and touch: `turned` when the count moved, `finger`
\* and `event` as the driver reports them.
React(turned, finger, event) ==
    LET lit == turned \/ finger IN
    /\ IF lit THEN NotifyActivity
       ELSE IF event # "None" THEN WakeFromOff
       ELSE UNCHANGED vars
    /\ IF event # "None" /\ Dropped(lit)
          THEN acted' = "None" /\ pc' = "inputs"
          ELSE acted' = event  /\ pc' = "rest"
    /\ fresh' = (fresh /\ acted' = "None")
    /\ from_dark' = (from_dark /\ ~ turned)

Inputs ==
    /\ pc = "inputs"
    /\ \E turned \in BOOLEAN :
          IF Polled
             THEN \E answer \in Answers :
                     /\ finger_down' = FingerAfter(answer)
                     /\ last_gesture' = IF answer = "registers" THEN gesture
                                                                ELSE last_gesture
                     /\ React(turned, finger_down', EventOf(answer))
             ELSE /\ UNCHANGED driver
                  /\ React(turned, finger_down, "None")
    /\ UNCHANGED chip

\* SetAppList, SetSelectedApp, SetVolume and SetMute count as activity.
HostActivity ==
    /\ pc = "rest"
    /\ NotifyActivity
    /\ from_dark' = FALSE
    /\ UNCHANGED <<pc, chip, driver, acted, fresh>>

HostSettings ==
    /\ pc = "rest"
    /\ \E pct \in Pcts, dim, off \in Secs : SetBacklight(pct, dim, off)
    /\ UNCHANGED <<pc, chip, driver, acted, from_dark, fresh>>

EndOfIteration ==
    /\ pc = "rest"
    /\ Tick
    /\ pc' = "inputs" /\ acted' = "None"
    /\ UNCHANGED <<chip, driver, from_dark, fresh>>

Loop == Inputs \/ HostActivity \/ HostSettings \/ EndOfIteration

PanelNext ==
    \/ Press
    \/ Recognise
    \/ Lift
    \/ Expire
    \/ PulseEnds
    \/ Inputs
    \/ HostActivity
    \/ HostSettings
    \/ EndOfIteration

PanelSpec == PanelInit /\ [][PanelNext]_panelVars

\* The loop runs for ever, and the bus answers again and again.
FairPanelSpec ==
    /\ PanelSpec
    /\ WF_panelVars(Inputs)
    /\ WF_panelVars(EndOfIteration)
    /\ SF_panelVars(Inputs /\ finger_down' = (points > 0) /\ last_gesture' = gesture)

-----------------------------------------------------------------------------
(* Properties                                                              *)

PanelTypeOK ==
    /\ TypeOK
    /\ pc \in {"inputs", "rest"}
    /\ points \in {0, 1}
    /\ {gesture, last_gesture, acted} \subseteq Gestures \cup {"None"}
    /\ {irq, finger_down, from_dark, fresh} \subseteq BOOLEAN

\* A gesture acts at most once, however often its register is read while it
\* stands there (touch.rs last_gesture).
GestureActsOnce ==
    [][acted = "None" /\ acted' # "None" => fresh]_panelVars

\* A gesture acts on a screen at full brightness: one made while it is dim
\* lights it, and one that wakes it from off and is read late is dropped
\* (main.rs wake_from_off).
ActsOnLitScreen == acted # "None" => state = "Active"

\* A finger the driver has seen is let go of once it has left the glass, though
\* the interrupt is long over: otherwise the screen never dims again
\* (main.rs is_finger_down).
LiftIsSeen == (points = 0 /\ finger_down) ~> (points # 0 \/ ~ finger_down)

\* "If the screen was fully off, the first touch only wakes it": a touch that
\* found it dark, and that nothing else lit meanwhile, does nothing else (main.rs wake_from_off).
WakeTouchIsDropped ==
    [][acted = "None" /\ acted' # "None" => ~ from_dark]_panelVars
=============================================================================
