------------------------- MODULE FrontPanel_proofs -------------------------
(***************************************************************************)
(* What holds of the backlight for every counter width, every clock rate   *)
(* and every set of timeouts.  The front panel acts on the backlight       *)
(* through its own operations only, so all of it holds of the one as of    *)
(* the other; and its gestures act once and on a lit screen.               *)
(***************************************************************************)
EXTENDS FrontPanel, TLAPS

-----------------------------------------------------------------------------
(* The backlight                                                           *)

\* The idle time the code computes.
Idle == WrappingSub(loop_tick, last_activity_tick)

\* While the timeouts stay as they are an Active screen is dimmed on the very
\* tick dim_after, so what is idle beyond it has been spent in Dim.
DimsOnTime ==
    ~ retimed => /\ state = "Active" => Idle <= dim_after_ticks
                 /\ state = "Dim"    => Idle <= dim_after_ticks + in_dim

\* The wrapped idle time never exceeds the real one: without it a wrap of the
\* counter could dim a screen in use.
BacklightInv ==
    /\ TypeOK
    /\ DutyFollowsState
    /\ Idle <= quiet
    /\ DimsOnTime

\* Timeouts in ticks are at least one tick and fit the counter.
LEMMA TicksOfSecs ==
    ASSUME NEW s \in Secs
    PROVE  ToTicks(s) \in 1 .. Never
  <1>1. s \in Nat /\ s * TicksPerSec + s * TicksPerSec < Never
    BY SecsAssumption
  <1>2. Never \in Int
    BY TickAssumption DEF Never
  <1>3. s * TicksPerSec \in Nat
    BY <1>1, TickAssumption
  <1>4. s # 0 => s * TicksPerSec >= 1
    BY <1>1, TickAssumption
  <1>5. Never >= 1
    BY <1>1, <1>2, <1>3
  <1> QED
    BY <1>1, <1>2, <1>3, <1>4, <1>5 DEF ToTicks

\* The counter has at least a few bits.
LEMMA TickModLarge == TickMod \in Nat /\ TickMod >= 3 /\ Never = TickMod - 1
  <1>1. PICK s \in Secs : s # 0
    BY DefaultsAssumption
  <1>2. s \in Nat /\ s * TicksPerSec + s * TicksPerSec < Never
    BY SecsAssumption
  <1>3. s * TicksPerSec >= 1 /\ s * TicksPerSec \in Nat
    BY <1>1, <1>2, TickAssumption
  <1> QED
    BY <1>2, <1>3, TickAssumption DEF Never

\* The wrapping difference is 0 on the tick of an activity, 1 on the next, and
\* grows by one a tick until it wraps to 0.
LEMMA WrappingSubSteps ==
    ASSUME NEW t \in Ticks, NEW u \in Ticks
    PROVE  /\ WrappingInc(t) \in Ticks
           /\ WrappingSub(t, u) \in Ticks
           /\ WrappingSub(t, t) = 0
           /\ WrappingSub(WrappingInc(t), t) = 1
           /\ WrappingSub(WrappingInc(t), u) \in {WrappingSub(t, u) + 1, 0}
  BY TickModLarge DEF WrappingInc, WrappingSub, Ticks

\* The duty of a state lies within its bounds.
LEMMA DutyRange ==
    ASSUME NEW pct \in 1 .. 100
    PROVE  /\ DutyOf("Active", pct) = pct
           /\ DutyOf("Dim", pct) \in 5 .. 100
           /\ DutyOf("Off", pct) = 0
  BY SMT DEF DutyOf, Larger

\* A transition leaves the duty in step with the state.
LEMMA SetStateDuty ==
    ASSUME TypeOK, DutyFollowsState, NEW s \in {"Active", "Dim", "Off"},
           SetState(s), active_pct' = active_pct
    PROVE  /\ state' = s
           /\ duty' \in 0 .. 100
           /\ DutyFollowsState'
  <1>1. CASE s = state
    BY <1>1 DEF SetState, TypeOK, DutyFollowsState
  <1>2. CASE s # state
    <2>1. duty' = DutyOf(s, active_pct) /\ state' = s
      BY <1>2 DEF SetState
    <2>2. active_pct \in 1 .. 100
      BY DEF TypeOK
    <2>3. /\ DutyOf("Active", active_pct) = active_pct
          /\ DutyOf("Dim", active_pct) \in 5 .. 100
          /\ DutyOf("Off", active_pct) = 0
      BY ONLY <2>2, DutyRange
    <2> QED
      BY <2>1, <2>2, <2>3 DEF DutyFollowsState
  <1> QED
    BY <1>1, <1>2

-----------------------------------------------------------------------------

LEMMA InitInv == Init => BacklightInv
  <1> SUFFICES ASSUME Init PROVE BacklightInv
    OBVIOUS
  <1> USE DEF Init
  <1>1. /\ dim_after_ticks \in 1 .. Never
        /\ off_after_ticks \in 1 .. Never
    BY TicksOfSecs, DefaultsAssumption
  <1>2. TypeOK
    <2>1. retimed \in BOOLEAN
      OBVIOUS
    <2>2. /\ loop_tick = 0 /\ last_activity_tick = 0 /\ quiet = 0 /\ in_dim = 0
          /\ state = "Active" /\ active_pct = 100 /\ duty = 100
      BY DEF DefaultPct
    <2> QED
      BY ONLY <1>1, <2>1, <2>2, TickModLarge DEF TypeOK, Ticks
  <1>3. DutyFollowsState
    BY DEF DutyFollowsState, DefaultPct
  <1>4. Idle = 0
    BY <1>2, WrappingSubSteps DEF Idle, TypeOK
  <1>5. Idle <= quiet /\ DimsOnTime
    BY <1>1, <1>4, TickModLarge DEF DimsOnTime
  <1> QED
    BY <1>2, <1>3, <1>5 DEF BacklightInv

LEMMA NotifyInv ==
    ASSUME BacklightInv, NotifyActivity \/ WakeFromOff
    PROVE  BacklightInv'
  <1> USE DEF Notify
  <1>1. /\ state' = "Active"
        /\ duty' \in 0 .. 100
        /\ DutyFollowsState'
    BY SetStateDuty DEF NotifyActivity, WakeFromOff, settings, BacklightInv
  <1>2. /\ loop_tick' \in Ticks
        /\ last_activity_tick' = loop_tick
        /\ \/ loop_tick' = loop_tick /\ quiet' = 0
           \/ loop_tick' = WrappingInc(loop_tick) /\ quiet' = 1
        /\ in_dim' = 0 /\ retimed' = FALSE
        /\ UNCHANGED settings
    BY WrappingSubSteps DEF NotifyActivity, WakeFromOff, BacklightInv, TypeOK
  <1>3. Idle' = quiet' /\ quiet' \in {0, 1}
    BY <1>2, WrappingSubSteps DEF Idle, BacklightInv, TypeOK
  <1>4. TypeOK'
    <2>1. retimed' \in BOOLEAN
      BY <1>2
    <2>2. quiet' \in 0 .. TickMod /\ in_dim' \in 0 .. TickMod
      BY <1>2, TickModLarge
    <2>3. last_activity_tick' \in Ticks /\ UNCHANGED <<active_pct, dim_after_ticks, off_after_ticks>>
      BY <1>2 DEF settings, BacklightInv, TypeOK
    <2> QED
      BY <1>1, <1>2, <2>1, <2>2, <2>3 DEF BacklightInv, TypeOK
  <1>5. Idle' <= quiet'
    BY <1>3
  <1>6. DimsOnTime'
    <2>1. dim_after_ticks' \in 1 .. Never
      BY <1>4 DEF TypeOK
    <2>2. Idle' <= dim_after_ticks'
      BY ONLY <1>3, <2>1, TickModLarge
    <2> QED
      BY <1>1, <2>2 DEF DimsOnTime
  <1> QED
    BY <1>1, <1>4, <1>5, <1>6 DEF BacklightInv

LEMMA SetBacklightInv ==
    ASSUME BacklightInv, NEW pct \in Pcts, NEW dim \in Secs, NEW off \in Secs,
           SetBacklight(pct, dim, off)
    PROVE  BacklightInv'
  <1> USE DEF SetBacklight
  <1>1. pct \in 0 .. 255
    BY PctsAssumption
  <1>2. /\ active_pct' \in 1 .. 100
        /\ duty' = IF state = "Active" THEN active_pct' ELSE duty
    BY <1>1 DEF SetActivePct
  <1>3. TypeOK'
    BY <1>2, TicksOfSecs DEF SetTimeouts, BacklightInv, TypeOK
  <1>4. DutyFollowsState'
    BY <1>2 DEF BacklightInv, DutyFollowsState
  <1>5. Idle' <= quiet'
    BY DEF BacklightInv, Idle
  <1>6. DimsOnTime'
    BY DEF BacklightInv, DimsOnTime, Idle
  <1> QED
    BY <1>3, <1>4, <1>5, <1>6 DEF BacklightInv

LEMMA TickInv ==
    ASSUME BacklightInv, Tick
    PROVE  BacklightInv'
  <1> USE DEF Tick
  <1>1. AfterTick(Idle) \in {"Active", "Dim", "Off"}
    BY DEF AfterTick, BacklightInv, TypeOK
  <1>2. /\ state' = AfterTick(Idle)
        /\ duty' \in 0 .. 100
        /\ DutyFollowsState'
    BY <1>1, SetStateDuty DEF Idle, settings, BacklightInv
  <1>3. Capped(quiet + 1) \in 0 .. TickMod /\ in_dim' \in 0 .. TickMod
    BY TickModLarge DEF Capped, BacklightInv, TypeOK
  <1>4. TypeOK'
    BY <1>1, <1>2, <1>3, TickModLarge, WrappingSubSteps
       DEF settings, BacklightInv, TypeOK
  <1>5. Idle' <= quiet'
    <2>1. Idle' \in {Idle + 1, 0} /\ Idle' \in Ticks /\ Idle \in Ticks
      BY <1>4, WrappingSubSteps DEF Idle, BacklightInv, TypeOK
    <2>2. quiet' = IF quiet + 1 >= TickMod THEN TickMod ELSE quiet + 1
      BY DEF Capped
    <2> QED
      BY <2>1, <2>2, TickModLarge DEF BacklightInv, TypeOK, Ticks
  <1>6. DimsOnTime'
    <2> SUFFICES ASSUME ~ retimed
                 PROVE  /\ state' = "Active" => Idle' <= dim_after_ticks
                        /\ state' = "Dim" => Idle' <= dim_after_ticks + in_dim'
      BY DEF settings, DimsOnTime
    <2>1. Idle' \in {Idle + 1, 0} /\ Idle' \in 0 .. TickMod - 1 /\ Idle \in 0 .. TickMod - 1
      BY <1>4, WrappingSubSteps DEF Idle, BacklightInv, TypeOK, Ticks
    <2>2. dim_after_ticks \in Nat \ {0} /\ in_dim \in Nat /\ TickMod \in Nat
      BY TickModLarge DEF BacklightInv, TypeOK
    <2>3. CASE state = "Active"
      <3>1. Idle <= dim_after_ticks
        BY <2>3 DEF BacklightInv, DimsOnTime
      <3>2. state' = IF Idle >= dim_after_ticks THEN "Dim" ELSE "Active"
        BY <1>2, <2>3 DEF AfterTick
      <3>3. state' = "Dim" => in_dim' = 1
        BY <2>3
      <3> QED
        BY <2>1, <2>2, <3>1, <3>2, <3>3
    <2>4. CASE state = "Dim"
      <3>1. Idle <= dim_after_ticks + in_dim
        BY <2>4 DEF BacklightInv, DimsOnTime
      <3>2. state' \in {"Dim", "Off"}
        BY <1>2, <2>4 DEF AfterTick
      <3>3. state' = "Dim" => in_dim' = IF in_dim + 1 >= TickMod THEN TickMod ELSE in_dim + 1
        BY <2>4 DEF Capped
      <3> QED
        BY <2>1, <2>2, <3>1, <3>2, <3>3
    <2>5. CASE state = "Off"
      BY <1>2, <2>5 DEF AfterTick
    <2> QED
      BY <2>3, <2>4, <2>5 DEF BacklightInv, TypeOK
  <1> QED
    BY <1>2, <1>4, <1>5, <1>6 DEF BacklightInv

LEMMA NextInv == BacklightInv /\ [Next]_vars => BacklightInv'
  <1> SUFFICES ASSUME BacklightInv, [Next]_vars
               PROVE  BacklightInv'
    OBVIOUS
  <1>1. CASE NotifyActivity \/ WakeFromOff
    BY <1>1, NotifyInv
  <1>2. ASSUME NEW pct \in Pcts, NEW dim \in Secs, NEW off \in Secs,
               SetBacklight(pct, dim, off)
        PROVE  BacklightInv'
    BY <1>2, SetBacklightInv
  <1>3. CASE Tick
    BY <1>3, TickInv
  <1>4. CASE UNCHANGED vars
    BY <1>4 DEF vars, settings, history, BacklightInv, TypeOK, DutyFollowsState,
                DimsOnTime, Idle
  <1> QED
    BY <1>1, <1>2, <1>3, <1>4 DEF Next

\* A step that dims or darkens the screen is a Tick, at an idle time that has
\* reached the timeouts.
LEMMA Transitions ==
    ASSUME BacklightInv, [Next]_vars
    PROVE  /\ state = "Active" /\ state' = "Dim" => Idle >= dim_after_ticks
           /\ state # "Off" /\ state' = "Off" =>
                 state = "Dim" /\ Idle >= dim_after_ticks + off_after_ticks
  <1>1. CASE Tick
    <2>1. state' = AfterTick(Idle)
      BY <1>1 DEF Tick, SetState, Idle
    <2>2. Idle \in Ticks /\ Idle \in Int
      BY WrappingSubSteps, TickModLarge DEF Idle, BacklightInv, TypeOK, Ticks
    <2>3. dim_after_ticks \in Nat /\ off_after_ticks \in Nat /\ off_after_ticks >= 1
      BY TickModLarge DEF BacklightInv, TypeOK
    <2>4. state \in {"Active", "Dim", "Off"}
      BY DEF BacklightInv, TypeOK
    <2>5. CASE state = "Active"
      BY <2>1, <2>5 DEF AfterTick
    <2>6. CASE state = "Dim"
      BY <2>1, <2>2, <2>3, <2>6 DEF AfterTick, SaturatingSub
    <2> QED
      BY <2>4, <2>5, <2>6
  <1>2. CASE ~ Tick
    BY <1>2 DEF Next, NotifyActivity, WakeFromOff, Notify, SetState,
                SetBacklight, vars
  <1> QED
    BY <1>1, <1>2

-----------------------------------------------------------------------------

THEOREM BacklightInvariance == Spec => []BacklightInv
  BY InitInv, NextInv, PTL DEF Spec

\* The types, and with them the clamp of the brightness and the width of every
\* counter.
THEOREM BacklightTyping == Spec => []TypeOK
  <1>1. BacklightInv => TypeOK
    BY DEF BacklightInv
  <1> QED
    BY <1>1, BacklightInvariance, PTL

\* The channel is dark exactly when the state is Off, and at the configured
\* brightness when it is Active (backlight.rs set_state, set_active_pct).
THEOREM DutySafety == Spec => []DutyFollowsState
  <1>1. BacklightInv => DutyFollowsState
    BY DEF BacklightInv
  <1> QED
    BY <1>1, BacklightInvariance, PTL

\* An enabled timeout never dims the screen early, across any wrap of the tick
\* counter and any change of the timeouts; a disabled one only after a whole
\* turn of the counter (backlight.rs tick).
THEOREM DimSafety == Spec => DimNotEarly
  <1>1. BacklightInv /\ [Next]_vars =>
          [state = "Active" /\ state' = "Dim"
             => IF dim_after_ticks # Never THEN quiet >= dim_after_ticks
                                           ELSE quiet >= TickMod - 1]_vars
    <2> SUFFICES ASSUME BacklightInv, [Next]_vars,
                        state = "Active", state' = "Dim"
                 PROVE  quiet >= dim_after_ticks
      BY DEF Never
    <2>1. Idle >= dim_after_ticks
      BY Transitions
    <2>2. Idle \in Int /\ dim_after_ticks \in Int /\ quiet \in Int /\ Idle <= quiet
      BY WrappingSubSteps, TickModLarge DEF Idle, BacklightInv, TypeOK, Ticks
    <2> QED
      BY <2>1, <2>2
  <1> QED
    BY <1>1, BacklightInvariance, PTL DEF Spec, DimNotEarly

\* Nor does it go dark early: off_after is counted from the dim transition, as
\* long as the timeouts do not change (backlight.rs tick).
THEOREM OffSafety == Spec => OffNotEarly
  <1>1. BacklightInv /\ [Next]_vars =>
          [state # "Off" /\ state' = "Off"
             => /\ quiet >= dim_after_ticks + off_after_ticks
                /\ ~ retimed => in_dim >= off_after_ticks]_vars
    <2> SUFFICES ASSUME BacklightInv, [Next]_vars,
                        state # "Off", state' = "Off"
                 PROVE  /\ quiet >= dim_after_ticks + off_after_ticks
                        /\ ~ retimed => in_dim >= off_after_ticks
      OBVIOUS
    <2>1. state = "Dim" /\ Idle >= dim_after_ticks + off_after_ticks
      BY Transitions
    <2>2. /\ Idle \in Int /\ quiet \in Int /\ in_dim \in Int /\ Idle <= quiet
          /\ dim_after_ticks \in Int /\ off_after_ticks \in Int
      BY WrappingSubSteps, TickModLarge DEF Idle, BacklightInv, TypeOK, Ticks
    <2>3. ~ retimed => Idle <= dim_after_ticks + in_dim
      BY <2>1 DEF BacklightInv, DimsOnTime
    <2> QED
      BY <2>1, <2>2, <2>3
  <1> QED
    BY <1>1, BacklightInvariance, PTL DEF Spec, OffNotEarly

\* A timeout of 0 s keeps the screen from going dark for good, although
\* u32::MAX is a tick count like any other: the idle time left after dim_after
\* stays below it.
THEOREM OffDisabledSafety == Spec => OffDisabled
  <1>1. BacklightInv /\ [Next]_vars =>
          [state # "Off" /\ state' = "Off" => off_after_ticks # Never]_vars
    <2> SUFFICES ASSUME BacklightInv, [Next]_vars,
                        state # "Off", state' = "Off"
                 PROVE  off_after_ticks # Never
      OBVIOUS
    <2>1. Idle >= dim_after_ticks + off_after_ticks
      BY Transitions
    <2>2. Idle \in 0 .. Never /\ dim_after_ticks \in 1 .. Never
      BY WrappingSubSteps, TickModLarge DEF Idle, BacklightInv, TypeOK, Ticks
    <2> QED
      BY <2>1, <2>2, TickModLarge
  <1> QED
    BY <1>1, BacklightInvariance, PTL DEF Spec, OffDisabled

-----------------------------------------------------------------------------
(* The front panel                                                         *)

\* What the chip shows and the driver has not read is still to be acted upon.
UnreadIsFresh == gesture \notin {"None", last_gesture} => fresh

\* Neither conjunct needs the other; no type is needed.
PanelInv == UnreadIsFresh /\ ActsOnLitScreen

\* A pass over encoder and touch is one step of the backlight, or none.
LEMMA ReactIsBacklight ==
    ASSUME NEW turned, NEW finger, NEW event, React(turned, finger, event)
    PROVE  NotifyActivity \/ WakeFromOff \/ UNCHANGED vars
  BY DEF React

\* The screen is lit by every pass that acts.
LEMMA ReactActsLit ==
    ASSUME NEW turned, NEW finger, NEW event, React(turned, finger, event)
    PROVE  /\ acted' # "None" => state' = "Active"
           /\ acted' \in {"None", event}
           /\ fresh' = (fresh /\ acted' = "None")
  <1>1. NotifyActivity \/ WakeFromOff => state' = "Active"
    BY DEF NotifyActivity, WakeFromOff, Notify, SetState
  <1> QED
    BY <1>1 DEF React

\* An event is a gesture that has not been read before, and reading it is
\* remembered.
LEMMA InputsCases ==
    ASSUME Inputs
    PROVE  \E turned, finger, event :
              /\ React(turned, finger, event)
              /\ \/ last_gesture' = gesture /\ event \in {"None", gesture}
                 \/ last_gesture' = last_gesture /\ event = "None"
              /\ event # "None" => gesture \notin {"None", last_gesture}
              /\ gesture' = gesture
  <1>1. PICK turned \in BOOLEAN :
          IF Polled
             THEN \E answer \in Answers :
                     /\ finger_down' = FingerAfter(answer)
                     /\ last_gesture' = IF answer = "registers" THEN gesture
                                                                ELSE last_gesture
                     /\ React(turned, finger_down', EventOf(answer))
             ELSE /\ UNCHANGED driver
                  /\ React(turned, finger_down, "None")
    BY DEF Inputs
  <1>2. gesture' = gesture
    BY DEF Inputs, chip
  <1>3. CASE Polled
    <2>1. PICK answer \in Answers :
            /\ last_gesture' = IF answer = "registers" THEN gesture ELSE last_gesture
            /\ React(turned, finger_down', EventOf(answer))
      BY <1>1, <1>3
    <2>2. /\ EventOf(answer) # "None" => gesture \notin {"None", last_gesture}
          /\ EventOf(answer) # "None" => answer = "registers" /\ EventOf(answer) = gesture
      BY DEF EventOf
    <2> QED
      BY <1>2, <2>1, <2>2
  <1>4. CASE ~ Polled
    BY <1>1, <1>2, <1>4 DEF driver
  <1> QED
    BY <1>3, <1>4

\* Every step of the panel is a step of the backlight, or leaves it alone.
LEMMA StepIsBacklight == [PanelNext]_panelVars => [Next]_vars
  <1> SUFFICES ASSUME [PanelNext]_panelVars PROVE [Next]_vars
    OBVIOUS
  <1>1. CASE Press \/ Recognise \/ Lift \/ Expire \/ PulseEnds
    BY <1>1 DEF Press, Recognise, Lift, Expire, PulseEnds, ChipSteps
  <1>2. CASE Inputs
    <2>1. PICK turned, finger, event : React(turned, finger, event)
      BY <1>2, InputsCases
    <2> QED
      BY <2>1, ReactIsBacklight DEF Next
  <1>3. CASE HostActivity
    BY <1>3 DEF HostActivity, Next
  <1>4. CASE HostSettings
    BY <1>4 DEF HostSettings, Next
  <1>5. CASE EndOfIteration
    BY <1>5 DEF EndOfIteration, Next
  <1>6. CASE UNCHANGED panelVars
    BY <1>6 DEF panelVars
  <1> QED
    BY <1>1, <1>2, <1>3, <1>4, <1>5, <1>6 DEF PanelNext

LEMMA PanelInitInv == PanelInit => PanelInv
  BY DEF PanelInit, PanelInv, UnreadIsFresh, ActsOnLitScreen

LEMMA PanelNextInv == PanelInv /\ [PanelNext]_panelVars => PanelInv'
  <1> SUFFICES ASSUME PanelInv, [PanelNext]_panelVars PROVE PanelInv'
    OBVIOUS
  <1> USE DEF PanelInv, UnreadIsFresh, ActsOnLitScreen
  <1>1. CASE Press \/ Recognise \/ Lift \/ Expire \/ PulseEnds
    <2>1. UNCHANGED <<last_gesture, acted, state>>
      BY <1>1 DEF Press, Recognise, Lift, Expire, PulseEnds, ChipSteps, driver, vars
    <2>2. gesture' = "None" \/ fresh' = TRUE \/ (UNCHANGED <<gesture, fresh>>)
      BY <1>1 DEF Press, Recognise, Lift, Expire, PulseEnds
    <2> QED
      BY <2>1, <2>2
  <1>2. CASE Inputs
    <2>1. PICK turned, finger, event :
            /\ React(turned, finger, event)
            /\ \/ last_gesture' = gesture /\ event \in {"None", gesture}
               \/ last_gesture' = last_gesture /\ event = "None"
            /\ gesture' = gesture
      BY <1>2, InputsCases
    <2>2. /\ acted' # "None" => state' = "Active"
          /\ acted' \in {"None", event}
          /\ fresh' = (fresh /\ acted' = "None")
      BY <2>1, ReactActsLit
    <2> QED
      BY <2>1, <2>2
  <1>3. CASE HostActivity
    BY <1>3 DEF HostActivity, NotifyActivity, Notify, SetState, chip, driver
  <1>4. CASE HostSettings
    BY <1>4 DEF HostSettings, SetBacklight, chip, driver
  <1>5. CASE EndOfIteration
    BY <1>5 DEF EndOfIteration, chip, driver
  <1>6. CASE UNCHANGED panelVars
    BY <1>6 DEF panelVars, vars, chip, driver
  <1> QED
    BY <1>1, <1>2, <1>3, <1>4, <1>5, <1>6 DEF PanelNext

\* The invariant behind the theorems below.
THEOREM PanelInvariance == PanelSpec => []PanelInv
  BY PanelInitInv, PanelNextInv, PTL DEF PanelSpec

\* What is proved of the backlight carries over to the panel.
LEMMA PanelIsBacklight == PanelSpec => Spec
  <1>1. PanelInit => Init
    BY DEF PanelInit
  <1> QED
    BY <1>1, StepIsBacklight, PTL DEF PanelSpec, Spec

\* With encoder, touch and messages around it the screen never dims early.
THEOREM PanelDimSafety == PanelSpec => DimNotEarly
  BY PanelIsBacklight, DimSafety, PTL

\* Nor does it go dark early (backlight.rs tick; main.rs, the calls to it).
THEOREM PanelOffSafety == PanelSpec => OffNotEarly
  BY PanelIsBacklight, OffSafety, PTL

\* No gesture acts on a dark screen (main.rs wake_from_off).
THEOREM LitSafety == PanelSpec => []ActsOnLitScreen
  <1>1. PanelInv => ActsOnLitScreen
    BY DEF PanelInv
  <1> QED
    BY <1>1, PanelInvariance, PTL

\* However often the register is read, a gesture acts once (touch.rs
\* last_gesture).
THEOREM ActsOnceSafety == PanelSpec => GestureActsOnce
  <1>1. PanelInv /\ [PanelNext]_panelVars
          => [acted = "None" /\ acted' # "None" => fresh]_panelVars
    <2> SUFFICES ASSUME PanelInv, [PanelNext]_panelVars,
                        acted = "None", acted' # "None"
                 PROVE  fresh
      OBVIOUS
    <2>1. CASE Inputs
      <3>1. PICK turned, finger, event :
              /\ React(turned, finger, event)
              /\ event # "None" => gesture \notin {"None", last_gesture}
        BY <2>1, InputsCases
      <3>2. event # "None"
        BY <3>1, ReactActsLit
      <3> QED
        BY <3>1, <3>2 DEF PanelInv, UnreadIsFresh
    <2>2. CASE ~ Inputs
      <3>1. acted' \in {acted, "None"}
        BY <2>2 DEF PanelNext, Press, Recognise, Lift, Expire, PulseEnds, ChipSteps,
                    HostActivity, HostSettings, EndOfIteration, panelVars
      <3> QED
        BY <3>1
    <2> QED
      BY <2>1, <2>2
  <1> QED
    BY <1>1, PanelInvariance, PTL DEF PanelSpec, GestureActsOnce

-----------------------------------------------------------------------------

\* The panel's own part of its type.
PanelTypes ==
    /\ pc \in {"inputs", "rest"}
    /\ points \in {0, 1}
    /\ {gesture, last_gesture, acted} \subseteq Gestures \cup {"None"}
    /\ {irq, finger_down, from_dark, fresh} \subseteq BOOLEAN

\* What the driver reports is something the chip had in a register.
LEMMA InputsTypes ==
    ASSUME PanelTypes, Inputs
    PROVE  PanelTypes'
  <1>1. PICK turned \in BOOLEAN :
          IF Polled
             THEN \E answer \in Answers :
                     /\ finger_down' = FingerAfter(answer)
                     /\ last_gesture' = IF answer = "registers" THEN gesture
                                                                ELSE last_gesture
                     /\ React(turned, finger_down', EventOf(answer))
             ELSE /\ UNCHANGED driver
                  /\ React(turned, finger_down, "None")
    BY DEF Inputs
  <1>2. UNCHANGED <<points, gesture, irq>>
    BY DEF Inputs, chip
  <1>3. ASSUME NEW finger, NEW event \in Gestures \cup {"None"},
               React(turned, finger, event)
        PROVE  /\ acted' \in Gestures \cup {"None"}
               /\ pc' \in {"inputs", "rest"}
               /\ fresh' \in BOOLEAN /\ from_dark' \in BOOLEAN
    BY <1>3 DEF React
  <1>4. CASE Polled
    <2>1. PICK answer \in Answers :
             /\ finger_down' = FingerAfter(answer)
             /\ last_gesture' = IF answer = "registers" THEN gesture ELSE last_gesture
             /\ React(turned, finger_down', EventOf(answer))
      BY <1>1, <1>4
    <2>2. EventOf(answer) \in Gestures \cup {"None"}
      BY DEF EventOf, PanelTypes
    <2>3. finger_down' \in BOOLEAN
      <3>1. finger_down \in BOOLEAN /\ (points > 0) \in BOOLEAN
        BY DEF PanelTypes
      <3> QED
        BY <2>1, <3>1 DEF FingerAfter
    <2>4. /\ acted' \in Gestures \cup {"None"}
          /\ pc' \in {"inputs", "rest"}
          /\ fresh' \in BOOLEAN /\ from_dark' \in BOOLEAN
      BY <1>3, <2>1, <2>2
    <2> QED
      BY <1>2, <2>1, <2>3, <2>4 DEF PanelTypes
  <1>5. CASE ~ Polled
    <2>1. /\ acted' \in Gestures \cup {"None"}
          /\ pc' \in {"inputs", "rest"}
          /\ fresh' \in BOOLEAN /\ from_dark' \in BOOLEAN
      BY <1>1, <1>3, <1>5
    <2> QED
      BY <1>1, <1>2, <1>5, <2>1 DEF PanelTypes, driver
  <1> QED
    BY <1>4, <1>5

LEMMA PanelTypesStep ==
    ASSUME PanelTypes, [PanelNext]_panelVars
    PROVE  PanelTypes'
  <1> USE DEF PanelTypes, chip, driver
  <1>1. CASE Press \/ Recognise \/ Lift \/ Expire \/ PulseEnds
    BY <1>1 DEF Press, Recognise, Lift, Expire, PulseEnds, ChipSteps
  <1>2. CASE Inputs
    BY <1>2, InputsTypes
  <1>3. CASE HostActivity
    BY <1>3 DEF HostActivity
  <1>4. CASE HostSettings
    BY <1>4 DEF HostSettings
  <1>5. CASE EndOfIteration
    BY <1>5 DEF EndOfIteration
  <1>6. CASE UNCHANGED panelVars
    BY <1>6 DEF panelVars
  <1> QED
    BY <1>1, <1>2, <1>3, <1>4, <1>5, <1>6 DEF PanelNext

\* The types of the panel: the backlight's own, the chip's
\* and the driver's by themselves (touch.rs, main.rs).
THEOREM PanelTyping == PanelSpec => []PanelTypeOK
  <1>1. PanelInit => PanelTypes
    BY DEF PanelInit, PanelTypes
  <1>2. PanelTypes /\ [PanelNext]_panelVars => PanelTypes'
    BY PanelTypesStep
  <1>3. PanelSpec => []TypeOK
    BY PanelIsBacklight, BacklightTyping, PTL
  <1>4. PanelTypes /\ TypeOK => PanelTypeOK
    BY DEF PanelTypes, PanelTypeOK
  <1> QED
    BY <1>1, <1>2, <1>3, <1>4, PTL DEF PanelSpec
=============================================================================
