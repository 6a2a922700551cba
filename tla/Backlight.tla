----------------------------- MODULE Backlight -----------------------------
(***************************************************************************)
(* The idle-driven backlight controller (firmware/src/backlight.rs) and    *)
(* the calls the main loop makes to it.                                    *)
(*                                                                         *)
(* `loop_tick` is the main loop's wrapping counter.  Tick is the end of an *)
(* iteration together with the increment that begins the next one, so that *)
(* every other action sees the tick of the iteration it belongs to.        *)
(***************************************************************************)
EXTENDS Integers

CONSTANTS
    TickMod,      \* 2^32 in the code: one more than u32::MAX
    TicksPerSec,  \* 333 in the code
    Secs,         \* timeouts the companion may push; 0 stands for "never"
    Pcts,         \* brightness values a SetBacklight may carry
    DefaultDim, DefaultOff   \* 30 s and 90 s in the code

Never == TickMod - 1   \* u32::MAX

\* 65535 s twice over are far from u32::MAX ticks.
ASSUME TickAssumption == TickMod \in Nat /\ TicksPerSec \in Nat \ {0}
ASSUME SecsAssumption ==
    Secs \subseteq Nat /\
    \A s, t \in Secs : s * TicksPerSec + t * TicksPerSec < Never
ASSUME DefaultsAssumption == {DefaultDim, DefaultOff} \subseteq Secs \ {0}
ASSUME PctsAssumption == Pcts \subseteq 0 .. 255

DefaultPct == 100

VARIABLES
    loop_tick,
    state,               \* "Active", "Dim" or "Off"
    last_activity_tick,
    active_pct,
    dim_after_ticks,
    off_after_ticks,
    duty,                \* what the LEDC channel was last set to
    quiet,               \* history: ticks since the last activity, up to TickMod
    in_dim,              \* history: ticks since the dim transition, up to TickMod
    retimed              \* history: the timeouts changed since the last activity

settings == <<active_pct, dim_after_ticks, off_after_ticks>>
history == <<quiet, in_dim, retimed>>
vars == <<loop_tick, state, last_activity_tick, settings, duty, history>>

Ticks == 0 .. TickMod - 1

WrappingInc(t) == IF t = TickMod - 1 THEN 0 ELSE t + 1
SaturatingSub(t, u) == IF t >= u THEN t - u ELSE 0

\* Mutant: the operands the wrong way round past the wrap.
WrappingSubSwapped(t, u) == IF t >= u THEN t - u ELSE u - t

WrappingSub(t, u) == IF t >= u THEN t - u ELSE t - u + TickMod

Capped(n) == IF n >= TickMod THEN TickMod ELSE n

Larger(m, n) == IF m >= n THEN m ELSE n

\* A timeout of 0 s is stored as u32::MAX.
ToTicks(secs) == IF secs = 0 THEN Never ELSE secs * TicksPerSec

DutyOf(s, pct) ==
    CASE s = "Active" -> pct
      [] s = "Dim"    -> Larger(pct \div 4, 5)
      [] OTHER        -> 0

Init ==
    /\ loop_tick = 0
    /\ state = "Active"
    /\ last_activity_tick = 0
    /\ active_pct = DefaultPct
    /\ dim_after_ticks = ToTicks(DefaultDim)
    /\ off_after_ticks = ToTicks(DefaultOff)
    /\ duty = DefaultPct
    /\ quiet = 0 /\ in_dim = 0 /\ retimed = FALSE

-----------------------------------------------------------------------------

\* The channel is written on a transition only.
SetState(s) ==
    /\ state' = s
    /\ duty' = IF s = state THEN duty ELSE DutyOf(s, active_pct)

Notify ==
    /\ last_activity_tick' = loop_tick
    /\ SetState("Active")
    /\ in_dim' = 0 /\ retimed' = FALSE
    /\ UNCHANGED settings

\* An encoder step, a finger on the glass, or a message that counts as one.
NotifyActivity ==
    /\ Notify
    /\ quiet' = 0
    /\ UNCHANGED loop_tick

\* Mutant: only a dark screen is lit.
WakeFromOffOnly ==
    IF state = "Off"
       THEN Notify /\ loop_tick' = WrappingInc(loop_tick) /\ quiet' = 1
       ELSE UNCHANGED vars

\* A touch event.  One that woke the screen is dropped with the rest of the
\* iteration, Tick included: `continue`.
WakeFromOff ==
    /\ Notify
    /\ IF state = "Off"
          THEN loop_tick' = WrappingInc(loop_tick) /\ quiet' = 1
          ELSE loop_tick' = loop_tick /\ quiet' = 0

\* Mutant: the channel is written whatever the state.
SetActivePctAlways(pct) ==
    /\ active_pct' = IF pct < 1 THEN 1 ELSE IF pct > 100 THEN 100 ELSE pct
    /\ duty' = active_pct'

\* Mutant: the clamp is left out.
SetActivePctRaw(pct) ==
    /\ active_pct' = pct
    /\ duty' = IF state = "Active" THEN active_pct' ELSE duty

\* Outside Active the new brightness waits for the next wake.
SetActivePct(pct) ==
    /\ active_pct' = IF pct < 1 THEN 1 ELSE IF pct > 100 THEN 100 ELSE pct
    /\ duty' = IF state = "Active" THEN active_pct' ELSE duty

SetTimeouts(dim, off) ==
    /\ dim_after_ticks' = ToTicks(dim)
    /\ off_after_ticks' = ToTicks(off)

\* The handler of a SetBacklight message.  It is no activity.
SetBacklight(pct, dim, off) ==
    /\ SetActivePct(pct)
    /\ SetTimeouts(dim, off)
    /\ retimed' = (retimed \/ ~ UNCHANGED <<dim_after_ticks, off_after_ticks>>)
    /\ UNCHANGED <<loop_tick, state, last_activity_tick, quiet, in_dim>>

\* Mutant: Off is scheduled from the last activity, without dim_after.
AfterTickFromActivity(idle) ==
    CASE state = "Active" /\ idle >= dim_after_ticks -> "Dim"
      [] state = "Dim" /\ idle >= off_after_ticks    -> "Off"
      [] OTHER                                       -> state

AfterTick(idle) ==
    CASE state = "Active" /\ idle >= dim_after_ticks -> "Dim"
      [] state = "Dim" /\ SaturatingSub(idle, dim_after_ticks) >= off_after_ticks
                                                     -> "Off"
      [] OTHER                                       -> state

Tick ==
    /\ SetState(AfterTick(WrappingSub(loop_tick, last_activity_tick)))
    /\ loop_tick' = WrappingInc(loop_tick)
    /\ quiet' = Capped(quiet + 1)
    /\ in_dim' = CASE state' # "Dim"   -> 0
                   [] state = "Active" -> 1
                   [] OTHER            -> Capped(in_dim + 1)
    /\ UNCHANGED <<last_activity_tick, settings, retimed>>

Next ==
    \/ NotifyActivity
    \/ WakeFromOff
    \/ \E pct \in Pcts, dim, off \in Secs : SetBacklight(pct, dim, off)
    \/ Tick

Spec == Init /\ [][Next]_vars

-----------------------------------------------------------------------------
(* Properties                                                              *)

TypeOK ==
    /\ loop_tick \in Ticks
    /\ state \in {"Active", "Dim", "Off"}
    /\ last_activity_tick \in Ticks
    /\ active_pct \in 1 .. 100
    /\ dim_after_ticks \in 1 .. Never
    /\ off_after_ticks \in 1 .. Never
    /\ duty \in 0 .. 100
    /\ quiet \in 0 .. TickMod
    /\ in_dim \in 0 .. TickMod
    /\ retimed \in BOOLEAN

\* The screen is at its brightness when Active and dark exactly when Off,
\* although brightness changes and transitions write the channel
\* independently (backlight.rs set_active_pct, set_state).
DutyFollowsState ==
    /\ state = "Active" => duty = active_pct
    /\ state = "Off" <=> duty = 0

\* An enabled timeout never dims the screen before dim_after ticks without
\* activity, however the tick counter wraps and the timeouts change
\* (backlight.rs tick).  A disabled one ("0 disables that transition",
\* backlight.rs set_timeouts; messages.rs SetBacklight) does dim it in the
\* code, once the idle time is u32::MAX: after a whole turn of the counter,
\* some 149 days, and no sooner.
DimNotEarly ==
    [][state = "Active" /\ state' = "Dim"
          => IF dim_after_ticks # Never THEN quiet >= dim_after_ticks
                                        ELSE quiet >= TickMod - 1]_vars

\* Nor does the screen go dark before dim_after plus off_after ticks without
\* activity, nor before off_after ticks from the dim transition ("Additional
\* ticks of idle (after the dim transition)", backlight.rs off_after_ticks;
\* messages.rs SetBacklight).  The second half is not the code's once the
\* timeouts have changed since the last activity: Off may then follow Dim at
\* once.
OffNotEarly ==
    [][state # "Off" /\ state' = "Off"
          => /\ quiet >= dim_after_ticks + off_after_ticks
             /\ ~ retimed => in_dim >= off_after_ticks]_vars

\* off_after_secs = 0 keeps the screen on for good (messages.rs SetBacklight).
OffDisabled ==
    [][state # "Off" /\ state' = "Off" => off_after_ticks # Never]_vars

\* Left alone with both timeouts enabled, the screen ends up dark
\* (backlight.rs tick).
IdleGoesDark ==
    <>[][Tick]_vars /\ <>[](dim_after_ticks # Never /\ off_after_ticks # Never)
        => <>[](state = "Off")
=============================================================================
