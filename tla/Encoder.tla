------------------------------- MODULE Encoder -------------------------------
(***************************************************************************)
(* The rotary encoder (firmware/src/encoder.rs) and its reader, the main   *)
(* loop (firmware/src/main.rs).  The knob has one contact per direction:   *)
(* a detent raises an edge on the contact of its direction, and for a      *)
(* while afterwards either contact may fire again (bounce, coupling).  The *)
(* GPIO latches an edge until the interrupt handler clears it; the handler *)
(* may be held back by a critical section.  Time is counted in ticks, and  *)
(* the handler sees it through a clock truncated to ClockMod values.       *)
(***************************************************************************)
EXTENDS Integers

CONSTANTS
    ClockMod,    \* 2^32 us, as the firmware truncates its clock
    Guard,       \* GUARD_US
    Bounce,      \* how long after a detent a contact may still fire
    Latency,     \* how long the interrupt may be held back
    Spacing,     \* the shortest time between two detents
    MaxDetents,  \* bound: detents turned
    MaxNoise     \* bound: spurious edges

ASSUME ClockAssumption ==
    /\ Guard \in Nat \ {0}
    /\ ClockMod \in Nat
    /\ ClockMod > Guard

\* What the guard is chosen for: longer than any bounce, shorter than the
\* detents of a hand, both with the handler's delay added.
ASSUME HandAssumption ==
    /\ Bounce \in Nat /\ Latency \in Nat /\ Spacing \in Nat
    /\ Bounce + Latency < Guard
    /\ Guard + Latency <= Spacing

ASSUME BoundAssumption == MaxDetents \in Nat /\ MaxNoise \in Nat

Channels == {"a", "b"}

\* Channel a counts up, channel b down.
Sign(ch) == IF ch = "a" THEN 1 ELSE -1

VARIABLES
    clock,       \* microseconds since boot, truncated to u32
    pending,     \* interrupt status bits of the two pins
    isr,         \* the handler: "idle", or the pin it looks at next
    now_us,      \* locals of the handler
    elapsed,
    count,       \* COUNT
    last_us,     \* LAST_COUNT_US
    loop,        \* the main loop: "get" or "act"
    seen,        \* its local `count`
    last_count,
    acted,       \* the sum of the deltas the loop has acted on
    (* The hand, and what the properties remember *)
    turned,      \* net detents turned
    detents,     \* detents turned, for the bound
    noise,       \* spurious edges, for the bound
    quiet,       \* ticks since the last detent, up to Spacing
    held,        \* ticks the interrupt has been held back
    since,       \* ticks since the last count, up to Guard
    pin_since,   \* ticks since the last count of each pin, up to Guard
    counted,     \* this interrupt has counted already
    excused      \* a detent was lost in one of the two known ways

handler == <<isr, now_us, elapsed>>
gate == <<count, last_us, since, pin_since>>
reader == <<loop, seen, last_count, acted>>
hand == <<turned, detents, noise, quiet>>
encoderVars == <<clock, pending, handler, gate, reader, hand, held, counted,
                 excused>>

\* Mutant: a plain difference.
PlainSub(x, y) == x - y

\* wrapping_sub
WrappingSub(x, y) == IF x >= y THEN x - y ELSE x - y + ClockMod

\* The encoder is set up after the display, long after the clock started.
EncoderInit ==
    /\ clock = Guard
    /\ pending = {}
    /\ isr = "idle" /\ now_us = 0 /\ elapsed = 0
    /\ count = 0 /\ last_us = 0
    /\ since = Guard /\ pin_since = [ch \in Channels |-> Guard]
    /\ loop = "get" /\ seen = 0 /\ last_count = 0 /\ acted = 0
    /\ turned = 0 /\ detents = 0 /\ noise = 0 /\ quiet = Spacing
    /\ held = 0 /\ counted = FALSE /\ excused = FALSE

-----------------------------------------------------------------------------
(* The hand and the contacts                                               *)

Detent(ch) ==
    /\ detents < MaxDetents
    /\ quiet = Spacing
    /\ pending' = pending \cup {ch}
    /\ turned' = turned + Sign(ch)
    /\ detents' = detents + 1
    /\ quiet' = 0
    /\ UNCHANGED <<clock, handler, gate, reader, noise, held, counted, excused>>

Spurious(ch) ==
    /\ noise < MaxNoise
    /\ quiet <= Bounce
    /\ pending' = pending \cup {ch}
    /\ noise' = noise + 1
    /\ UNCHANGED <<clock, handler, gate, reader, turned, detents, quiet, held,
                   counted, excused>>

\* A history of ticks, up to Guard.
Later(ticks) == IF ticks < Guard THEN ticks + 1 ELSE ticks

\* The body of the handler is short: no tick falls into it.
Tick ==
    /\ isr = "idle"
    /\ pending # {} => held < Latency
    /\ clock' = IF clock = ClockMod - 1 THEN 0 ELSE clock + 1
    /\ quiet' = IF quiet < Spacing THEN quiet + 1 ELSE quiet
    /\ since' = Later(since)
    /\ pin_since' = [ch \in Channels |-> Later(pin_since[ch])]
    /\ held' = IF pending = {} THEN 0 ELSE held + 1
    /\ UNCHANGED <<pending, handler, count, last_us, reader, turned, detents,
                   noise, counted, excused>>

-----------------------------------------------------------------------------
(* gpio_encoder_handler                                                    *)

\* The clock and the gate are read before either pin is looked at.  A detent
\* that meets a closed gate although nothing was counted for a whole Guard is
\* one the truncated clock hides.
Enter ==
    /\ isr = "idle"
    /\ pending # {}
    /\ isr' = "a"
    /\ now_us' = clock
    /\ elapsed' = WrappingSub(clock, last_us)
    /\ counted' = FALSE
    /\ held' = 0
    /\ excused' = (excused \/ (elapsed' < Guard /\ since = Guard))
    /\ UNCHANGED <<clock, pending, gate, reader, hand>>

\* Mutant: only the count is kept, not the time of it.
CountUntimed(ch) ==
    IF ch \in pending /\ elapsed >= Guard
       THEN /\ count' = count + Sign(ch)
            /\ UNCHANGED last_us
            /\ since' = 0 /\ pin_since' = [pin_since EXCEPT ![ch] = 0]
            /\ counted' = TRUE
            /\ excused' = (excused \/ counted)
       ELSE UNCHANGED <<gate, counted, excused>>

\* Mutant: the gate opens a tick late.
CountStrict(ch) ==
    IF ch \in pending /\ elapsed > Guard
       THEN /\ count' = count + Sign(ch)
            /\ last_us' = now_us
            /\ since' = 0 /\ pin_since' = [pin_since EXCEPT ![ch] = 0]
            /\ counted' = TRUE
            /\ excused' = (excused \/ counted)
       ELSE UNCHANGED <<gate, counted, excused>>

\* One pin: counted if it fired and the gate is open.  Both pins are measured
\* against the same `elapsed`, so the second is counted as well as the first.
Count(ch) ==
    IF ch \in pending /\ elapsed >= Guard
       THEN /\ count' = count + Sign(ch)
            /\ last_us' = now_us
            /\ since' = 0 /\ pin_since' = [pin_since EXCEPT ![ch] = 0]
            /\ counted' = TRUE
            /\ excused' = (excused \/ counted)
       ELSE UNCHANGED <<gate, counted, excused>>

PinA ==
    /\ isr = "a"
    /\ Count("a")
    /\ pending' = pending \ {"a"}
    /\ isr' = "b"
    /\ UNCHANGED <<clock, now_us, elapsed, reader, hand, held>>

PinB ==
    /\ isr = "b"
    /\ Count("b")
    /\ pending' = pending \ {"b"}
    /\ isr' = "idle"
    /\ UNCHANGED <<clock, now_us, elapsed, reader, hand, held>>

-----------------------------------------------------------------------------
(* The main loop                                                           *)

Get ==
    /\ loop = "get"
    /\ count # last_count
    /\ seen' = count
    /\ loop' = "act"
    /\ UNCHANGED <<clock, pending, handler, gate, last_count, acted, hand, held,
                   counted, excused>>

\* Mutant: the counter is read again after the delta was acted on.
ActRereads ==
    /\ loop = "act"
    /\ acted' = acted + (seen - last_count)
    /\ last_count' = count
    /\ loop' = "get"
    /\ UNCHANGED <<clock, pending, handler, gate, seen, hand, held, counted,
                   excused>>

Act ==
    /\ loop = "act"
    /\ acted' = acted + (seen - last_count)
    /\ last_count' = seen
    /\ loop' = "get"
    /\ UNCHANGED <<clock, pending, handler, gate, seen, hand, held, counted,
                   excused>>

-----------------------------------------------------------------------------

Handler == Enter \/ PinA \/ PinB
Loop == Get \/ Act

EncoderNext ==
    \/ \E ch \in Channels : Detent(ch) \/ Spurious(ch)
    \/ Tick
    \/ Enter \/ PinA \/ PinB
    \/ Get \/ Act

EncoderSpec == EncoderInit /\ [][EncoderNext]_encoderVars

\* The interrupt is enabled for good and the loop never stops; nobody has to
\* turn the knob.
FairEncoderSpec ==
    EncoderSpec /\ WF_encoderVars(Handler) /\ WF_encoderVars(Loop)

-----------------------------------------------------------------------------
(* Properties                                                              *)

\* Every variable keeps its type.
EncoderTypeOK ==
    /\ clock \in 0 .. ClockMod - 1
    /\ pending \subseteq Channels
    /\ isr \in {"idle", "a", "b"}
    /\ now_us \in 0 .. ClockMod - 1
    /\ elapsed \in 0 .. ClockMod - 1
    /\ count \in Int
    /\ last_us \in 0 .. ClockMod - 1
    /\ loop \in {"get", "act"}
    /\ seen \in Int
    /\ last_count \in Int
    /\ acted \in Int
    /\ turned \in Int
    /\ detents \in 0 .. MaxDetents
    /\ noise \in 0 .. MaxNoise
    /\ quiet \in 0 .. Spacing
    /\ held \in 0 .. Latency
    /\ since \in 0 .. Guard
    /\ pin_since \in [Channels -> 0 .. Guard]
    /\ counted \in BOOLEAN
    /\ excused \in BOOLEAN

\* No pin is counted twice within a Guard of real time, and no interrupt begins
\* to count within a Guard of the last count of either pin, wherever the
\* truncated clock stands (encoder.rs LAST_COUNT_US: "Same-channel bounce",
\* "wrapping_sub handles rollover correctly").  Between two pins of one interrupt
\* there is no such spacing: the code counts both, 0 us apart, against "same OR
\* opposite channel" (GUARD_US) and "Whichever channel fires first wins"
\* (gpio_encoder_handler).
GuardSpacing ==
    [][\A ch \in Channels :
          count' # count /\ isr = ch
              => /\ pin_since[ch] = Guard
                 /\ ~ counted => since = Guard]_encoderVars

\* Whenever no edge waits, the counter is the net number of detents turned: no
\* bounce and no coupled pulse was counted and no detent was lost.  Excepted is
\* the history after two cases in which the code breaks its comments: both pins
\* fired into one interrupt and were both counted (encoder.rs denies it), or the
\* clock came full circle and the guard took a detent for a bounce.
OneStepPerDetent ==
    isr = "idle" /\ pending = {} /\ ~ excused => count = turned

\* The loop acts on every detent in the end, though the handler counts while
\* it works (main.rs reads the counter once per iteration and keeps that copy).
StepsReachLoop == <>[](excused \/ acted = turned)
=============================================================================
