--------------------------- MODULE Encoder_proofs ---------------------------
(***************************************************************************)
(* Proofs about Encoder, for every clock, guard, latency and hand that     *)
(* keep the module's assumptions.                                          *)
(***************************************************************************)
EXTENDS Encoder, TLAPS

\* What the gate knows: until a Guard has passed since the last count, the
\* truncated clock tells the true time since then.
GateOK ==
    /\ since < Guard => WrappingSub(clock, last_us) = since
    /\ isr # "idle" => now_us = clock /\ held = 0
    /\ pending = {} => held = 0
    /\ isr = "a" => ~ counted
    /\ isr # "idle" /\ elapsed >= Guard /\ ~ counted => since = Guard

\* The gate that an interrupt finds open has been closed to either pin for a
\* Guard, and stays so for the pin it has not looked at.
PinsOK ==
    /\ \A ch \in Channels : since <= pin_since[ch]
    /\ isr # "idle" /\ elapsed >= Guard => pin_since["b"] = Guard
    /\ isr = "a" /\ elapsed >= Guard => pin_since["a"] = Guard

GateInv == EncoderTypeOK /\ GateOK

\* Every detent is counted; what is still pending is noise, and the gate stays
\* closed until it has been handled.
Settled ==
    /\ count = turned
    /\ since <= quiet
    /\ quiet <= since + Latency \/ since = Guard
    /\ isr = "idle" /\ pending # {} => since <= Bounce + held
    /\ isr # "idle" => since < Guard
    /\ isr = "a" => elapsed < Guard
    /\ isr = "b" /\ "a" \in pending => since <= Bounce
    /\ isr = "b" => elapsed < Guard \/ counted

\* The last detent waits for its interrupt, and the gate is open.
Owed ==
    \E ch \in Channels :
        /\ turned = count + Sign(ch)
        /\ ch \in pending
        /\ since = Guard
        /\ quiet <= Latency
        /\ isr = "idle" => quiet <= held
        /\ isr # "idle" => elapsed >= Guard /\ ~ counted
        /\ isr = "b" => ch = "b"

\* The handler is about to count a second pin.
Doubled == isr = "b" /\ counted /\ "b" \in pending /\ elapsed >= Guard

StepInv == GateInv /\ (excused \/ Settled \/ Owed \/ Doubled)

-----------------------------------------------------------------------------

\* Every variable keeps its type (encoder.rs, main.rs), and the gate tells the
\* truth as long as it is closed.
LEMMA GateInvInit == EncoderInit => GateInv
<1> SUFFICES ASSUME EncoderInit PROVE GateInv
    OBVIOUS
<1> USE ClockAssumption, HandAssumption, BoundAssumption DEF EncoderInit
<1>1. EncoderTypeOK
    <2>1. /\ clock \in 0 .. ClockMod - 1 /\ now_us \in 0 .. ClockMod - 1
          /\ elapsed \in 0 .. ClockMod - 1 /\ last_us \in 0 .. ClockMod - 1
        OBVIOUS
    <2>2. /\ count \in Int /\ seen \in Int /\ last_count \in Int
          /\ acted \in Int /\ turned \in Int
        OBVIOUS
    <2>3. /\ detents \in 0 .. MaxDetents /\ noise \in 0 .. MaxNoise
          /\ quiet \in 0 .. Spacing /\ held \in 0 .. Latency
          /\ since \in 0 .. Guard
        OBVIOUS
    <2>4. counted \in BOOLEAN /\ excused \in BOOLEAN BY Zenon
    <2>5. pending \subseteq Channels BY DEF Channels
    <2>6. pin_since \in [Channels -> 0 .. Guard]
        BY <2>3
    <2> QED BY <2>1, <2>2, <2>3, <2>4, <2>5, <2>6, Zenon DEF EncoderTypeOK
<1>2. GateOK BY DEF GateOK
<1> QED BY <1>1, <1>2 DEF GateInv

\* The same across every step.
LEMMA GateInvStep == GateInv /\ [EncoderNext]_encoderVars => GateInv'
<1> SUFFICES ASSUME GateInv, [EncoderNext]_encoderVars PROVE GateInv'
    OBVIOUS
<1> USE ClockAssumption, HandAssumption, BoundAssumption
        DEF GateInv, EncoderTypeOK, GateOK, Channels
<1>1. ASSUME NEW ch \in Channels, Detent(ch) PROVE GateInv'
    BY <1>1 DEF Detent, handler, gate, reader, Sign
<1>2. ASSUME NEW ch \in Channels, Spurious(ch) PROVE GateInv'
    BY <1>2 DEF Spurious, handler, gate, reader
<1>3. CASE Tick
    <2>1. pin_since' \in [Channels -> 0 .. Guard]
        <3>1. \A ch \in Channels : Later(pin_since[ch]) \in 0 .. Guard
            BY DEF Later
        <3> QED BY <1>3, <3>1 DEF Tick
    <2>2. since' = IF since < Guard THEN since + 1 ELSE since
        BY <1>3 DEF Tick, Later
    <2>3. EncoderTypeOK'
        BY <1>3, <2>1, <2>2 DEF Tick, handler, reader
    <2>4. GateOK'
        BY <1>3, <2>2 DEF Tick, handler, reader, WrappingSub
    <2> QED BY <2>3, <2>4
<1>4. CASE Enter
    <2>1. elapsed' \in 0 .. ClockMod - 1 BY <1>4 DEF Enter, WrappingSub
    <2>2. elapsed' >= Guard => since' = Guard BY <1>4 DEF Enter, gate
    <2>4. excused' \in BOOLEAN BY <1>4, Zenon DEF Enter
    <2>5. counted' \in BOOLEAN BY <1>4, Zenon DEF Enter
    <2>6. held' \in 0 .. Latency BY <1>4 DEF Enter
    <2>3. EncoderTypeOK'
        BY <1>4, <2>1, <2>4, <2>5, <2>6, Zenon DEF Enter, gate, reader, hand
    <2> QED BY <1>4, <2>2, <2>3 DEF Enter, gate
<1>5. ASSUME NEW ch \in Channels, Count(ch), isr = ch
      PROVE  /\ count' \in Int /\ last_us' \in 0 .. ClockMod - 1
             /\ since' \in 0 .. Guard
             /\ counted' \in BOOLEAN /\ excused' \in BOOLEAN
             /\ since' < Guard => WrappingSub(clock, last_us') = since'
             /\ elapsed >= Guard /\ ~ counted' => since' = Guard
             /\ pin_since' \in [Channels -> 0 .. Guard]
    <2>1. counted' \in BOOLEAN /\ excused' \in BOOLEAN
        BY <1>5, Zenon DEF Count
    <2>4. pin_since' \in [Channels -> 0 .. Guard]
        BY <1>5 DEF Count, gate
    <2>2. CASE ch \in pending /\ elapsed >= Guard
        BY <1>5, <2>1, <2>2, <2>4 DEF Count, WrappingSub, Sign
    <2>3. CASE ~ (ch \in pending /\ elapsed >= Guard)
        BY <1>5, <2>1, <2>3, <2>4 DEF Count, gate
    <2> QED BY <2>2, <2>3
<1>6. CASE PinA
    <2>1. EncoderTypeOK' BY <1>5, <1>6 DEF PinA, reader, hand
    <2> QED BY <1>5, <1>6, <2>1 DEF PinA, WrappingSub
<1>10. CASE PinB
    <2>1. EncoderTypeOK' BY <1>5, <1>10 DEF PinB, reader, hand
    <2> QED BY <1>5, <1>10, <2>1 DEF PinB, WrappingSub
<1>7. CASE Get
    BY <1>7 DEF Get, handler, gate, hand
<1>8. CASE Act
    BY <1>8 DEF Act, handler, gate, hand
<1>9. CASE UNCHANGED encoderVars
    BY <1>9 DEF encoderVars, handler, gate, reader, hand
<1> QED BY <1>1, <1>2, <1>3, <1>4, <1>6, <1>7, <1>8, <1>9, <1>10
    DEF EncoderNext

-----------------------------------------------------------------------------

\* Every variable keeps its type (encoder.rs, main.rs).
THEOREM EncoderTypeSafety == EncoderSpec => []EncoderTypeOK
<1>1. EncoderInit => GateInv BY GateInvInit
<1>2. GateInv /\ [EncoderNext]_encoderVars => GateInv' BY GateInvStep
<1>3. GateInv => EncoderTypeOK BY DEF GateInv
<1> QED BY <1>1, <1>2, <1>3, PTL DEF EncoderSpec

\* The pins are as long without a count as the gate says.
LEMMA PinsStep == GateInv /\ GateInv' /\ PinsOK /\ [EncoderNext]_encoderVars => PinsOK'
<1> SUFFICES ASSUME GateInv, GateInv', PinsOK, [EncoderNext]_encoderVars
             PROVE  PinsOK'
    OBVIOUS
<1>1. /\ since \in Nat /\ Guard \in Nat
      /\ pin_since \in [Channels -> 0 .. Guard]
      /\ pin_since' \in [Channels -> 0 .. Guard]
    BY ClockAssumption DEF GateInv, EncoderTypeOK
<1>2. CASE Tick
    <2>1. /\ since' = Later(since) /\ isr' = "idle"
          /\ \A ch \in Channels : pin_since'[ch] = Later(pin_since[ch])
        BY <1>2 DEF Tick, handler
    <2>2. \A ch \in Channels : Later(since) <= Later(pin_since[ch])
        BY <1>1 DEF Later, PinsOK
    <2> QED BY <2>1, <2>2 DEF PinsOK
<1>3. CASE Enter
    <2>1. elapsed' >= Guard => since = Guard
        BY <1>3 DEF Enter, gate, GateInv, GateOK
    <2>2. since' = since /\ pin_since' = pin_since
        BY <1>3 DEF Enter, gate
    <2>3. elapsed' >= Guard => \A ch \in Channels : pin_since[ch] = Guard
        BY <1>1, <2>1 DEF PinsOK
    <2> QED BY <2>2, <2>3 DEF PinsOK, Channels
<1>4. ASSUME NEW ch \in Channels, Count(ch)
      PROVE  /\ \A other \in Channels : since' <= pin_since'[other]
             /\ pin_since'["b"] = pin_since["b"] \/ ch = "b"
    <2>1. CASE UNCHANGED gate
        BY <2>1 DEF gate, PinsOK
    <2>2. CASE since' = 0 /\ pin_since' = [pin_since EXCEPT ![ch] = 0]
        BY <1>1, <2>2 DEF Channels
    <2> QED BY <1>4, <2>1, <2>2 DEF Count
<1>5. CASE PinA
    BY <1>4, <1>5 DEF PinA, PinsOK, Channels
<1>6. CASE PinB
    BY <1>4, <1>6 DEF PinB, PinsOK, Channels
<1>7. CASE UNCHANGED <<handler, gate>>
    BY <1>7 DEF handler, gate, PinsOK
<1> QED
    BY <1>2, <1>3, <1>5, <1>6, <1>7
    DEF EncoderNext, Detent, Spurious, Get, Act, encoderVars

\* No pin is counted twice within a GUARD_US, and no interrupt begins to count
\* within one of the last count of either (LAST_COUNT_US and wrapping_sub),
\* wherever the truncated clock stands.
THEOREM GuardSafety == EncoderSpec => GuardSpacing
<1>1. GateInv /\ PinsOK /\ [EncoderNext]_encoderVars
        => [\A ch \in Channels :
               count' # count /\ isr = ch
                  => /\ pin_since[ch] = Guard
                     /\ ~ counted => since = Guard]_encoderVars
    <2> SUFFICES ASSUME GateInv, PinsOK, EncoderNext, count' # count,
                        NEW ch \in Channels, isr = ch
                 PROVE  pin_since[ch] = Guard /\ (~ counted => since = Guard)
        OBVIOUS
    <2>1. PinA \/ PinB
        BY DEF EncoderNext, Detent, Spurious, Tick, Enter, Get, Act, gate
    <2>2. elapsed >= Guard
        BY <2>1 DEF PinA, PinB, Count, gate
    <2> QED BY <2>1, <2>2 DEF PinA, PinB, PinsOK, GateInv, GateOK
<1>2. EncoderInit => GateInv /\ PinsOK
    <2>1. EncoderInit => PinsOK
        BY ClockAssumption DEF EncoderInit, PinsOK
    <2> QED BY <2>1, GateInvInit
<1>3. GateInv /\ PinsOK /\ [EncoderNext]_encoderVars => GateInv' /\ PinsOK'
    BY GateInvStep, PinsStep
<1> QED BY <1>1, <1>2, <1>3, PTL DEF EncoderSpec, GuardSpacing

-----------------------------------------------------------------------------

\* A detent or a spurious edge keeps the account (encoder.rs, the pins).
LEMMA HandKeepsAccount ==
    ASSUME StepInv, GateInv', NEW ch \in Channels, Detent(ch) \/ Spurious(ch)
    PROVE  StepInv'
<1> USE ClockAssumption, HandAssumption
<1> USE DEF StepInv, GateInv, EncoderTypeOK, GateOK, Channels
<1>1. CASE excused
    BY <1>1 DEF Detent, Spurious
<1>2. CASE Settled /\ Detent(ch)
    <2>1. since = Guard BY <1>2 DEF Settled, Detent
    <2>2. isr = "idle" /\ pending = {} BY <1>2, <2>1 DEF Settled
    <2>3. turned' = count' + Sign(ch) BY <1>2 DEF Settled, Detent, gate, Sign
    <2> QED BY <1>2, <2>1, <2>2, <2>3 DEF Owed, Detent, handler, gate
<1>3. CASE Settled /\ Spurious(ch)
    BY <1>3 DEF Settled, Spurious, handler, gate
<1>4. CASE Owed /\ Detent(ch)
    BY <1>4 DEF Owed, Detent
<1>5. CASE Owed /\ Spurious(ch)
    BY <1>5 DEF Owed, Spurious, handler, gate
<1>6. CASE Doubled
    BY <1>6 DEF Doubled, Detent, Spurious, handler, gate
<1> QED BY <1>1, <1>2, <1>3, <1>4, <1>5, <1>6

\* So do the passing of time and the handler's entry.
LEMMA EntryKeepsAccount ==
    ASSUME StepInv, GateInv', Tick \/ Enter
    PROVE  StepInv'
<1> USE ClockAssumption, HandAssumption
<1> USE DEF StepInv, GateInv, EncoderTypeOK, GateOK, Channels
<1>1. CASE excused
    BY <1>1 DEF Tick, Enter
<1>2. CASE Settled /\ Tick
    <2>4. since' = IF since < Guard THEN since + 1 ELSE since
        BY <1>2 DEF Tick, Later
    <2>1. since' <= quiet'
        BY <1>2, <2>4 DEF Settled, Tick
    <2>2. quiet' <= since' + Latency \/ since' = Guard
        BY <1>2, <2>4 DEF Settled, Tick
    <2>3. pending' # {} => since' <= Bounce + held'
        <3>1. CASE pending = {} BY <1>2, <3>1 DEF Tick
        <3>2. CASE pending # {}
            <4>1. since <= Bounce + held /\ held < Latency
                BY <1>2, <3>2 DEF Settled, Tick
            <4>2. since < Guard BY <4>1
            <4>3. since' = since + 1 BY <2>4, <4>2
            <4>4. held' = held + 1 BY <1>2, <3>2 DEF Tick
            <4> QED BY <4>1, <4>3, <4>4
        <3> QED BY <3>1, <3>2
    <2> QED BY <1>2, <2>1, <2>2, <2>3 DEF Settled, Tick, handler
<1>3. CASE Settled /\ Enter
    <2>1. since < Guard BY <1>3 DEF Settled, Enter
    <2> QED BY <1>3, <2>1 DEF Settled, Enter, gate, hand
<1>4. CASE Owed /\ Tick
    BY <1>4 DEF Owed, Tick, Later, handler
<1>5. CASE Owed /\ Enter
    <2>1. CASE elapsed' < Guard
        BY <1>5, <2>1 DEF Owed, Enter
    <2>2. CASE elapsed' >= Guard
        BY <1>5, <2>2 DEF Owed, Enter, gate, hand
    <2> QED BY <2>1, <2>2
<1>6. CASE Doubled
    BY <1>6 DEF Doubled, Tick, Enter
<1> QED BY <1>1, <1>2, <1>3, <1>4, <1>5, <1>6

\* So does either pin's branch of gpio_encoder_handler.
LEMMA PinsKeepAccount ==
    ASSUME StepInv, GateInv', PinA \/ PinB
    PROVE  StepInv'
<1> USE ClockAssumption, HandAssumption
<1> USE DEF StepInv, GateInv, EncoderTypeOK, GateOK, Channels
<1>1. CASE excused
    BY <1>1 DEF PinA, PinB, Count, gate
<1>2. CASE Settled /\ PinA
    <2>1. UNCHANGED <<count, last_us, since, counted, excused>>
        BY <1>2 DEF Settled, PinA, Count, gate
    <2> QED BY <1>2, <2>1 DEF Settled, PinA, hand
<1>3. CASE Settled /\ PinB
    <2>1. CASE elapsed >= Guard /\ "b" \in pending
        BY <1>3, <2>1 DEF Settled, PinB, Count
    <2>2. CASE ~ (elapsed >= Guard /\ "b" \in pending)
        <3>1. UNCHANGED <<count, last_us, since, counted, excused>>
            BY <1>3, <2>2 DEF PinB, Count, gate
        <3>2. pending' # {} => "a" \in pending
            BY <1>3 DEF PinB
        <3> QED BY <1>3, <3>1, <3>2 DEF Settled, PinB, hand
    <2> QED BY <2>1, <2>2
<1>4. CASE Owed /\ PinA
    <2>1. PICK ch \in Channels : turned = count + Sign(ch) /\ ch \in pending
        BY <1>4 DEF Owed
    <2>2. CASE "a" \notin pending
        BY <1>4, <2>2 DEF Owed, PinA, Count, gate, hand, Sign
    <2>3. CASE "a" \in pending /\ "b" \notin pending
        BY <1>4, <2>1, <2>3 DEF Owed, Settled, PinA, Count, gate, hand, Sign
    <2>4. CASE "a" \in pending /\ "b" \in pending
        BY <1>4, <2>4 DEF Owed, Doubled, PinA, Count, gate, hand
    <2> QED BY <2>2, <2>3, <2>4
<1>5. CASE Owed /\ PinB
    BY <1>5 DEF Owed, Settled, PinB, Count, gate, hand, Sign
<1>6. CASE Doubled
    BY <1>6 DEF Doubled, PinA, PinB, Count
<1> QED BY <1>1, <1>2, <1>3, <1>4, <1>5, <1>6

\* The counter is the net number of detents whenever no edge waits: the guard
\* is longer than any bounce and shorter than the detents of a hand, so nothing
\* else is counted and nothing is lost but in the two excused ways.
THEOREM DetentSafety == EncoderSpec => []OneStepPerDetent
<1>1. EncoderInit => StepInv
    BY GateInvInit, HandAssumption, ClockAssumption
    DEF EncoderInit, StepInv, Settled
<1>2. StepInv /\ [EncoderNext]_encoderVars => StepInv'
    <2> SUFFICES ASSUME StepInv, [EncoderNext]_encoderVars PROVE StepInv'
        OBVIOUS
    <2>1. GateInv' BY GateInvStep DEF StepInv
    <2>2. CASE \E ch \in Channels : Detent(ch) \/ Spurious(ch)
        BY <2>1, <2>2, HandKeepsAccount
    <2>3. CASE Tick \/ Enter
        BY <2>1, <2>3, EntryKeepsAccount
    <2>4. CASE PinA \/ PinB
        BY <2>1, <2>4, PinsKeepAccount
    <2>5. CASE Get \/ Act
        BY <2>1, <2>5
        DEF StepInv, Settled, Owed, Doubled, Get, Act, handler, gate, hand
    <2>6. CASE UNCHANGED encoderVars
        BY <2>1, <2>6
        DEF StepInv, Settled, Owed, Doubled, encoderVars, handler, gate, hand
    <2> QED BY <2>2, <2>3, <2>4, <2>5, <2>6 DEF EncoderNext
<1>3. StepInv => OneStepPerDetent
    BY DEF StepInv, Settled, Owed, Doubled, OneStepPerDetent
<1> QED BY <1>1, <1>2, <1>3, PTL DEF EncoderSpec
=============================================================================
