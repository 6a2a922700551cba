# A verification project for rusty-esp-knob

rusty-esp-knob is a volume knob with a round touch screen: `no_std` firmware for
an ESP32-S3, a Windows tray program that owns the audio mixer, and a protocol
crate both use. This directory holds TLA+ models of it, translated from the Rust
sources, TLC configurations that check them on small instances, and proofs that
TLAPS checks for all instances.

## 1. Inventory

| Part | Source | State | Operations | What makes it correct | Modelled in |
|---|---|---|---|---|---|
| Firmware session | `firmware/src/main.rs` 529-688, 842-971 | app list, selected app, carousel index, icon held, volume and mute shown, `ready_sent` | one handler per host message, encoder, swipes, tap, loss of the host | index, selection, list, icon and values shown agree after any sequence of them | KnobDevice |
| Drawing | `firmware/src/main.rs` (all of the loop), `sh8601/` | frame buffer, panel, `needs_flush`, overlay | drawing functions, `flush`, `flush_rows`, `draw_volume_delta` | the panel shows the frame buffer, the frame buffer the session | Screen |
| Backlight | `firmware/src/backlight.rs` | Active/Dim/Off, last activity, brightness, timeouts | `notify_activity`, `wake_from_off`, `set_*`, `tick` | never early, across the wrap of the tick counter; never dark when disabled; dark in the end | Backlight |
| Touch | `firmware/src/touch.rs`, `main.rs` 586-688 | last gesture, finger presence | `read`, gating on IRQ, wake handling | a gesture acts once; a wake touch does nothing else; a lift is seen | FrontPanel |
| Encoder | `firmware/src/encoder.rs`, `main.rs` 560-585 | count, guard timestamp | interrupt handler, `get` | one step for each detent, none for a bounce | Encoder |
| USB transport | `firmware/src/usb_serial.rs` | decoder, statistics | `poll`, `send` | never blocks; a frame cut short spoils no more than its neighbour | KnobSystem |
| WiFi transport | `firmware/src/wifi_tcp.rs`, `main.rs` 690-837 | four states, decoder, IP, timers | `poll`, `send`, `take_event` | every frame is handled; reconnects; sessions do not mix | WifiTcp |
| Credentials | `firmware/src/nvs_config.rs` | one flash record | `load`, `save` | what is loaded was saved, as a whole | NvsConfig |
| Codec | `protocol/src/codec.rs` | decode buffer | `encode`, `push`, `next_frame` | every whole valid frame comes out once and in order | Codec |
| Companion worker | `companion/src/worker.rs` | start-up list, cached volumes, mutes, icons, timers, pending wait | `run`, `wait_for_ready`, `send_and_wait`, main loop, refresh, `run_wifi` | knob and mixer agree; every wait ends; every selection is answered | Companion, Provisioning |
| Mixer access | `companion/src/audio.rs` | the OS's audio sessions | `enumerate`, `set_volume`, `set_mute` | external; other programs use it too | Companion, KnobSystem |
| Tray and configuration | `companion/src/tray_app.rs`, `config.rs` | live configuration, file, dirty flag | menu handlers, `load`, `save`, `save_wifi_ip` | no setting is lost; a dialog is told the truth | Provisioning |
| Haptics, icons, pins, command line, vendored crates | `haptic.rs`, `icons.rs`, `board.rs`, companion `main.rs`, `esp-hal-patched`, `esp-wifi-patched` | registers, pixels | effects, conversions | not behaviour over time | section 7 |

**How the parts interact.** The firmware is one loop (`main.rs` 560-1002) of about
3 ms: encoder, touch, WiFi, USB messages until none is left, disconnect, flush,
battery, backlight tick. Its only concurrency is the encoder's interrupt. The
companion has a tray thread, a thread per provisioning dialog, and a worker thread;
they share a stop flag, a command channel, the atomics of `BacklightShared` and the
configuration file. The two programs exchange COBS frames. The firmware
acknowledges every message but a few; the worker uses the Acks as flow control in
some places and lets them pass in others. That asymmetry is where most of the
hard behaviour is.

**What is hard.** Acks without identity; user input that arrives while the worker
waits for something else; state held twice (list and screen, frame buffer and
panel, mixer and cache, menu and file); restarts of either end on wires that still
carry the last one's traffic; power lost inside a flash write; a list refresh that
compares with the wrong list; counters that wrap; settings that change under a
running timer; interrupt pulses too short to be seen; the order of two calls in
one iteration. `PROJECT.json` lists each under "hazards" at its line, with the
properties that watch it or the reason none does.

## 2. Modules

    KnobMessages ── KnobDevice ──┬── Screen ── MCScreen, Screen_proofs
          │              │       └── KnobDevice_proofs
          │              └──┐
          └── Companion ────┴── KnobSystem ── MCKnobSystem, KnobSystem_proofs
    Backlight ── FrontPanel ── MCFrontPanel, FrontPanel_proofs
    Encoder ── MCEncoder, Encoder_proofs
    Codec ── WifiTcp ── MCWifiTcp, WifiTcp_proofs
    CredentialStore .. NvsConfig ── Provisioning ── MCProvisioning, Provisioning_proofs
                           └── NvsConfig_proofs

A line is EXTENDS, the dotted one an INSTANCE with a refinement mapping;
Screen_proofs and KnobSystem_proofs also extend KnobDevice_proofs. Two
refinements are stated as properties, model-checked and proved:

| Property | Detailed | Abstract | Mapping |
|---|---|---|---|
| `ImplementsDevice` | KnobSystem | KnobDevice | the session's variables as they are |
| `ImplementsStore` | NvsConfig, Provisioning | CredentialStore | `stored` is what `load` makes of the flash, `Reading` what it makes of a whole record |

That Screen takes steps of KnobDevice and FrontPanel steps of Backlight follows
from how the modules are built; `ScreenIsDevice` and `PanelIsBacklight` are lemmas
that carry the invariants of the one to the other and claim nothing of the code.

**KnobMessages** has the messages of `messages.rs` that the volume session uses
and the operators on an app list. An app is its process id; names and pixels are
dropped, so `SetAppIcon` carries the id alone; 0..100 % becomes a few levels.

**KnobDevice** is the firmware's session, an open system: any message may come at
any time. One action per arm of the `match` (`HandleSetAppList`, ...), plus
`Turn`, `SwipeLeft`, `SwipeRight` and `Disconnect`. `current_icon` holds the id
whose pixels are in the buffer. The USB and the WiFi arms of the source make the
same changes to this state.

**Screen** adds what is drawn of it. `frame` is the frame buffer, as the last thing
drawn in each place; `panel` is what the display shows in eight rows, one in every
band that some flush may leave out. `stats` is the debug overlay, which blacks its
band from edge to edge and with it both ends of the arc (rows 248 to 269): over
the arc when `draw_rx_stats` came last, under it once the arc is drawn again. `stage` is how far the iteration of the main
loop has come, so drawing and flushing happen in the order of the source: encoder,
hold, gesture, WiFi event, messages, disconnect, flush, battery. The levels 0..4
put the end of the 270 degree arc at both ends, half way up both sides and at the
top, so that `DeltaRows` meets each of its cases. A touch that only wakes the
screen leaves the iteration with whatever flush is due. Three ways to draw
something that no flush sends are in the code, and the history variable `unsent`
says when they have happened: a `SetVolume` for the selected app flushes the rows
of the arc and clears `needs_flush` although another drawing of that iteration is
waiting for it; an arc is drawn from a value (`standalone_value` after a
session, `main.rs` 574) that is not where the arc is; and a volume change draws
the ends of the arc over the overlay's black bar in rows that its flush leaves out.
With the overlay on, the next iteration flushes everything again.

**Companion** is the worker thread over USB. `pc` names the place it blocks at:
draining, greeting, waiting for an Ack, in `read`, taking frames from the decoder,
or in the tail of the loop. `plan` is the list of messages still to be sent with
`send_and_wait`, its head already in flight. A read takes any part of what has
arrived, as a 256-byte chunk may. `due` says which timers have run out: the tail
does the heartbeat and the refresh at any time they are due, and both are due
after a read timeout. The timeouts of the waits (3 s, 5 s) fire only when no
answer can come any more: the device answers within milliseconds.

**KnobSystem** joins both by two FIFO wires and adds the user, the mixer, the
tray's settings and faults: `WorkerExits` may cut the frame being written (`Cut`:
`ReceiveGlued` reads the next frame as its continuation and loses both),
`LoseFrame` drops one that fails the CRC, `LoseHost` is the 30 s disconnect. While
no worker reads, what the device sends fills its FIFO until a frame is given up in
the middle (`FifoFull`); the next worker's `Drain` throws it away. A scenario is a
record of how often each kind of outside event may occur (`user`, `mixer`, `exit`,
`loss`) and whether the user is `calm`; `budget` is what is left of it.

**Backlight** has an action per method, on a counter modulo `TickMod`. Three
variables are history, which the code does not keep: `quiet`, the real time since
the last activity; `in_dim`, the real time since the dim transition; and `retimed`,
that the timeouts have changed since the last activity.

**FrontPanel** is the first half of the loop (encoder and touch) on top of the
backlight, with the finger and the CST816 around it. One action, `Inputs`, is
everything from the encoder to the end of the gesture's `match`; the chip changes
its registers between iterations; the bus may fail or answer as a sleeping chip.

**Encoder** splits the interrupt handler where it can be overtaken: `Enter` reads
the clock and the guard, `PinA` and `PinB` look at a pin each and clear it. An edge
that comes in between is latched. The clock is the truncated one; `since`, the real
time since the last count, is history. A detent raises an edge on its direction's
contact, and for `Bounce` ticks either contact may fire again (bounce, coupling);
a critical section may hold the handler back for `Latency` ticks. The main loop
takes its copy of the counter in `Get` and acts on the difference in `Act`, with
the handler running in between. Further history: `pin_since`, the same per pin;
`counted`, that this interrupt has counted a pin already; and `excused`, that one of
the two cases has occurred in which the code does not keep its comments: both pins
in one interrupt are measured against the same `elapsed` and both counted, so that
a step and a coupled pulse cancel (the first should win: `encoder.rs` 22, 88-89);
and a detent a full turn of the truncated clock after the last count is taken for
a bounce (`encoder.rs` 19 says the difference handles a rollover correctly, 39-40
that no steps are missed).

**Codec** is the framing and the streaming decoder. A stream is a sequence of
pieces: the terminator, and for each message what `encode` writes before it. That
is all COBS and the CRC are for: a frame that is not exactly one such piece yields
nothing. Fragments, lone terminators and overflow are therefore in the model, the
arithmetic of COBS and CRC-8 is not. (KnobSystem uses whole frames and its own,
simpler decoder, because USB loses them whole or glues them.)

**WifiTcp** is the WiFi transport and the block of the main loop that drives it.
One `Iteration` is the flags, the pending event, one `poll` in whichever state it
is, and the answer to at most one message, as in the source; between two iterations
the radio, the DHCP server and a sequence of clients do what they like: write,
close their side inside a frame, reset, fall silent. `tx` is what the present
client was sent. The radio's state and the socket's are smoltcp's and esp-wifi's
as the code asks for them.

**NvsConfig** is the flash record, byte by byte: magic, NUL-padded name, NUL-padded
password, each in UTF-8. `save` erases and then writes the bytes from the first to
the last, and may stop before any of them, because the call fails or the power
goes. `load` makes one character of each byte (`b as char`, `nvs_config.rs` 52-57):
an ASCII byte is itself, a higher one is a character of Latin-1 (`Latin1`) that takes
two bytes of a string exactly as long as its field. A text in ASCII therefore reads
back; any other comes back as another text, or does not fit and makes the record
read as none. `Fits` is that rule, and nothing else tells a torn record from a
whole one: an erased byte is read as U+00FF, so a field that is not written to its
end does not fit. **CredentialStore** is the promise: what one whole record reads
as (`Reading`), or none.

**Provisioning** is settings and credentials on their way from the tray to the
knob. The tray's thread and the worker's each read, truncate and write the one
file, as separate steps; the worker swaps the dirty flag, takes the snapshot and
pushes it as three; a dialog waits for a reply that may be dropped, replaced,
refused or late; over WiFi a broken session is connected again, over USB it ends
the worker; the knob saves what it gets, tries the first credentials since its
boot at once and answers REBOOT to later ones; its power may go at any moment, the
companion may end inside a save, and the link may break while the knob runs on
(`LinkBreaks`): what the worker writes before it notices is lost, a push included.
History variables: `of` in a status says whose credentials it is about (the message
does not), `raced` that the two threads' accesses to the file overlapped, `stale`
that the link broke or the knob restarted under a worker that has not pushed over a
new link since. A dialog is identified by the credentials entered in it, so each is
entered once.

Definitions named "Mutant" in comments are plausible bugs of the code. They are
not part of any specification; each shows that a property would notice it.

## 3. Runs

| Run | Question | Result |
|---|---|---|
| `screen` | Do list, selection, index, icon and shown values agree after any messages and inputs, is the frame buffer what a full redraw would make it, does the panel show it, with the debug overlay on or off? | holds outside the three known ways, 595 428 states |
| `system_safety` | Are waits answered, are the knob and the companion's cache equal at rest, is the firmware still the open device, with input, a mixer change and a restart at any moment? | holds, 1 678 308 states |
| `system_live` | Is an initialisation in step with its Acks whatever is lost, do the timeouts lead to the main loop after losses and ends of the companion, is a list left behind cleared, do icons arrive and lists converge for a calm user? | holds, 187 691 states |
| `front_panel` | Does a gesture act once and on a lit screen, is a lift seen, is the screen never dim or dark early, and dark in the end, across wraps and changes of the settings? | holds outside the cases of section 4, 649 670 states |
| `encoder` | Does every detent count once and no bounce, is the guard kept across the wrap of the truncated clock, does every step reach the main loop? | holds outside the two excused cases, 1 306 633 states |
| `wifi` | Is every session greeted before it is answered, are frames handled at most once and in order whatever reads cut and clients leave, does a reset connection make way? | holds, 159 414 states |
| `provisioning` | Does the file hold what the menu shows, does every setting still to be pushed reach the knob over whatever link holds, does the flash read as one whole record or none, is a dialog told of success by its own answer only when its record is stored? | holds outside the cases of section 4, 921 629 states |
| `icon_hasty` | `current_icon` is repopulated in response to AppSelected (`main.rs` 542) | violated: a swipe during a wait is dropped |
| `list_returns` | SetAppList is the full list of active apps (`messages.rs` 13) | violated: a set equal to the first is not sent |
| `wake_touch` | A touch on a dark screen only wakes it (`main.rs` 622) | violated: the finger lights the screen first |
| `wifi_stuck` | `poll` returns None when no frame is ready (`wifi_tcp.rs` 134) | violated: the second frame of one read waits for more bytes |
| `ip_lost` | Fields written by provisioning are not overwritten (`tray_app.rs` 203) | violated: all setters but one save the tray's old copy |

**Bounds and why they are enough.**

- *KnobSystem*: two apps and levels 0..2 give every interaction of selected against
  not selected and of clamping. The safety scenario has two user inputs, one mixer
  event and one end of the companion, so that two inputs can overlap one exchange,
  or a restart what an earlier worker left; a third does not meet a new kind of
  state because the worker holds one wait at a time. Losses are left to the liveness
  run, where `WaitIsAnswered` is not claimed. The four liveness scenarios are: a loss
  and an end with a user; a loss and two ends with a mixer; a calm user with one
  mixer event; a calm user with two.
- *Screen*: two apps in lists of both orders, both alone, none; all five levels in
  the session, the host setting 3, turns of two levels either way and lists at level
  1, so each side of the arc, the top and both ends are crossed; two battery
  readings; eight rows.
- *FrontPanel*: `TickMod` 6 wraps within the idle times that matter. `Secs` has 0
  ("never"), 1 and 2, so that timeouts can be disabled, grow and shrink. `Pcts` has 0,
  outside the clamp, which also changes the brightness from the default.
- *Encoder*: a clock of 7 ticks, guard 3, bounce and latency 1, detents 4 apart:
  the smallest numbers within `HandAssumption`; three detents and two spurious edges
  let the clock come round between two detents and both contacts fire into one
  interrupt.
- *WifiTcp*: six frames with reads of four pieces and a decoder that holds five
  overflow it; two sessions are one boundary between clients, and nothing but the
  decoder and the flags, both in the state, outlives one.
- *Provisioning*: a name of one byte and a password of four, and three credentials:
  ASCII that fills its field, one character of two bytes that fills it when it is
  read and comes back as another text, and one that does not fit any more. Seven
  scenarios pair settings, modes, dialogs, exits, losses of power and a broken link.

**Calm.** `IconArrivesCalm` and `ListConvergesCalm` hold in the scenarios where the
user acts only when nothing is going on and the set of apps does not come back to
that of the start; without the restriction they are the two violation runs, so it
says exactly what the code relies on.

**Fairness.** Both loops run for ever (`WF` of the worker's steps, of `Receive` and
`ReceiveGlued`, of `Inputs` and the end of the iteration); a due refresh is done again and again (`SF`: it
comes every 5 s whatever else the loop does); 30 s of silence pass (`WF` of
`LoseHost`); the I2C bus answers again and again (`SF` of a read that succeeds); the
encoder's interrupt is served and the loop reads the counter (`WF` of each); the loop
drives WiFi (`WF` of `Iteration`); the threads of the companion and the knob of Provisioning run
on (`WF` of `Threads`, which contains no timer: no setting needs one to arrive).
Nothing obliges a user to act, a session to start, a companion to be started, a
client to write, a dialog to time out, or the radio to come back.

`CHECK_DEADLOCK FALSE` is set in the liveness runs of KnobSystem and in
Provisioning: there the companion may have ended for good with every budget spent,
and the system stands still until somebody acts.

## 4. Properties, and what they except

A property that the code does not keep in some case states that case as its
premise, as narrowly as the model can tell it. In the first rows the repository
says nothing of the case; in the others it says the contrary, and the table quotes
where. Such a property shows what the code does guarantee, not that the sentence in
the source is true.

| Property | Excepted | What the code does there | What the repository says |
|---|---|---|---|
| `SettingsAreSaved`, `IpIsKept` | `raced` | two threads write one file without a lock | nothing |
| `ListensAgain` | a client that closes only its side | the transport never closes its own; CLOSE-WAIT holds the only socket | nothing |
| `PanelIsCurrent` | `unsent`, until the next full flush | `SetVolume` clears `needs_flush`; a delta is drawn from a stale value, or over the overlay's bar outside its rows | nothing |
| `FrameShowsSession` | the ends of the arc while the overlay is on | every `draw_rx_stats` blacks rows 248 to 269 from edge to edge | the overlay's toggle is redrawn so that it is "shown without any black bars", `main.rs` 606 |
| `ListIsCleared` | a companion that leaves after an empty list | the disconnect is looked for only while apps are listed; the screen says "(no app)" (`main.rs` 877), `selected_app` stays and the encoder is dead | the not-connected screen is shown "after the companion disconnects", `main.rs` 207 |
| `DimNotEarly` | a disabled timeout, after a whole turn of the counter | `u32::MAX` is compared like any timeout: after 149 quiet days the screen dims | 0 disables auto-dim, `messages.rs` 24, `backlight.rs` 154 |
| `OffNotEarly` | timeouts changed while idle (`retimed`) | off is compared with the sum of both timeouts since the last activity, and may follow dim at once | counted from the dim transition, `messages.rs` 25, `backlight.rs` 61 |
| `GuardSpacing`, `OneStepPerDetent`, `StepsReachLoop` | both pins in one interrupt | both are counted, 0 us apart | "same OR opposite channel", `encoder.rs` 22; "whichever channel fires first wins", 88 |
| `OneStepPerDetent`, `StepsReachLoop` | a full turn of the clock (71 min) since the last count | the detent is taken for a bounce | "wrapping_sub handles rollover correctly", `encoder.rs` 19 |
| `SettingsOnKnob` | `stale`: after a broken link or a restart of the knob, until the next push | the flag is raised at the start of the worker only; what was written to the dead link (`worker.rs` 682) is not written again | "Push once on connect", `worker.rs` 46; `run_wifi` is there for a knob that was power-cycled, 163-167 |
| `AnswerIsStored` | credentials that are not ASCII, for what is read back | each byte is read as a character: another text, or none | a name of 32 and a password of 64 bytes, of any characters, `messages.rs` 34 |
| `AnswerIsStored` | an answer `of` another command | `WifiStatus` does not say what it answers | the dialog says "WiFi provisioned successfully", `tray_app.rs` 276 |

`SettingsArrive` has no exception: whatever link breaks, settings that the worker
has not yet sent reach the knob, unless the session ends. Settings it has sent into
a dead link are not among them.

The five violation runs of section 3 are disagreements of the same kind, each with
its counterexample.

## 5. Proofs

All proofs hold for every set of apps, every width of the counters, every set of
timeouts and every budget within the named assumptions. An assumption says what
the code or its surroundings guarantee: process ids occur once in a list
(`HostListsAssumption`) and the mixer keeps it so (`MixerAssumption`); a process
set is finite; two timeouts in ticks together stay below the counter's width, as
they do for 16-bit seconds at 333 ticks each (`SecsAssumption`); the guard lies
between the bounce and the hand (`HandAssumption`); the bytes of UTF-8 texts are
neither NUL nor 0xFF, ASCII and the higher ones are told apart, and what the higher
ones are read as is none of the bytes of a text (`ByteAssumption`); credentials fit
their fields in bytes, whatever their characters.

*KnobDevice_proofs.* `DeviceInv` joins the types with `IconIsOfSelected`,
`CursorOnSelected`, `ShownIsListed` and `ListHasSelection`; none of the four is
inductive alone, since a swipe goes from the index to the app and a message from
the app to the index. The types have to say that no id occurs twice in a list
(`UniqueIds`): otherwise the place that `find` returns and the index a swipe moves
to may be two entries. Each handler preserves the whole.

*KnobSystem_proofs.* `SystemInv` adds to `DeviceInv` what one end may find on the
wires and in its memory: everything towards the device is a command about a known
app, everything towards the worker an event or a reply, caches hold levels and
booleans, and a fragment in `toHost` is there only while nobody reads. Then each
action of the system is an action of the open device or a stutter
(`SystemRefinement`), and the session's invariants hold in the system
(`SystemSession`), for any number of inputs, losses and restarts.

`InitSafety` and `WaitSafety` are about the worker's waits; the second in scenarios
without `loss` (`NoLosses`; the ends of workers inside a frame stay), both for a
fragment that is not itself a command (`CutAssumption`). "An Ack is owed" is not
inductive: `Owed` only counts. `AckingInv` says where the Ack is. Up to the answer to the
greeting there is nothing on the wire to the knob but its Ping, last, and the
remains of earlier workers before it, of which no Ack comes; so no fragment can
spoil a command of the waits that follow, because the answer to the Ping proves that
everything before it was read (`UncutInv`). In the initialisation the command waited
for, or its only Ack, is all there is, or nothing if the command was lost
(`InStepInv`): the Ack that ends a wait leaves none behind in the decoder, whichever
part of `toHost` was read with it (`OneAckRest`, `ChunkSplits`), and a wait that is
given up leaves nothing that could answer the next. Without losses some command or
Ack remains in every wait, though in the main loop another command's Ack may end it
(`AwaitedInv`), since the knob answers each command it takes with an Ack
(`RepliesAck`) and whoever takes an Ack ends the wait.

`CacheSafety` compares three copies of a value, the companion's cache, the knob's
list and the knob's screen, which are equal only at rest. Its invariant says what
they will be: of the commands on the wire and in the rest of the plan (`Pending`),
replayed in order, the last that speaks of an app says its cached value; if none
does, the knob's list and, for the selected app, its screen have the value already
(`CarriedInv`). Volume and mute go through the same lemmas (`Fields`). A command put
on the wire is the last to speak (`SaysMore`), one taken off it has become what the
knob holds (`SaysLess`, with `Handled` for the six handlers), and a swipe copies
from the list to the screen (`SwipeCache`). Two parts strengthen it: a
`SetSelectedApp` must find its app in the list of that moment, else the screen would
keep the values of the app selected before (`SelectsInv`); and a worker that has not
yet sent its list has cached that list's values (`StartedInv`), which is why a new
worker may start beside a knob that shows what an earlier one left. `AckingInv` is
needed for the moment the plan begins: the answer to the greeting leaves the wire
empty, so nothing an earlier worker wrote is handled after the new list.

*Screen_proofs.* Every step is a step of KnobDevice (`ScreenIsDevice`), so
`DeviceInv` is available; with it `FrameSafety` follows handler by handler, from
the names of a list that a volume or mute does not change, and for the overlay
from the redraw that every toggle makes (`OverlayStep`). `PanelSafety` is the
geometry: `DeltaRowsSpan` gives the first and the last row of `DeltaRows` by the
crossings of the arc, `DeltaRowsSuffice` that every row in which the arc differs
lies between them, `ArcFlushSuffices` that flushing those rows makes the panel
current if it was, unless the arc was drawn over the overlay's bar outside them. (The scale is fixed to five levels here, by `ScaleAssumption`;
the apps, lists and batteries are arbitrary.)

*FrontPanel_proofs.* For the backlight, the invariant adds to the types that the
wrapped idle time never exceeds the real one. It is what makes a wrapping `u32`
safe: after a wrap the code sees too little idle time and is late, never early. For
the time from dim to off it adds that, while the timeouts have not changed, the idle
time is at most `dim_after` on an active screen and at most that and `in_dim` on a
dim one (`DimsOnTime`): the tick that passes the timeout dims, so what is missing
to the sum has been spent in Dim. `DimSafety`, `OffSafety` and `OffDisabledSafety`
are action properties from it; `DutySafety` ties the LEDC channel to the state.
`PanelDimSafety` and `PanelOffSafety` carry the two to the panel, with its finger,
its wake touches and its bus faults, over the lemma `PanelIsBacklight`.
`ActsOnceSafety` rests on `UnreadIsFresh`: what the chip shows and the driver has
not read is still to be acted upon.

*Encoder_proofs.* `GuardSafety` needs that the truncated difference never exceeds
the real time since the last count (`GateOK`), and that a pin has been quiet at least
as long as both together unless this interrupt counted it (`PinsOK`). `DetentSafety` follows the account
of one detent: settled, owed by an edge the open gate will let through, or, inside
one interrupt, counted twice. A late handler or a bounce is excluded by
`HandAssumption`: bounce plus latency is shorter than the guard, and the guard
plus latency no longer than the time between detents.

*WifiTcp_proofs.* First the decoder: a buffer that holds a terminator has a first
one (least-number principle), so `NextFrame` leaves a suffix of the buffer; hence
after a poll, what the decoder holds and what is still to be read is a suffix of
what it was, wherever the read cut it and whether or not the decoder overflowed
(`PollTakesFromFront`). `OrderSafety` follows: what was handled, then what is on
its way, is in the order it was written, and every step drops from the front of
that or adds to its end. `ReadySafety` needs three facts about `wifi_ready_sent`
(`ReadyInv`): it is down when no session is on and the main loop has noticed; a
session with the flag up has its Ready among what it was sent; a listening socket
is never taken for a session.

*NvsConfig_proofs.* While a record is saved, the flash is what was there before or
an erased record with the first w bytes of the new one (`NvsInv`). `TornLoads` shows
that such a record loads as nothing until its last byte of text that matters is
there - the first NUL after the password, or its last byte if it fills the
field - and as the whole record (`Reading`) from then on: the abstract store's
`Lose` and `Keep`. It covers fields of any length and texts of any bytes.
`AsciiReadsBack` says for which credentials the whole record reads as what was
saved: for ASCII ones, and for no others.

*Provisioning_proofs.* `ProvisionInv` has a part per question. `FileInv`: what is
in the file or about to be written, by either thread, matches the menu, unless they
raced. `PushInv`: the knob has the shared value, or the last push on the wire
carries it, or the worker holds it, or the flag or the tray's position says it is
still to come; and a worker in its loop without a link to the running knob is
`stale`. `OnceInv` and `LastInv`: a credential is in at most one place
between dialog and answer, and the last command sent is the last saved; hence, with
`AsciiReadsBack`, `AnswerSafety`. The flash part is NvsConfig's, so the refinement
carries over.

Every invariant and every action property of a passing run is stated by a theorem.
Only model-checked is liveness (`WorkerReachesLoop`, `ListIsCleared`,
`IconArrivesCalm`, `ListConvergesCalm`, `LiftIsSeen`, `IdleGoesDark`,
`StepsReachLoop`, `ListensAgain`, `SettingsArrive`), which these provers cannot
treat.

## 6. Observed and not claimed

Facts of the models and the sources that no property states, because they lie
outside the models or are a matter of wording:

- `mode = "auto"` is treated as USB, though `config.rs` 29 says it tries WiFi first;
  the choice is a comparison with "wifi".
- `Ready` is sent to every WiFi session, though `messages.rs` 46 says once at boot;
  `ReadyBeforeReplies` is about the code's rule.
- `provision_wifi` (`worker.rs` 245) is called by nobody.
- What `open_config_file`'s editor saves is overwritten by the next setter.
- A failed `fs::write` (`config.rs` 95-97) is ignored; the model has the truncated
  file and the write, not an error between them.
- A load of the configuration after an end of the process inside a save reads an
  empty file as the defaults.
- `init_wifi` uses up its peripherals: after a failure the radio stays off until
  the next boot, and later credentials are answered with REBOOT. After that reboot
  the companion does not learn the address.
- A status that arrives inside `send_and_wait` is dropped; the dialog times out.

## 7. Not modelled

- *Heartbeat timing.* `LoseHost` needs the worker to be gone. Six waits of 5 s in a
  row could keep a live worker from pinging for 30 s; to show that they do not
  happen needs clocks and a bound on the losses.
- *The volume session over WiFi after a reconnect*: the worker starts again from
  the clones of its first start. The session itself is Companion's.
- *The WiFi send buffer at its limit* (the `can_send` guard of `send`, `wifi_tcp.rs`
  283-285, always holds in the model), and an access point lost after listening
  (`wifi_tcp.rs` 216): the radio's part is in the model, the code has no reaction.
- *Several audio sessions of one process*, names, pixels, fonts, the text of the
  debug overlay, touch coordinates, transport statistics.
- *An erase that stops in the middle*: taken as atomic.
- *Haptics* (stateless register writes), *pin constants*, *Win32 icon extraction*,
  *the diagnostic command line*: no state over time.
- *Vendored `esp-hal` and `esp-wifi`*: third-party drivers, by far the largest part
  of the tree (the program's own code is about 5 150 of 111 598 lines). They are
  modelled only through what the firmware asks of them, so the share of the whole
  tree that the models cover stays low however completely the program is covered.

What would come next: the heartbeat with clocks, and `run_wifi` joined to WifiTcp
and KnobDevice.
