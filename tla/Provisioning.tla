----------------------------- MODULE Provisioning -----------------------------
(***************************************************************************)
(* Settings and WiFi credentials on their way from the tray to the knob:   *)
(* the tray's thread with its copy of the configuration, the file both     *)
(* threads write, the worker that pushes the settings and provisions the   *)
(* knob over USB or WiFi, and the knob that stores the credentials in      *)
(* flash (companion/src/tray_app.rs, config.rs and worker.rs, and          *)
(* SetWifiConfig in firmware/src/main.rs).                                 *)
(*                                                                         *)
(* A configuration is reduced to one setting that is pushed to the knob,   *)
(* the connection mode and the knob's address.  The rest of the worker is  *)
(* in Companion, the radio and its sockets in WifiTcp; here a session is   *)
(* there (linked) or not.                                                  *)
(***************************************************************************)
EXTENDS NvsConfig

CONSTANTS
    Percents,   \* brightness settings
    DefaultPct, \* default_backlight_pct, and the knob's own after a boot
    Modes,      \* connection modes of the menu
    Usb, Wifi,  \* the modes that are told apart
    NoAddress, Address,
    Truncated,  \* the file as fs::write leaves it in between
    Unused,     \* the knob's radio before it is given credentials,
    Failed,     \* and after init_wifi has failed
    Scenarios   \* how much of what happens from outside, in one behaviour:
                \*   setting  changes of the brightness
                \*   mode     changes of the connection mode
                \*   dialog   credentials entered
                \*   exit     ends of the companion
                \*   cut      losses of the knob's power
                \*   drop     breaks of the link to the running knob

ASSUME ConfigAssumption ==
    /\ DefaultPct \in Percents
    /\ {Usb, Wifi} \subseteq Modes /\ Usb # Wifi
    /\ NoAddress # Address
ASSUME ScenariosAssumption ==
    Scenarios \subseteq [setting : Nat, mode : Nat, dialog : Nat, exit : Nat, cut : Nat,
                         drop : Nat]

\* What the radio may be given: credentials from a host, or from flash.
Networks == Credentials \cup Range(Reading)

ASSUME RadioAssumption == Unused \notin Networks /\ Failed \notin Networks

Configs == [pct : Percents, mode : Modes, ip : {NoAddress, Address}]

ASSUME FileAssumption == Truncated \notin Configs

\* Mutant: a missing mode is the default of its type.
DefaultsPlain == [pct |-> DefaultPct, mode |-> "", ip |-> NoAddress]
Defaults == [pct |-> DefaultPct, mode |-> Usb, ip |-> NoAddress]

VARIABLES
    file,    \* config.toml: a Config, or Truncated
    live,    \* live_cfg of the tray
    tray,    \* its position in a setter, and the Config it is about to write
    shared,  \* BacklightShared.pct
    dirty,   \* BacklightShared.dirty
    dialog,  \* per credentials entered: how far its dialog is
    queue,   \* cmd_rx
    worker,  \* the worker's position, and the Config it is about to write
    via,     \* the transport chosen at start
    pending, \* pending_wifi_reply, by its dialog
    linked,  \* the port or connection of the worker leads to the running knob
    toKnob, toHost,
    radio,   \* the knob's wifi: Unused, Failed or the credentials it was given
    leased,  \* connected_ip.is_some()
    kpct,    \* the knob's active brightness
    asked,   \* history: the radio was given its credentials by a command
    raced,   \* history: the two threads' accesses to the file overlapped
    stale,   \* history: the link broke or the knob restarted under a worker that has
             \* not pushed over a new link since
    budget

trayVars == <<live, tray>>
workerVars == <<worker, via, pending, linked>>
knobVars == <<radio, asked, leased, kpct>>
sharedVars == <<shared, dirty>>
dialogVars == <<dialog, queue>>
hostVars == <<file, trayVars, sharedVars, dialogVars, workerVars>>
knobSide == <<nvsVars, knobVars>>
wires == <<toKnob, toHost>>
observed == <<raced, stale, budget>>
provisionVars == <<hostVars, knobSide, wires, observed>>

\* config::load
LoadConfig == IF file = Truncated THEN Defaults ELSE file

Spend(kind) == budget[kind] > 0 /\ budget' = [budget EXCEPT ![kind] = @ - 1]

SetBacklight(pct) == [type |-> "SetBacklight", pct |-> pct]
SetWifiConfig(c) == [type |-> "SetWifiConfig", creds |-> c]

\* What WifiStatus is about is not in the message: "of" is history.
Connected(c) == [connected |-> TRUE, of |-> c]
Reboot(c) == [connected |-> FALSE, of |-> c]

\* A dropped or failed reply sender ends the dialogs that wait for it.
Fail(dialogs) ==
    [c \in Credentials |->
        IF c \in dialogs /\ dialog[c] = "waiting" THEN "failed" ELSE dialog[c]]

\* A reply is lost if the dialog has given up.
Tell(answer) ==
    dialog' = [dialog EXCEPT ![pending] = IF @ = "waiting" THEN answer ELSE @]

ToHost(message) == toHost' = IF linked THEN Append(toHost, message) ELSE toHost

-----------------------------------------------------------------------------

\* A knob and a computer out of the box, or both provisioned before.
ProvisionInit ==
    /\ NvsInit
    /\ file = IF Load(flash) = NoCredentials THEN Truncated
              ELSE [pct |-> DefaultPct, mode |-> Wifi, ip |-> Address]
    /\ live = Defaults
    /\ tray = [at |-> "idle", copy |-> Defaults]
    /\ shared = DefaultPct
    /\ dirty = FALSE
    /\ dialog = [c \in Credentials |-> "closed"]
    /\ queue = <<>>
    /\ worker = [at |-> "off", copy |-> Defaults]
    /\ via = Usb
    /\ pending = NoCredentials
    /\ linked = FALSE
    /\ toKnob = <<>>
    /\ toHost = <<>>
    /\ radio = IF Load(flash) = NoCredentials THEN Unused ELSE Load(flash)
    /\ asked = FALSE
    /\ leased = FALSE
    /\ kpct = DefaultPct
    /\ raced = FALSE
    /\ stale = FALSE
    /\ budget \in Scenarios

-----------------------------------------------------------------------------
(* The tray's thread                                                       *)

Running == worker.at # "off"

At(actor, place) == actor.at = place
WorkerSaves == worker.at \in {"truncate", "write"}

\* set_brightness, set_dim_after, set_off_after: the copy and the atomics.
SetPct(pct) ==
    /\ Running
    /\ At(tray, "idle")
    /\ Spend("setting")
    /\ live' = [live EXCEPT !.pct = pct]
    /\ shared' = pct
    /\ tray' = [tray EXCEPT !.at = "mark"]
    /\ UNCHANGED <<knobSide, file, dirty, dialogVars, workerVars, wires, raced,
                   stale>>

Mark ==
    /\ At(tray, "mark")
    /\ dirty' = TRUE
    /\ tray' = [at |-> "save", copy |-> live]
    /\ UNCHANGED <<knobSide, file, live, shared, dialogVars, workerVars, wires,
                   observed>>

\* set_connection_mode: the file is read and gets the new mode.
SetMode(mode) ==
    /\ Running
    /\ At(tray, "idle")
    /\ Spend("mode")
    /\ live' = [live EXCEPT !.mode = mode]
    /\ tray' = [at |-> "merged", copy |-> [LoadConfig EXCEPT !.mode = mode]]
    /\ raced' = (raced \/ WorkerSaves)
    /\ UNCHANGED <<knobSide, file, sharedVars, dialogVars, workerVars, wires,
                   stale>>

\* config::save truncates the file,
TrayTruncates ==
    /\ tray.at \in {"save", "merged"}
    /\ file' = Truncated
    /\ tray' = [tray EXCEPT !.at = "write"]
    /\ raced' = (raced \/ WorkerSaves)
    /\ UNCHANGED <<knobSide, live, sharedVars, dialogVars, workerVars, wires, stale,
                   budget>>

\* and writes it.  set_connection_mode takes the address over.
TrayWrites ==
    /\ At(tray, "write")
    /\ file' = tray.copy
    /\ live' = [live EXCEPT !.ip = tray.copy.ip]
    /\ tray' = [tray EXCEPT !.at = "idle"]
    /\ UNCHANGED <<knobSide, sharedVars, dialogVars, workerVars, wires, observed>>

\* provision_wifi_dialog, on a thread of its own
EnterCredentials(c) ==
    /\ Running
    /\ dialog[c] = "closed"
    /\ Spend("dialog")
    /\ IF At(worker, "ended")
          THEN /\ dialog' = [dialog EXCEPT ![c] = "failed"]
               /\ UNCHANGED queue
          ELSE /\ dialog' = [dialog EXCEPT ![c] = "waiting"]
               /\ queue' = Append(queue, c)
    /\ UNCHANGED <<knobSide, file, trayVars, sharedVars, workerVars, wires, raced,
                   stale>>

\* recv_timeout
GiveUp(c) ==
    /\ dialog[c] = "waiting"
    /\ dialog' = [dialog EXCEPT ![c] = "failed"]
    /\ UNCHANGED <<knobSide, file, trayVars, sharedVars, queue, workerVars, wires,
                   observed>>

-----------------------------------------------------------------------------
(* The worker's thread                                                     *)

\* main loads the file; the transport is chosen once.  Without an audio session
\* or a port the worker ends, and the tray stays.
Start ==
    /\ ~ Running
    /\ live' = LoadConfig
    /\ tray' = [at |-> "idle", copy |-> LoadConfig]
    /\ shared' = LoadConfig.pct
    /\ dirty' = TRUE
    /\ via' = IF LoadConfig.mode = Wifi /\ LoadConfig.ip # NoAddress THEN Wifi ELSE Usb
    /\ worker' \in [at : {"connect", "ended"}, copy : {LoadConfig}]
    /\ raced' = FALSE
    /\ stale' = FALSE
    /\ UNCHANGED <<knobSide, file, dialogVars, pending, linked, wires, budget>>

\* The port is opened or the connection made, and what was there is drained.
Connect ==
    /\ At(worker, "connect")
    /\ via = Wifi => leased
    /\ worker' = [worker EXCEPT !.at = "loop"]
    /\ linked' = TRUE
    /\ toHost' = <<>>
    /\ UNCHANGED <<knobSide, file, trayVars, sharedVars, dialogVars, via, pending,
                   toKnob, observed>>

\* The connection or the port fails while the knob runs on.  Of what was on its
\* way each side may still read the first part.
LinkBreaks ==
    /\ linked
    /\ Spend("drop")
    /\ linked' = FALSE
    /\ \E k \in 0 .. Len(toKnob) : toKnob' = SubSeq(toKnob, 1, k)
    /\ \E k \in 0 .. Len(toHost) : toHost' = SubSeq(toHost, 1, k)
    /\ stale' = TRUE
    /\ UNCHANGED <<knobSide, file, trayVars, sharedVars, dialogVars, worker, via,
                   pending, raced>>

\* A read error: run returns and drops cmd_rx, run_inner returns to run_wifi,
\* which tries again.  Either way the pending reply is dropped.
LinkLost ==
    /\ At(worker, "loop")
    /\ ~ linked
    /\ pending' = NoCredentials
    /\ IF via = Wifi
          THEN /\ worker' = [worker EXCEPT !.at = "connect"]
               /\ dialog' = Fail({pending})
               /\ UNCHANGED queue
          ELSE /\ worker' = [worker EXCEPT !.at = "ended"]
               /\ dialog' = Fail({pending} \cup ToSet(queue))
               /\ queue' = <<>>
    /\ UNCHANGED <<knobSide, file, trayVars, sharedVars, via, linked, wires,
                   observed>>

\* Mutant: settings wait until a provisioning is answered.
SwapIfAnswered ==
    /\ At(worker, "loop")
    /\ dirty
    /\ pending = NoCredentials
    /\ dirty' = FALSE
    /\ worker' = [worker EXCEPT !.at = "snapshot"]
    /\ UNCHANGED <<knobSide, file, trayVars, shared, dialogVars, via, pending,
                   linked, wires, observed>>

\* dirty.swap(false)
Swap ==
    /\ At(worker, "loop")
    /\ dirty
    /\ dirty' = FALSE
    /\ worker' = [worker EXCEPT !.at = "snapshot"]
    /\ UNCHANGED <<knobSide, file, trayVars, shared, dialogVars, via, pending,
                   linked, wires, observed>>

\* BacklightShared::snapshot
Snapshot ==
    /\ At(worker, "snapshot")
    /\ worker' = [at |-> "push", copy |-> [worker.copy EXCEPT !.pct = shared]]
    /\ UNCHANGED <<knobSide, file, trayVars, sharedVars, dialogVars, via, pending,
                   linked, wires, observed>>

\* Mutant: the flag is cleared once the settings are sent.
PushThenClear ==
    /\ At(worker, "push")
    /\ worker' = [worker EXCEPT !.at = "loop"]
    /\ dirty' = FALSE
    /\ toKnob' = IF linked THEN Append(toKnob, SetBacklight(worker.copy.pct)) ELSE toKnob
    /\ UNCHANGED <<knobSide, file, trayVars, shared, dialogVars, via, pending,
                   linked, toHost, observed>>

\* send: what is written to a connection that is gone is lost.
Push ==
    /\ At(worker, "push")
    /\ worker' = [worker EXCEPT !.at = "loop"]
    /\ toKnob' = IF linked THEN Append(toKnob, SetBacklight(worker.copy.pct)) ELSE toKnob
    /\ stale' = (stale /\ ~ linked)
    /\ UNCHANGED <<knobSide, file, trayVars, sharedVars, dialogVars, via, pending,
                   linked, toHost, raced, budget>>

\* cmd_rx.try_recv: a reply that was pending is dropped.
TakeCommand ==
    /\ At(worker, "loop")
    /\ queue # <<>>
    /\ toKnob' = IF linked THEN Append(toKnob, SetWifiConfig(Head(queue))) ELSE toKnob
    /\ dialog' = Fail({pending})
    /\ pending' = Head(queue)
    /\ queue' = Tail(queue)
    /\ UNCHANGED <<knobSide, file, trayVars, sharedVars, worker, via, linked,
                   toHost, observed>>

\* wifi_deadline
Expire ==
    /\ At(worker, "loop")
    /\ pending # NoCredentials
    /\ dialog' = Fail({pending})
    /\ pending' = NoCredentials
    /\ UNCHANGED <<knobSide, file, trayVars, sharedVars, queue, worker, via, linked,
                   wires, observed>>

\* WifiStatus read by the loop
ReadStatus ==
    /\ At(worker, "loop")
    /\ toHost # <<>>
    /\ toHost' = Tail(toHost)
    /\ IF pending # NoCredentials /\ Head(toHost).connected
          THEN /\ worker' = [worker EXCEPT !.at = "load"]
               /\ UNCHANGED <<dialog, pending>>
          ELSE /\ IF pending # NoCredentials THEN Tell("reboot") ELSE UNCHANGED dialog
               /\ pending' = NoCredentials
               /\ UNCHANGED worker
    /\ UNCHANGED <<knobSide, file, trayVars, sharedVars, queue, via, linked, toKnob,
                   observed>>

\* WifiStatus read by a send_and_wait for something else
DropStatus ==
    /\ At(worker, "loop")
    /\ toHost # <<>>
    /\ toHost' = Tail(toHost)
    /\ UNCHANGED <<knobSide, hostVars, toKnob, observed>>

\* Mutant: the worker saves the configuration it was started with.
WorkerKeeps ==
    /\ At(worker, "load")
    /\ worker' = [at |-> "truncate", copy |-> [worker.copy EXCEPT !.ip = Address]]
    /\ raced' = (raced \/ tray.at \in {"merged", "write"})
    /\ UNCHANGED <<knobSide, file, trayVars, sharedVars, dialogVars, via, pending,
                   linked, wires, stale, budget>>

\* save_wifi_ip reads the file and sets the address,
WorkerLoads ==
    /\ At(worker, "load")
    /\ worker' = [at |-> "truncate", copy |-> [LoadConfig EXCEPT !.ip = Address]]
    /\ raced' = (raced \/ tray.at \in {"merged", "write"})
    /\ UNCHANGED <<knobSide, file, trayVars, sharedVars, dialogVars, via, pending,
                   linked, wires, stale, budget>>

\* truncates it,
WorkerTruncates ==
    /\ At(worker, "truncate")
    /\ file' = Truncated
    /\ worker' = [worker EXCEPT !.at = "write"]
    /\ raced' = (raced \/ At(tray, "write"))
    /\ UNCHANGED <<knobSide, trayVars, sharedVars, dialogVars, via, pending, linked,
                   wires, stale, budget>>

\* writes it, and the dialog is told.
WorkerWrites ==
    /\ At(worker, "write")
    /\ file' = worker.copy
    /\ worker' = [worker EXCEPT !.at = "loop"]
    /\ Tell("ok")
    /\ pending' = NoCredentials
    /\ UNCHANGED <<knobSide, trayVars, sharedVars, queue, via, linked, wires,
                   observed>>

\* Exit in the menu or an end of the process takes every thread along,
\* wherever it is.
Exit ==
    /\ Running
    /\ Spend("exit")
    /\ tray' = [tray EXCEPT !.at = "idle"]
    /\ worker' = [worker EXCEPT !.at = "off"]
    /\ dirty' = FALSE
    /\ dialog' = [c \in Credentials |-> IF dialog[c] = "closed" THEN "closed" ELSE "over"]
    /\ queue' = <<>>
    /\ pending' = NoCredentials
    /\ linked' = FALSE
    /\ toHost' = <<>>
    /\ UNCHANGED <<knobSide, file, live, shared, via, toKnob, raced, stale>>

-----------------------------------------------------------------------------
(* The knob                                                                *)

\* main boots: wifi from the credentials in flash, everything else as built.
PowerCycle ==
    /\ Spend("cut")
    /\ saving' = NoCredentials
    /\ written' = -1
    /\ radio' \in IF Load(flash) = NoCredentials THEN {Unused} ELSE {Load(flash), Failed}
    /\ asked' = FALSE
    /\ leased' = FALSE
    /\ kpct' = DefaultPct
    /\ linked' = FALSE
    /\ toKnob' = <<>>
    /\ toHost' = <<>>
    /\ stale' = Running
    /\ UNCHANGED <<flash, file, trayVars, sharedVars, dialogVars, worker, via,
                   pending, raced>>

\* The access point answers, to credentials that somebody has entered: what was
\* garbled in flash names no network.  The event goes to USB only.
Lease ==
    /\ saving = NoCredentials
    /\ radio \in Credentials
    /\ ~ leased
    /\ leased' = TRUE
    /\ IF via = Usb
          THEN ToHost(Connected(IF asked THEN radio ELSE NoCredentials))
          ELSE UNCHANGED toHost
    /\ UNCHANGED <<nvsVars, hostVars, toKnob, radio, asked, kpct, observed>>

KnobReceives ==
    /\ saving = NoCredentials
    /\ toKnob # <<>>
    /\ toKnob' = Tail(toKnob)
    /\ \/ /\ Head(toKnob).type = "SetBacklight"
          /\ kpct' = Head(toKnob).pct
          /\ UNCHANGED nvsVars
       \/ /\ Head(toKnob).type = "SetWifiConfig"
          /\ BeginSave(Head(toKnob).creds)
          /\ UNCHANGED kpct
    /\ UNCHANGED <<hostVars, toHost, radio, asked, leased, observed>>

KnobSaves ==
    /\ Erase \/ Write
    /\ UNCHANGED <<hostVars, wires, knobVars, observed>>

\* The first credentials since the boot are tried at once, later ones only after
\* the next.
ApplySaved ==
    IF radio = Unused
       THEN /\ radio' \in {saving, Failed}
            /\ asked' = TRUE
            /\ UNCHANGED toHost
       ELSE /\ ToHost(Reboot(saving))
            /\ UNCHANGED <<radio, asked>>

KnobSaved ==
    /\ EndSave
    /\ ApplySaved
    /\ UNCHANGED <<hostVars, toKnob, leased, kpct, observed>>

\* Mutant: the result of save is not looked at.
KnobSaveIgnored ==
    /\ StopSave
    /\ ApplySaved
    /\ UNCHANGED <<hostVars, toKnob, leased, kpct, observed>>

\* save returns Err and nobody is told.
KnobSaveFails ==
    /\ StopSave
    /\ UNCHANGED <<hostVars, wires, knobVars, observed>>

-----------------------------------------------------------------------------

\* What goes on by itself.
Threads ==
    \/ Mark \/ TrayTruncates \/ TrayWrites
    \/ Connect \/ LinkLost
    \/ Swap \/ Snapshot \/ Push \/ TakeCommand \/ ReadStatus
    \/ WorkerLoads \/ WorkerTruncates \/ WorkerWrites
    \/ KnobReceives \/ KnobSaves \/ KnobSaved

Outside ==
    \/ \E pct \in Percents : SetPct(pct)
    \/ \E mode \in Modes : SetMode(mode)
    \/ \E c \in Credentials : EnterCredentials(c) \/ GiveUp(c)
    \/ Start \/ Exit
    \/ Expire \/ DropStatus
    \/ LinkBreaks \/ PowerCycle \/ Lease \/ KnobSaveFails

ProvisionNext == Threads \/ Outside

\* The threads and the knob run on; no timer is needed.
ProvisionSpec ==
    ProvisionInit /\ [][ProvisionNext]_provisionVars /\ WF_provisionVars(Threads)

-----------------------------------------------------------------------------
(* Properties                                                              *)

\* Every variable keeps its type.
ProvisionTypeOK ==
    /\ NvsTypeOK
    /\ file \in Configs \cup {Truncated}
    /\ live \in Configs
    /\ tray \in [at : {"idle", "mark", "save", "merged", "write"}, copy : Configs]
    /\ shared \in Percents
    /\ dirty \in BOOLEAN
    /\ dialog \in [Credentials -> {"closed", "waiting", "ok", "reboot", "failed", "over"}]
    /\ ToSet(queue) \subseteq Credentials
    /\ worker \in [at : {"off", "connect", "loop", "snapshot", "push", "load", "truncate",
                         "write", "ended"}, copy : Configs]
    /\ via \in {Usb, Wifi}
    /\ pending \in Credentials \cup {NoCredentials}
    /\ linked \in BOOLEAN
    /\ \A i \in DOMAIN toHost : toHost[i].of \in Credentials \cup {NoCredentials}
    /\ asked \in BOOLEAN
    /\ radio \in Networks \cup {Unused, Failed}
    /\ leased \in BOOLEAN
    /\ kpct \in Percents

TrayRests == Running /\ At(tray, "idle")

\* The file holds what the menu shows, although provisioning rewrites the whole
\* of it from another thread (tray_app.rs setters, config.rs save_wifi_ip),
\* unless the two threads' reads and writes overlapped.
SettingsAreSaved ==
    TrayRests /\ ~ WorkerSaves /\ ~ raced =>
        LoadConfig.pct = live.pct /\ LoadConfig.mode = live.mode

InSession == linked /\ worker.at \notin {"off", "connect", "ended"}

\* When nothing is under way the knob has the settings of the menu: a change
\* between the swap of the flag and the sending is not lost (worker.rs main
\* loop, tray_app.rs set_brightness).  Worker.rs:46 says more, "Push once on
\* connect", and run_wifi (163-167) is there for a knob that was away; but the
\* flag is raised once, at the start, so over a link that replaces a broken one,
\* or to a knob that has restarted, nothing is pushed until the next change, and
\* a push that was written to the dead link is not repeated.  There (stale) the
\* code keeps the knob at other settings, and the property claims nothing.
SettingsOnKnob ==
    (/\ InSession /\ At(worker, "loop")
     /\ TrayRests
     /\ ~ dirty
     /\ \A i \in DOMAIN toKnob : toKnob[i].type # "SetBacklight"
     /\ ~ stale)
        => kpct = shared

\* Settings the worker has not sent yet.
Unsent == At(tray, "mark") \/ dirty \/ worker.at \in {"snapshot", "push"}

\* A change in the menu, and what is set at the start, gets to the knob, whatever
\* the worker and the knob are busy with and without any timeout, over the first
\* link or a later one, if the session lasts: only a push that the link has
\* swallowed is not on its way any more.
SettingsArrive == Unsent ~> (kpct = shared \/ ~ InSession)

\* When a dialog is told of success or of a needed reboot, and by the answer to
\* its own command, its record is in flash as a whole, and the knob finds the
\* same credentials at its next boot if they are ASCII (worker.rs WifiStatus,
\* main.rs SetWifiConfig).  If they are not it finds others or none, whatever the
\* dialog was told, which messages.rs:34 does not expect.  WifiStatus does not say
\* which command it answers: by the answer to an earlier one, or the event of a
\* lease that follows a boot, the dialog shows "WiFi provisioned successfully"
\* (tray_app.rs:276) for credentials the knob may not have, and the property
\* claims nothing.
AnswerIsStored ==
    [][\A c \in Credentials :
          /\ ReadStatus
          /\ pending = c
          /\ Head(toHost).of = c
          => /\ flash = RecordOf(c)
             /\ IsAscii(c) <=> Load(flash) = c]_provisionVars

\* tray_app.rs:203 "Load from disk first so fields updated by other paths (e.g.
\* wifi_device_ip written by provisioning) are not overwritten": a dialog that
\* was told the address is saved leaves it in the file.
IpIsKept ==
    \A c \in Credentials :
        dialog[c] = "ok" /\ TrayRests /\ ~ WorkerSaves /\ ~ raced
            => LoadConfig.ip = Address
=============================================================================
