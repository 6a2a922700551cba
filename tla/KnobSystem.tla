----------------------------- MODULE KnobSystem -----------------------------
(***************************************************************************)
(* The knob and its companion over USB: KnobDevice and Companion joined by *)
(* two FIFO wires, with a user, an audio mixer other programs also use,    *)
(* and faults.                                                             *)
(*                                                                         *)
(* The wires lose nothing by themselves: USB retransmits.  A frame is lost *)
(* when the companion dies while writing it (Cut: the next frame is read   *)
(* as its continuation and fails the CRC) or when the device's decoder     *)
(* refuses it (LoseFrame).  What the device writes while no companion has  *)
(* the port open fills its FIFO, ends in the middle of a frame, and is     *)
(* thrown away by the next worker's Drain.                                 *)
(***************************************************************************)
EXTENDS KnobDevice, Companion

CONSTANTS
    InitialSessions,  \* mixer contents to start from
    Scenarios         \* how much of what happens from outside, in one behaviour:
                      \*   user   turns, swipes, taps and settings
                      \*   mixer  sessions that start or end, other programs' changes
                      \*   exit   ends of the companion
                      \*   loss   frames the device's decoder refuses
                      \*   calm   TRUE: the user acts only when nothing is going on,
                      \*          and the ids never again are those of the start

ASSUME ScenariosAssumption ==
    Scenarios \subseteq
        [user : Nat, mixer : Nat, exit : Nat, loss : Nat, calm : BOOLEAN]

\* What the mixer's list becomes when a session starts, ends or is changed.
Started(list, app, level) ==
    Append(list, [id |-> app, volume |-> level, muted |-> FALSE])
Ended(list, gone) == SelectSeq(list, LAMBDA s : s.id # gone)
VolumeSet(list, i, level) == [list EXCEPT ![i].volume = level]
MuteSet(list, i, muted) == [list EXCEPT ![i].muted = muted]

\* The lists a host may send are those its mixer may hold.
ASSUME MixerAssumption ==
    /\ InitialSessions \subseteq HostLists
    /\ \A list \in HostLists :
          /\ \A app \in Apps \ Ids(list), level \in Levels :
                Started(list, app, level) \in HostLists
          /\ \A gone \in Ids(list) : Ended(list, gone) \in HostLists
          /\ \A i \in DOMAIN list, level \in Levels :
                VolumeSet(list, i, level) \in HostLists
          /\ \A i \in DOMAIN list, muted \in BOOLEAN :
                MuteSet(list, i, muted) \in HostLists

\* What the worker writes; a fragment is none of it.
Commands ==
    {Ping, SetBacklight}
    \cup {SetAppList(list) : list \in HostLists}
    \cup {SetSelectedApp(app) : app \in Apps}
    \cup {SetAppIcon(app) : app \in Apps}
    \cup {SetVolume(app, level) : app \in Apps, level \in Levels}
    \cup {SetMute(app, muted) : app \in Apps, muted \in BOOLEAN}

ASSUME CutAssumption == Cut \notin Commands

VARIABLE budget  \* what is left of the scenario

systemVars == <<deviceVars, companionVars, budget>>
envVars == <<pc, plan, resume, decoder, caches, dirty, due, toDev>>

Spend(kind) == budget[kind] > 0 /\ budget' = [budget EXCEPT ![kind] = @ - 1]

SystemInit ==
    /\ DeviceInit
    /\ CompanionInit
    /\ sessions \in InitialSessions
    /\ budget \in Scenarios

-----------------------------------------------------------------------------
(* The device on its wires                                                 *)

\* Nobody reads while there is no worker: what is sent stays in the FIFO until
\* it is full, and then the frame in hand is given up where it is.
FifoFull == toHost # <<>> /\ toHost[Len(toHost)] = Cut

\* UsbSerial::send
DeviceSends(messages) ==
    IF pc # "off" THEN toHost' = toHost \o messages
    ELSE IF FifoFull THEN UNCHANGED toHost
    ELSE \/ toHost' = toHost \o messages
         \/ \E n \in 0 .. Len(messages) - 1 :
               toHost' = toHost \o SubSeq(messages, 1, n) \o <<Cut>>

\* Mutant: the index is left alone when a list arrives.
HandleMessageList(m) ==
    CASE m.type = "SetAppList" ->
            /\ apps' = m.list
            /\ ready_sent' = TRUE
            /\ UNCHANGED <<selected_app, selected_idx, current_icon, shown,
                           standalone_value>>
      [] OTHER -> HandleOther

HandleMessage(m) ==
    CASE m.type = "SetAppList"     -> HandleSetAppList(m.list)
      [] m.type = "SetSelectedApp" -> HandleSetSelectedApp(m.app)
      [] m.type = "SetAppIcon"     -> HandleSetAppIcon(m.app)
      [] m.type = "SetVolume"      -> HandleSetVolume(m.app, m.level)
      [] m.type = "SetMute"        -> HandleSetMute(m.app, m.muted)
      [] OTHER                     -> HandleOther

\* Mutant: pixels that are not used are not acknowledged.
RepliesIfUsed(m) ==
    (IF ready_sent THEN <<>> ELSE <<Ready>>)
    \o (IF m.type = "Ping" THEN <<Pong>>
        ELSE IF m.type = "SetAppIcon" /\ m.app # selected_app THEN <<>> ELSE <<Ack>>)

\* Ready comes before the answer to the first message since boot; Pong takes
\* the place of the Ack.
Replies(m) ==
    (IF ready_sent THEN <<>> ELSE <<Ready>>)
    \o (IF m.type = "Ping" THEN <<Pong>> ELSE <<Ack>>)

Receive ==
    /\ toDev # <<>>
    /\ Head(toDev) # Cut
    /\ HandleMessage(Head(toDev))
    /\ DeviceSends(Replies(Head(toDev)))
    /\ toDev' = Tail(toDev)
    /\ UNCHANGED <<sessions, pc, plan, resume, decoder, caches, dirty, due, budget>>

\* A frame glued to the remains of another: the decoder consumes both.
ReceiveGlued ==
    /\ Len(toDev) > 1
    /\ Head(toDev) = Cut
    /\ toDev' = Tail(Tail(toDev))
    /\ UNCHANGED <<deviceVars, sessions, pc, plan, resume, decoder, caches,
                   dirty, due, toHost, budget>>

LoseFrame ==
    /\ Spend("loss")
    /\ toDev # <<>>
    /\ Head(toDev) # Cut
    /\ toDev' = Tail(toDev)
    /\ UNCHANGED <<deviceVars, sessions, pc, plan, resume, decoder, caches,
                   dirty, due, toHost>>

\* Ten thousand ticks (30 s) of silence; a live worker pings every 2 s.
LoseHost ==
    /\ pc = "off"
    /\ ~ Whole(toDev)
    /\ Disconnect
    /\ UNCHANGED <<companionVars, budget>>

-----------------------------------------------------------------------------
(* The user                                                                *)

Idle == pc = "read" /\ toDev = <<>> /\ toHost = <<>> /\ decoder = <<>>

UserActs ==
    /\ Spend("user")
    /\ budget.calm => Idle
    /\ UNCHANGED <<sessions, envVars>>

UserTurns ==
    /\ UserActs
    /\ \E delta \in Deltas :
          /\ Turn(delta)
          /\ DeviceSends(IF selected_app = NoApp
                            THEN <<>> ELSE <<VolumeDelta(selected_app, delta)>>)

UserSwipes ==
    /\ UserActs
    /\ SwipeLeft \/ SwipeRight
    /\ DeviceSends(<<AppSelected(selected_app'), Gesture>>)

UserTaps ==
    /\ UserActs
    /\ DeviceSends((IF selected_app = NoApp THEN <<>> ELSE <<MuteToggle(selected_app)>>)
                   \o <<Gesture>>)
    /\ UNCHANGED deviceVars

\* A brightness or a timeout picked in the tray's menu of a running companion.
UserSets ==
    /\ Spend("user")
    /\ budget.calm => Idle
    /\ pc # "off"
    /\ dirty' = TRUE
    /\ UNCHANGED <<deviceVars, sessions, pc, plan, resume, decoder, caches, due, wires>>

-----------------------------------------------------------------------------
(* The mixer                                                               *)

MixerActs ==
    /\ Spend("mixer")
    /\ UNCHANGED <<deviceVars, envVars, toHost>>

SessionStarts ==
    /\ MixerActs
    /\ \E app \in Apps \ Ids(sessions), level \in Levels :
          sessions' = Started(sessions, app, level)
    /\ budget.calm => Ids(sessions') # Ids(app_infos)

SessionEnds ==
    /\ MixerActs
    /\ \E gone \in Ids(sessions) :
          sessions' = Ended(sessions, gone)
    /\ budget.calm => Ids(sessions') # Ids(app_infos)

\* Another program moves the slider of a session.
MixerChanges ==
    /\ MixerActs
    /\ \E i \in DOMAIN sessions, level \in Levels :
          /\ level # sessions[i].volume
          /\ sessions' = VolumeSet(sessions, i, level)

-----------------------------------------------------------------------------

WorkerStarts == Start /\ UNCHANGED <<deviceVars, budget>>
WorkerExits  == Exit /\ Spend("exit") /\ UNCHANGED deviceVars
WorkerSteps  == WorkerNext /\ UNCHANGED <<deviceVars, budget>>

SystemNext ==
    \/ Receive
    \/ ReceiveGlued
    \/ LoseFrame
    \/ LoseHost
    \/ UserTurns
    \/ UserSwipes
    \/ UserTaps
    \/ UserSets
    \/ SessionStarts
    \/ SessionEnds
    \/ MixerChanges
    \/ WorkerStarts
    \/ WorkerExits
    \/ WorkerSteps

SystemSpec == SystemInit /\ [][SystemNext]_systemVars

\* Both loops keep running, the refresh comes round again and again, and 30 s
\* of silence pass.  Nobody has to turn the knob, play a sound or start the
\* companion.
Fairness ==
    /\ WF_systemVars(Receive)
    /\ WF_systemVars(ReceiveGlued)
    /\ WF_systemVars(LoseHost)
    /\ WF_systemVars(WorkerSteps)
    /\ SF_systemVars(WorkerSteps /\ "refresh" \in due \ due')

FairSystemSpec == SystemSpec /\ Fairness

-----------------------------------------------------------------------------
(* Properties                                                              *)

\* Acks on their way plus commands that will be answered with one.
Acks(wire) == Cardinality({i \in DOMAIN wire : wire[i] = Ack})
Acked(wire) ==
    Cardinality({i \in DOMAIN wire : wire[i] # Cut /\ wire[i].type # "Ping"})
Owed == Acked(toDev) + Acks(toHost) + Acks(decoder)

\* A worker blocked in send_and_wait always has an Ack coming: no wait runs
\* into its five seconds (worker.rs send_and_wait against the `ack` flag of
\* the firmware's handlers).  Losses excepted.
WaitIsAnswered == pc = "ack" => Owed > 0

\* While the worker initialises the device, the command it waits for is the
\* only one outstanding, so an Ack is that command's, whatever frames are lost
\* (worker.rs run_inner).
InitInStep ==
    pc = "ack" /\ resume = "read" =>
        /\ Owed <= 1
        /\ \A i \in DOMAIN toDev : toDev[i].type # "Ping" => toDev[i] = Head(plan)

\* When nothing is in transit, the knob shows the volume and mute the
\* companion has cached for the selected app: the value the next turn starts
\* from, whatever was lost to waits, refreshes and restarts in between.
ShownIsCached ==
    Idle =>
        /\ selected_app \in DOMAIN volumes => current_volume = volumes[selected_app]
        /\ selected_app \in DOMAIN mutes => current_muted = mutes[selected_app]

\* The firmware, whatever the companion and the wires do to it, behaves as
\* the open device does: what is proved of KnobDevice holds in the system.
ImplementsDevice == DeviceSpec

\* Whatever frames are lost, a started worker gets through its greeting and its
\* waits to the main loop (worker.rs: "proceeding anyway", "timed out waiting
\* for Ack").
WorkerReachesLoop == pc \in {"drain", "greet", "ack"} ~> pc \in {"read", "off"}

\* A running companion never leaves the selected app without its icon: "cleared
\* on app switch; repopulated when the companion pushes SetAppIcon in response
\* to AppSelected" (main.rs current_icon).
IconArrives ==
    \A app \in AppsWithIcon :
        (selected_app = app /\ app \in icons /\ pc = "read")
            ~> (current_icon = app \/ selected_app # app \/ pc = "off")

\* SetAppList is "the full list of currently-active audio apps": once the
\* mixer has settled, the knob's carousel has exactly its sessions.
ListConverges ==
    <>[](pc = "off") \/ <>[](Ids(apps) = Ids(sessions))

\* Both, in the scenarios where the user waits and the ids do not come back.
IconArrivesCalm == budget.calm => IconArrives
ListConvergesCalm == budget.calm => ListConverges

\* The companion has gone, all it sent is handled, and apps are listed.
ListWasLeft == pc = "off" /\ toDev = <<>> /\ apps # <<>>

\* What the disconnect makes of the session.
NotConnected == apps = <<>> /\ selected_app = NoApp /\ current_icon = NoApp

\* A companion that leaves a list behind leaves nothing of its session for
\* long: list, selection and icon go, so that the encoder turns the standalone
\* value again (main.rs, disconnect detection: "we clear the app list and
\* return to the not-connected screen").  After an empty list, which is not
\* looked at here, the code does not do so: the selection stays for good.
ListIsCleared == ListWasLeft ~> NotConnected \/ pc # "off"
=============================================================================
