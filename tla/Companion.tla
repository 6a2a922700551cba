----------------------------- MODULE Companion -----------------------------
(***************************************************************************)
(* The worker thread of the companion over USB (companion/src/worker.rs:   *)
(* run, run_inner, wait_for_ready, send_and_wait).                         *)
(*                                                                         *)
(* `pc` is where the thread blocks or loops:                               *)
(*    "off"     no worker                                                  *)
(*    "drain"   drain_for, then clear_input                                *)
(*    "greet"   wait_for_ready                                             *)
(*    "ack"     send_and_wait; Head(plan) was sent and is waited for, the  *)
(*              rest of plan is sent the same way after it; then the       *)
(*              thread goes on at `resume`                                 *)
(*    "read"    top of the main loop, in transport.read                    *)
(*    "decode"  the loop over decoder.next_frame                           *)
(*    "tail"    heartbeat, backlight, refresh: the rest of the iteration   *)
(* What is written goes to the end of toDev, what is read comes from the   *)
(* head of toHost.  Both wires are those of KnobSystem.                    *)
(***************************************************************************)
EXTENDS KnobMessages, FiniteSets, Functions

CONSTANTS
    AppsWithIcon,  \* processes whose executable has an icon
    Cut            \* a frame whose writer stopped before its terminator

\* A process id is a u32.
ASSUME AppsAssumption == IsFiniteSet(Apps)
ASSUME AppsWithIconAssumption == AppsWithIcon \subseteq Apps

VARIABLES
    sessions,   \* WASAPI: one session per process, in enumeration order
    pc, plan, resume,
    decoder,    \* frames read and not yet taken by next_frame
    app_infos,  \* the list of the start; never assigned again
    volumes,    \* HashMap<u32, f32>
    mutes,      \* HashMap<u32, bool>
    icons,      \* keys of the icon map
    dirty,      \* BacklightShared::dirty
    due,        \* timers of the main loop that have run out
    toDev, toHost

wires == <<toDev, toHost>>
caches == <<app_infos, volumes, mutes, icons>>
companionVars == <<sessions, pc, plan, resume, decoder, caches, dirty, due, wires>>

Ids(list) == {list[i].id : i \in DOMAIN list}

\* HashMap::insert, of many values and of one.
InsertAll(map, new) ==
    [app \in DOMAIN map \cup DOMAIN new |->
        IF app \in DOMAIN new THEN new[app] ELSE map[app]]
Insert(map, app, value) == InsertAll(map, [x \in {app} |-> value])

Whole(wire) == \E i \in DOMAIN wire : wire[i] # Cut

CompanionInit ==
    /\ pc = "off"
    /\ plan = <<>>
    /\ resume = "read"
    /\ decoder = <<>>
    /\ app_infos = <<>>
    /\ volumes = <<>>
    /\ mutes = <<>>
    /\ icons = {}
    /\ dirty = FALSE
    /\ due = {}
    /\ toDev = <<>>
    /\ toHost = <<>>

-----------------------------------------------------------------------------
(* Start of a worker                                                       *)

\* prepare_audio_data reads the mixer and the port is opened.  Without a
\* session the worker reports an error and ends.
Start ==
    /\ pc = "off"
    /\ sessions # <<>>
    /\ app_infos' = sessions
    /\ volumes' = [app \in Ids(sessions) |-> Find(sessions, app).volume]
    /\ mutes' = [app \in Ids(sessions) |-> Find(sessions, app).muted]
    /\ icons' = Ids(sessions) \cap AppsWithIcon
    /\ decoder' = <<>>
    /\ dirty' = TRUE
    /\ due' = {"ping", "refresh"}
    /\ pc' = "drain"
    /\ UNCHANGED <<sessions, plan, resume, wires>>

\* Mutant: what is left of an earlier worker's answers is not cleared.
DrainKeepsInput ==
    /\ pc = "drain"
    /\ toDev' = Append(toDev, Ping)
    /\ pc' = "greet"
    /\ UNCHANGED <<sessions, plan, resume, decoder, caches, dirty, due, toHost>>

\* 300 ms pass before the first Ping, long enough for the device to have
\* handled what an earlier worker sent; its answers are thrown away.
Drain ==
    /\ pc = "drain"
    /\ ~ Whole(toDev)
    /\ toHost' = <<>>
    /\ decoder' = <<>>
    /\ toDev' = Append(toDev, Ping)
    /\ pc' = "greet"
    /\ UNCHANGED <<sessions, plan, resume, caches, dirty, due>>

\* SetAppList, SetSelectedApp, then every icon in the map's arbitrary order.
BeginPlan ==
    \E order \in Bijection(1 .. Cardinality(icons), icons) :
        LET p == <<SetAppList(app_infos), SetSelectedApp(app_infos[1].id)>>
                 \o [i \in DOMAIN order |-> SetAppIcon(order[i])]
        IN /\ plan' = p
           /\ toDev' = Append(toDev, Head(p))
           /\ resume' = "read"
           /\ pc' = "ack"

\* The frames of one chunk of at most 256 bytes: any part of what is there.
Chunks == {SubSeq(toHost, 1, k) : k \in 1 .. Len(toHost)}
TakeChunk(chunk) == toHost' = SubSeq(toHost, Len(chunk) + 1, Len(toHost))

\* Ready or Pong ends the wait; whatever came before it is dropped and
\* whatever came after it stays in the decoder.
GreetRead ==
    /\ pc = "greet"
    /\ \E chunk \in Chunks :
          LET frames == decoder \o chunk
              hits == {i \in DOMAIN frames : frames[i] \in {Ready, Pong}}
          IN /\ TakeChunk(chunk)
             /\ IF hits = {}
                   THEN /\ decoder' = <<>>
                        /\ UNCHANGED <<pc, plan, resume, toDev>>
                   ELSE \E first \in hits :
                          /\ \A i \in hits : first <= i
                          /\ decoder' = SubSeq(frames, first + 1, Len(frames))
                          /\ BeginPlan
    /\ UNCHANGED <<sessions, caches, dirty, due>>

\* Three seconds without an answer: "proceeding anyway".
GreetTimeout ==
    /\ pc = "greet"
    /\ ~ Whole(toDev)
    /\ toHost = <<>>
    /\ BeginPlan
    /\ UNCHANGED <<sessions, decoder, caches, dirty, due, toHost>>

-----------------------------------------------------------------------------
(* send_and_wait                                                           *)

\* The message in flight is over: send the next one, or go on at `resume`.
NextOfPlan ==
    /\ plan' = Tail(plan)
    /\ IF Len(plan) > 1
          THEN toDev' = Append(toDev, plan[2]) /\ pc' = "ack"
          ELSE toDev' = toDev /\ pc' = resume
    /\ UNCHANGED resume

\* Every frame that is not an Ack is printed and dropped.  The first Ack ends
\* the wait, whichever command it answers.
AckRead ==
    /\ pc = "ack"
    /\ \E chunk \in Chunks :
          LET frames == decoder \o chunk
              hits == {i \in DOMAIN frames : frames[i] = Ack}
          IN /\ TakeChunk(chunk)
             /\ IF hits = {}
                   THEN /\ decoder' = <<>>
                        /\ UNCHANGED <<pc, plan, resume, toDev>>
                   ELSE \E first \in hits :
                          /\ \A i \in hits : first <= i
                          /\ decoder' = SubSeq(frames, first + 1, Len(frames))
                          /\ NextOfPlan
    /\ UNCHANGED <<sessions, caches, dirty, due>>

\* Mutant: no deadline.
AckTimeoutNever ==
    /\ pc = "ack"
    /\ UNCHANGED companionVars

\* Five seconds without an Ack: none is coming.
AckTimeout ==
    /\ pc = "ack"
    /\ ~ Whole(toDev)
    /\ toHost = <<>>
    /\ NextOfPlan
    /\ UNCHANGED <<sessions, decoder, caches, dirty, due, toHost>>

-----------------------------------------------------------------------------
(* The main loop                                                           *)

Read ==
    /\ pc = "read"
    /\ \E chunk \in Chunks :
          /\ TakeChunk(chunk)
          /\ decoder' = decoder \o chunk
    /\ pc' = "decode"
    /\ UNCHANGED <<sessions, plan, resume, caches, dirty, due, toDev>>

\* Two seconds without a byte, with nothing on its way either.  Frames left in
\* the decoder stay there; both timers have run out.
ReadTimeout ==
    /\ pc = "read"
    /\ ~ Whole(toDev)
    /\ toHost = <<>>
    /\ due' = {"ping", "refresh"}
    /\ pc' = "tail"
    /\ UNCHANGED <<sessions, plan, resume, decoder, caches, dirty, wires>>

\* The head of the decoder, as next_frame returns it.
NextFrame(type) ==
    /\ pc = "decode"
    /\ decoder # <<>>
    /\ Head(decoder).type = type
    /\ decoder' = Tail(decoder)

\* Mutant: volumes.insert is forgotten.
OnVolumeDeltaUncached ==
    /\ NextFrame("VolumeDelta")
    /\ LET app == Head(decoder).app
           level == Clamp(volumes[app] + Head(decoder).delta)
       IN IF Listed(sessions, app)
             THEN /\ sessions' = [sessions EXCEPT ![Place(sessions, app)].volume = level]
                  /\ toDev' = Append(toDev, SetVolume(app, level))
             ELSE UNCHANGED <<sessions, toDev>>
    /\ UNCHANGED <<pc, plan, resume, app_infos, volumes, mutes, icons, dirty, due, toHost>>

\* Relative to the cached volume; a process whose session is gone makes
\* set_volume fail and nothing is sent.
OnVolumeDelta ==
    /\ NextFrame("VolumeDelta")
    /\ LET app == Head(decoder).app
           current == IF app \in DOMAIN volumes THEN volumes[app] ELSE MaxLevel \div 2
           level == Clamp(current + Head(decoder).delta)
       IN IF Listed(sessions, app)
             THEN /\ sessions' = [sessions EXCEPT ![Place(sessions, app)].volume = level]
                  /\ volumes' = Insert(volumes, app, level)
                  /\ toDev' = Append(toDev, SetVolume(app, level))
             ELSE UNCHANGED <<sessions, volumes, toDev>>
    /\ UNCHANGED <<pc, plan, resume, app_infos, mutes, icons, dirty, due, toHost>>

\* Mutant: only the volume is sent back.
OnAppSelectedVolume ==
    /\ NextFrame("AppSelected")
    /\ LET app == Head(decoder).app
           p == <<SetVolume(app, volumes[app])>>
       IN /\ plan' = p
          /\ toDev' = Append(toDev, Head(p))
          /\ resume' = "decode"
          /\ pc' = "ack"
    /\ UNCHANGED <<sessions, caches, dirty, due, toHost>>

\* Both answers are chosen now and sent one after the other's Ack.
OnAppSelected ==
    /\ NextFrame("AppSelected")
    /\ LET app == Head(decoder).app
           p == (IF app \in DOMAIN volumes THEN <<SetVolume(app, volumes[app])>> ELSE <<>>)
                \o (IF app \in icons THEN <<SetAppIcon(app)>> ELSE <<>>)
       IN IF p = <<>>
             THEN UNCHANGED <<pc, plan, resume, toDev>>
             ELSE /\ plan' = p
                  /\ toDev' = Append(toDev, Head(p))
                  /\ resume' = "decode"
                  /\ pc' = "ack"
    /\ UNCHANGED <<sessions, caches, dirty, due, toHost>>

OnMuteToggle ==
    /\ NextFrame("MuteToggle")
    /\ LET app == Head(decoder).app
           muted == ~ (IF app \in DOMAIN mutes THEN mutes[app] ELSE FALSE)
       IN IF Listed(sessions, app)
             THEN /\ sessions' = [sessions EXCEPT ![Place(sessions, app)].muted = muted]
                  /\ mutes' = Insert(mutes, app, muted)
                  /\ toDev' = Append(toDev, SetMute(app, muted))
             ELSE UNCHANGED <<sessions, mutes, toDev>>
    /\ UNCHANGED <<pc, plan, resume, app_infos, volumes, icons, dirty, due, toHost>>

\* Ack, Pong and Gesture change nothing here.
OnOther ==
    /\ \E type \in {"Ack", "Pong", "Ready", "Gesture"} : NextFrame(type)
    /\ UNCHANGED <<sessions, pc, plan, resume, caches, dirty, due, wires>>

NoMoreFrames ==
    /\ pc = "decode"
    /\ decoder = <<>>
    /\ pc' = "tail"
    /\ UNCHANGED <<sessions, plan, resume, decoder, caches, dirty, due, wires>>

\* Mutant: lists of the same length are taken for the same list.
ChangedLength == Len(sessions) # Len(app_infos)

\* The list is compared with the one of the start.
Changed == Ids(sessions) # Ids(app_infos)

Refresh ==
    IF Changed
       THEN /\ volumes' = InsertAll(volumes, [app \in Ids(sessions) |-> Find(sessions, app).volume])
            /\ mutes' = InsertAll(mutes, [app \in Ids(sessions) |-> Find(sessions, app).muted])
            /\ icons' = icons \cup (Ids(sessions) \cap AppsWithIcon)
       ELSE UNCHANGED <<volumes, mutes, icons>>

\* The heartbeat goes out every 2 s and the refresh every 5 s, at any point of
\* an exchange; between two of a kind there is a moment with nothing in transit.
LoopTail(work) ==
    /\ pc = "tail"
    /\ due' = due \ work
    /\ toDev' = toDev \o (IF "ping" \in work THEN <<Ping>> ELSE <<>>)
                      \o (IF dirty THEN <<SetBacklight>> ELSE <<>>)
                      \o (IF "refresh" \in work /\ Changed
                             THEN <<SetAppList(sessions)>> ELSE <<>>)
    /\ dirty' = FALSE
    /\ IF "refresh" \in work THEN Refresh ELSE UNCHANGED <<volumes, mutes, icons>>
    /\ pc' = "read"
    /\ UNCHANGED <<sessions, plan, resume, decoder, app_infos, toHost>>

\* The process ends: the stop flag, a read error, or a kill that may leave the
\* frame being written without its terminator.
Exit ==
    /\ pc # "off"
    /\ pc' = "off"
    /\ plan' = <<>>
    /\ decoder' = <<>>
    /\ toHost' = <<>>
    /\ \/ toDev' = toDev
       \/ /\ toDev # <<>> /\ toDev[Len(toDev)] # Cut
          /\ toDev' = [toDev EXCEPT ![Len(toDev)] = Cut]
    /\ UNCHANGED <<sessions, resume, caches, dirty, due>>

\* What the thread does on its own.
WorkerNext ==
    \/ Drain
    \/ GreetRead
    \/ GreetTimeout
    \/ AckRead
    \/ AckTimeout
    \/ Read
    \/ ReadTimeout
    \/ OnVolumeDelta
    \/ OnAppSelected
    \/ OnMuteToggle
    \/ OnOther
    \/ NoMoreFrames
    \/ \E work \in SUBSET due : LoopTail(work)
=============================================================================
