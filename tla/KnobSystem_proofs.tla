------------------------- MODULE KnobSystem_proofs -------------------------
(***************************************************************************)
(* The firmware inside the system does only what the open device does: no  *)
(* frame reaches a handler that a worker did not write whole, and no       *)
(* worker writes one outside the messages KnobDevice takes.  So all that   *)
(* is proved of KnobDevice holds in the system.  The second part is about  *)
(* the worker's waits: where no frame is lost, each of them is answered.   *)
(* The third is about the caches: what the companion has cached is what    *)
(* the knob shows once everything under way has been handled.              *)
(***************************************************************************)
EXTENDS KnobSystem, KnobDevice_proofs, FiniteSetTheorems, SequenceTheorems

\* What it may wait for.
Awaited == {c \in Commands : c.type # "Ping"}

\* What the knob writes.
Events ==
    {Ready, Pong, Ack, Gesture}
    \cup {VolumeDelta(app, delta) : app \in Apps, delta \in Deltas}
    \cup {AppSelected(app) : app \in Apps}
    \cup {MuteToggle(app) : app \in Apps}

\* The worker's caches are of processes, and have values of the knob's scale.
CachesInv ==
    /\ app_infos \in HostLists \cup {<<>>}
    /\ pc # "off" => app_infos # <<>>
    /\ DOMAIN volumes \subseteq Apps
    /\ \A app \in DOMAIN volumes : volumes[app] \in Levels
    /\ DOMAIN mutes \subseteq Apps
    /\ \A app \in DOMAIN mutes : mutes[app] \in BOOLEAN
    /\ icons \subseteq Apps

\* Only whole frames are read: what a full FIFO cut off is thrown away before
\* the greeting.
WiresInv ==
    /\ toDev \in Seq(Commands \cup {Cut})
    /\ toHost \in Seq(Events \cup {Cut})
    /\ pc \notin {"off", "drain"} => toHost \in Seq(Events)
    /\ decoder \in Seq(Events)
    /\ plan \in Seq(Awaited)
    /\ pc = "ack" => plan # <<>>
    /\ resume \in {"read", "decode"}

SystemInv ==
    /\ DeviceInv
    /\ sessions \in HostLists
    /\ CachesInv
    /\ WiresInv

-----------------------------------------------------------------------------
(* Messages                                                                *)

\* A handler exists for every command, and each is an action of the device.
LEMMA HandlersAreDevice ==
    ASSUME NEW m \in Commands, HandleMessage(m)
    PROVE  DeviceNext
  <1>1. CASE m \in {Ping, SetBacklight}
    BY <1>1 DEF HandleMessage, Ping, SetBacklight, DeviceNext
  <1>2. ASSUME NEW list \in HostLists, m = SetAppList(list) PROVE DeviceNext
    BY <1>2 DEF HandleMessage, SetAppList, DeviceNext
  <1>3. ASSUME NEW app \in Apps, m = SetSelectedApp(app) PROVE DeviceNext
    BY <1>3 DEF HandleMessage, SetSelectedApp, DeviceNext
  <1>4. ASSUME NEW app \in Apps, m = SetAppIcon(app) PROVE DeviceNext
    BY <1>4 DEF HandleMessage, SetAppIcon, DeviceNext
  <1>5. ASSUME NEW app \in Apps, NEW level \in Levels, m = SetVolume(app, level)
        PROVE  DeviceNext
    BY <1>5 DEF HandleMessage, SetVolume, DeviceNext
  <1>6. ASSUME NEW app \in Apps, NEW muted \in BOOLEAN, m = SetMute(app, muted)
        PROVE  DeviceNext
    BY <1>6 DEF HandleMessage, SetMute, DeviceNext
  <1> QED
    BY <1>1, <1>2, <1>3, <1>4, <1>5, <1>6 DEF Commands

\* The kind of an event says what it carries.
LEMMA EventFields ==
    ASSUME NEW e \in Events
    PROVE  /\ e.type = "VolumeDelta" => e.app \in Apps /\ e.delta \in Deltas
           /\ e.type = "AppSelected" => e.app \in Apps
           /\ e.type = "MuteToggle" => e.app \in Apps
  BY DEF Events, Ready, Pong, Ack, Gesture, VolumeDelta, AppSelected, MuteToggle

LEMMA RepliesAreEvents == ASSUME NEW m PROVE Replies(m) \in Seq(Events)
  <1>1. Ready \in Events /\ Pong \in Events /\ Ack \in Events
    BY DEF Events
  <1> HIDE DEF Events, Ready, Pong, Ack
  <1> QED
    BY <1>1 DEF Replies

\* While a worker runs, what the knob sends is appended whole; otherwise a
\* fragment may end it.
LEMMA SendsEvents ==
    ASSUME NEW messages \in Seq(Events), DeviceSends(messages),
           toHost \in Seq(Events \cup {Cut})
    PROVE  /\ toHost' \in Seq(Events \cup {Cut})
           /\ pc # "off" /\ toHost \in Seq(Events) => toHost' \in Seq(Events)
  <1> HIDE DEF Events
  <1>1. messages \in Seq(Events \cup {Cut}) /\ Len(messages) \in Nat
    OBVIOUS
  <1>2. CASE toHost' = toHost \o messages
    BY <1>1, <1>2
  <1>3. CASE toHost' = toHost /\ pc = "off"
    BY <1>3
  <1>4. ASSUME NEW n \in 0 .. Len(messages) - 1, pc = "off",
               toHost' = toHost \o SubSeq(messages, 1, n) \o <<Cut>>
        PROVE  toHost' \in Seq(Events \cup {Cut})
    <2>1. SubSeq(messages, 1, n) \in Seq(Events \cup {Cut})
      BY <1>1
    <2>2. <<Cut>> \in Seq(Events \cup {Cut})
      OBVIOUS
    <2> QED
      BY <1>4, <2>1, <2>2
  <1> QED
    BY <1>2, <1>3, <1>4 DEF DeviceSends

-----------------------------------------------------------------------------
(* The worker                                                              *)

\* Reading takes a chunk of whole frames off the wire and into the decoder.
LEMMA ChunkIsEvents ==
    ASSUME toHost \in Seq(Events), decoder \in Seq(Events), NEW chunk \in Chunks,
           TakeChunk(chunk)
    PROVE  /\ toHost' \in Seq(Events)
           /\ decoder \o chunk \in Seq(Events)
           /\ \A i \in DOMAIN (decoder \o chunk) :
                 SubSeq(decoder \o chunk, i + 1, Len(decoder \o chunk)) \in Seq(Events)
  <1> HIDE DEF Events
  <1>1. PICK k \in 1 .. Len(toHost) : chunk = SubSeq(toHost, 1, k)
    BY DEF Chunks
  <1>2. chunk \in Seq(Events) /\ Len(chunk) = k
    BY <1>1
  <1>3. toHost' \in Seq(Events)
    <2>1. Len(chunk) + 1 \in 1 .. Len(toHost) + 1 /\ Len(toHost) \in Nat
      BY <1>2
    <2> QED
      BY <2>1 DEF TakeChunk
  <1>4. decoder \o chunk \in Seq(Events)
    BY <1>2
  <1> QED
    BY <1>3, <1>4

\* A command written whole keeps the wire.
LEMMA WireAppend ==
    ASSUME NEW wire \in Seq(Commands \cup {Cut}), NEW c \in Commands
    PROVE  /\ Append(wire, c) \in Seq(Commands \cup {Cut})
           /\ <<c>> \in Seq(Commands \cup {Cut})
           /\ <<>> \in Seq(Commands \cup {Cut})
  <1> HIDE DEF Commands
  <1> QED
    OBVIOUS

\* The plan of the start is made of commands that are acknowledged.
LEMMA BeginPlanIsCommands ==
    ASSUME CachesInv, app_infos # <<>>, toDev \in Seq(Commands \cup {Cut}), BeginPlan
    PROVE  /\ plan' \in Seq(Awaited)
           /\ toDev' \in Seq(Commands \cup {Cut})
           /\ resume' = "read" /\ pc' = "ack" /\ plan' # <<>>
           /\ toDev' = Append(toDev, Head(plan'))
  <1>1. PICK order \in Bijection(1 .. Cardinality(icons), icons) :
          LET p == <<SetAppList(app_infos), SetSelectedApp(app_infos[1].id)>>
                     \o [i \in DOMAIN order |-> SetAppIcon(order[i])]
          IN plan' = p /\ toDev' = Append(toDev, Head(p)) /\ resume' = "read" /\ pc' = "ack"
    BY DEF BeginPlan
  <1> DEFINE first == <<SetAppList(app_infos), SetSelectedApp(app_infos[1].id)>>
             pixels == [i \in DOMAIN order |-> SetAppIcon(order[i])]
  <1>2. SetAppList(app_infos) \in Awaited
    BY DEF CachesInv, Commands, Awaited, SetAppList
  <1>3. SetSelectedApp(app_infos[1].id) \in Awaited
    <2>1. app_infos \in Seq(AppInfo) /\ 1 \in DOMAIN app_infos
      BY HostListsAssumption DEF CachesInv, AppLists
    <2>2. app_infos[1] \in AppInfo
      BY <2>1
    <2>3. app_infos[1].id \in Apps
      BY <2>2 DEF AppInfo
    <2> QED
      BY <2>3 DEF Commands, Awaited, SetSelectedApp
  <1>4. Cardinality(icons) \in Nat
    BY AppsAssumption, FS_Subset, FS_CardinalityType DEF CachesInv
  <1>5. order \in [1 .. Cardinality(icons) -> icons]
    BY DEF Bijection, Injection
  <1>6. pixels \in Seq(Awaited)
    <2>1. \A i \in 1 .. Cardinality(icons) : SetAppIcon(order[i]) \in Awaited
      BY <1>5 DEF CachesInv, Commands, Awaited, SetAppIcon
    <2> QED
      BY <1>4, <1>5, <2>1
  <1> HIDE DEF Commands, SetAppList, SetSelectedApp, SetAppIcon, pixels
  <1>7. first \in Seq(Awaited) /\ Len(first) = 2
    BY <1>2, <1>3
  <1>8. first \o pixels \in Seq(Awaited) /\ Len(first \o pixels) >= 2
    BY <1>6, <1>7
  <1>9. Head(first \o pixels) \in Commands
    <2>1. Head(first \o pixels) \in Awaited
      BY <1>8
    <2> QED
      BY <2>1 DEF Awaited
  <1>10. /\ plan' = first \o pixels /\ toDev' = Append(toDev, Head(first \o pixels))
         /\ resume' = "read" /\ pc' = "ack"
    BY <1>1 DEF pixels
  <1> HIDE DEF first
  <1>11. plan' \in Seq(Awaited) /\ toDev' \in Seq(Commands \cup {Cut})
    BY <1>8, <1>9, <1>10
  <1>12. plan' # <<>>
    BY <1>8, <1>10
  <1> QED
    BY <1>10, <1>11, <1>12

LEMMA NextOfPlanIsCommands ==
    ASSUME WiresInv, plan # <<>>, NextOfPlan
    PROVE  /\ plan' \in Seq(Awaited)
           /\ toDev' \in Seq(Commands \cup {Cut})
           /\ resume' = resume /\ pc' \in {"ack", "read", "decode"}
           /\ pc' = "ack" => plan' # <<>> /\ toDev' = Append(toDev, Head(plan'))
           /\ pc' # "ack" => pc' = resume /\ toDev' = toDev
  <1> HIDE DEF Commands
  <1>0. plan \in Seq(Awaited) /\ toDev \in Seq(Commands \cup {Cut})
    BY DEF WiresInv
  <1>1. plan' \in Seq(Awaited) /\ Len(plan') = Len(plan) - 1
    BY <1>0 DEF NextOfPlan
  <1>2. toDev' \in Seq(Commands \cup {Cut})
    <2>1. CASE Len(plan) > 1
      <3>1. plan[2] \in Awaited
        BY <1>0, <2>1
      <3>2. toDev' = Append(toDev, plan[2])
        BY <2>1 DEF NextOfPlan
      <3> QED
        BY <1>0, <3>1, <3>2, WireAppend DEF Awaited
    <2>2. CASE ~ (Len(plan) > 1)
      BY <2>2 DEF NextOfPlan, WiresInv
    <2> QED
      BY <2>1, <2>2
  <1>3. pc' \in {"ack", "read", "decode"} /\ (pc' = "ack" => Len(plan) > 1)
    BY DEF NextOfPlan, WiresInv
  <1>4. pc' = "ack" => plan' # <<>>
    BY <1>0, <1>1, <1>3
  <1>5. Len(plan) > 1 => Head(plan') = plan[2]
    BY <1>0 DEF NextOfPlan
  <1>6. pc' = "ack" => toDev' = Append(toDev, Head(plan'))
    BY <1>3, <1>5 DEF NextOfPlan
  <1>7. pc' # "ack" => pc' = resume /\ toDev' = toDev
    BY DEF NextOfPlan
  <1> QED
    BY <1>1, <1>2, <1>3, <1>4, <1>6, <1>7 DEF NextOfPlan

\* What the worker knows of the mixer.
LEMMA MixerEntries ==
    ASSUME NEW list \in HostLists
    PROVE  /\ list \in AppLists
           /\ Ids(list) \subseteq Apps
           /\ \A app \in Ids(list) : /\ Find(list, app).volume \in Levels
                                     /\ Find(list, app).muted \in BOOLEAN
  <1>1. list \in AppLists /\ list \in Seq(AppInfo)
    BY HostListsAssumption DEF AppLists
  <1>2. Ids(list) \subseteq Apps
    <2>1. \A i \in DOMAIN list : list[i] \in AppInfo
      BY <1>1
    <2> QED
      BY <2>1 DEF Ids, AppInfo
  <1>3. ASSUME NEW app \in Ids(list) PROVE Find(list, app) \in AppInfo
    <2>1. Listed(list, app)
      BY DEF Ids, Listed
    <2> QED
      BY <1>1, <2>1, PlaceIsListed DEF Find
  <1> QED
    BY <1>1, <1>2, <1>3 DEF AppInfo

\* A value set for one process leaves the others'.
LEMMA CacheSet ==
    ASSUME NEW cache, DOMAIN cache \subseteq Apps, NEW Values,
           \A app \in DOMAIN cache : cache[app] \in Values,
           NEW new, DOMAIN new \subseteq Apps,
           \A app \in DOMAIN new : new[app] \in Values
    PROVE  /\ DOMAIN InsertAll(cache, new) \subseteq Apps
           /\ \A app \in DOMAIN InsertAll(cache, new) : InsertAll(cache, new)[app] \in Values
  BY DEF InsertAll

LEMMA StartInv ==
    ASSUME sessions \in HostLists, CachesInv, WiresInv, Start
    PROVE  sessions' \in HostLists /\ CachesInv' /\ WiresInv'
  <1>1. CachesInv'
    BY MixerEntries DEF CachesInv, Start
  <1>2. WiresInv'
    <2> HIDE DEF Commands, Events
    <2> QED
      BY DEF WiresInv, Start, wires
  <1> QED
    BY <1>1, <1>2 DEF Start

\* What a step leaves alone it leaves typed.
LEMMA CachesKept ==
    ASSUME CachesInv, UNCHANGED caches, pc' # "off" => pc # "off"
    PROVE  CachesInv'
  BY DEF CachesInv, caches

LEMMA DrainInv ==
    ASSUME CachesInv, WiresInv, Drain
    PROVE  CachesInv' /\ WiresInv'
  <1>1. CachesInv'
    BY CachesKept DEF Drain
  <1>2. Ping \in Commands
    BY DEF Commands
  <1>3. WiresInv'
    <2> HIDE DEF Commands, Events, Ping
    <2> QED
      BY <1>2 DEF WiresInv, Drain
  <1> QED
    BY <1>1, <1>3

LEMMA GreetInv ==
    ASSUME CachesInv, WiresInv, GreetRead \/ GreetTimeout
    PROVE  CachesInv' /\ WiresInv'
  <1>0. pc = "greet" /\ UNCHANGED caches
    BY DEF GreetRead, GreetTimeout
  <1>1. CachesInv'
    BY <1>0, CachesKept
  <1>2. app_infos # <<>> /\ toHost \in Seq(Events) /\ decoder \in Seq(Events)
    BY <1>0 DEF CachesInv, WiresInv
  <1>3. BeginPlan => /\ plan' \in Seq(Awaited)
                     /\ toDev' \in Seq(Commands \cup {Cut})
                     /\ resume' = "read" /\ pc' = "ack" /\ plan' # <<>>
    BY <1>2, BeginPlanIsCommands DEF WiresInv
  <1>4. CASE GreetRead
    <2>1. PICK chunk \in Chunks :
            LET frames == decoder \o chunk
                hits == {i \in DOMAIN frames : frames[i] \in {Ready, Pong}}
            IN /\ TakeChunk(chunk)
               /\ IF hits = {}
                     THEN /\ decoder' = <<>>
                          /\ UNCHANGED <<pc, plan, resume, toDev>>
                     ELSE \E first \in hits :
                            /\ \A i \in hits : first <= i
                            /\ decoder' = SubSeq(frames, first + 1, Len(frames))
                            /\ BeginPlan
      BY <1>4 DEF GreetRead
    <2>2. /\ toHost' \in Seq(Events)
          /\ \A i \in DOMAIN (decoder \o chunk) :
                SubSeq(decoder \o chunk, i + 1, Len(decoder \o chunk)) \in Seq(Events)
      BY <1>2, <2>1, ChunkIsEvents
    <2> HIDE DEF Commands, Events
    <2>3. decoder' = <<>> \/ \E i \in DOMAIN (decoder \o chunk) :
             decoder' = SubSeq(decoder \o chunk, i + 1, Len(decoder \o chunk))
      BY <2>1
    <2>4. decoder' \in Seq(Events)
      <3>1. <<>> \in Seq(Events)
        OBVIOUS
      <3> HIDE DEF Chunks
      <3> QED
        BY <2>2, <2>3, <3>1, Zenon
    <2>5. (UNCHANGED <<pc, plan, resume, toDev>>) \/ BeginPlan
      BY <2>1
    <2> QED
      BY <1>0, <1>1, <1>3, <2>2, <2>4, <2>5 DEF WiresInv
  <1>5. CASE GreetTimeout
    <2> HIDE DEF Commands, Events
    <2> QED
      BY <1>1, <1>2, <1>3, <1>5 DEF GreetTimeout, WiresInv
  <1> QED
    BY <1>4, <1>5

LEMMA AckInv ==
    ASSUME CachesInv, WiresInv, AckRead \/ AckTimeout
    PROVE  CachesInv' /\ WiresInv'
  <1>0. pc = "ack" /\ UNCHANGED caches
    BY DEF AckRead, AckTimeout
  <1>1. CachesInv'
    BY <1>0, CachesKept
  <1>2. plan # <<>> /\ toHost \in Seq(Events) /\ decoder \in Seq(Events)
    BY <1>0 DEF WiresInv
  <1>3. NextOfPlan => /\ plan' \in Seq(Awaited)
                      /\ toDev' \in Seq(Commands \cup {Cut})
                      /\ resume' = resume /\ pc' \in {"ack", "read", "decode"}
                      /\ pc' = "ack" => plan' # <<>>
    BY <1>2, NextOfPlanIsCommands
  <1>4. CASE AckRead
    <2>1. PICK chunk \in Chunks :
            LET frames == decoder \o chunk
                hits == {i \in DOMAIN frames : frames[i] = Ack}
            IN /\ TakeChunk(chunk)
               /\ IF hits = {}
                     THEN /\ decoder' = <<>>
                          /\ UNCHANGED <<pc, plan, resume, toDev>>
                     ELSE \E first \in hits :
                            /\ \A i \in hits : first <= i
                            /\ decoder' = SubSeq(frames, first + 1, Len(frames))
                            /\ NextOfPlan
      BY <1>4 DEF AckRead
    <2>2. /\ toHost' \in Seq(Events)
          /\ \A i \in DOMAIN (decoder \o chunk) :
                SubSeq(decoder \o chunk, i + 1, Len(decoder \o chunk)) \in Seq(Events)
      BY <1>2, <2>1, ChunkIsEvents
    <2> HIDE DEF Commands, Events
    <2>3. decoder' = <<>> \/ \E i \in DOMAIN (decoder \o chunk) :
             decoder' = SubSeq(decoder \o chunk, i + 1, Len(decoder \o chunk))
      BY <2>1
    <2>4. decoder' \in Seq(Events)
      <3>1. <<>> \in Seq(Events)
        OBVIOUS
      <3> HIDE DEF Chunks
      <3> QED
        BY <2>2, <2>3, <3>1, Zenon
    <2>5. (UNCHANGED <<pc, plan, resume, toDev>>) \/ NextOfPlan
      BY <2>1
    <2> QED
      BY <1>0, <1>1, <1>3, <2>2, <2>4, <2>5 DEF WiresInv
  <1>5. CASE AckTimeout
    <2> HIDE DEF Commands, Events
    <2> QED
      BY <1>1, <1>2, <1>3, <1>5 DEF AckTimeout, WiresInv
  <1> QED
    BY <1>4, <1>5

LEMMA ReadInv ==
    ASSUME CachesInv, WiresInv, Read \/ ReadTimeout
    PROVE  CachesInv' /\ WiresInv'
  <1>0. pc = "read" /\ pc' \in {"decode", "tail"} /\ UNCHANGED <<caches, plan, resume, toDev>>
    BY DEF Read, ReadTimeout, wires
  <1>1. CachesInv'
    BY <1>0, CachesKept
  <1>2. toHost \in Seq(Events) /\ decoder \in Seq(Events)
    BY <1>0 DEF WiresInv
  <1>3. toHost' \in Seq(Events) /\ decoder' \in Seq(Events)
    <2>1. CASE Read
      <3>1. PICK chunk \in Chunks : TakeChunk(chunk) /\ decoder' = decoder \o chunk
        BY <2>1 DEF Read
      <3> QED
        BY <1>2, <3>1, ChunkIsEvents
    <2>2. CASE ReadTimeout
      BY <1>2, <2>2 DEF ReadTimeout, wires
    <2> QED
      BY <2>1, <2>2
  <1> HIDE DEF Commands, Events
  <1> QED
    BY <1>0, <1>1, <1>3 DEF WiresInv

\* The head of the decoder is an event, and what is left are events.
LEMMA HeadIsEvent ==
    ASSUME WiresInv, NEW type, NextFrame(type)
    PROVE  /\ pc = "decode"
           /\ Head(decoder) \in Events /\ Head(decoder).type = type
           /\ decoder' \in Seq(Events)
           /\ toHost \in Seq(Events)
  <1> HIDE DEF Events
  <1>1. decoder \in Seq(Events) /\ decoder # <<>> /\ pc = "decode" /\ toHost \in Seq(Events)
    BY DEF WiresInv, NextFrame
  <1>2. Head(decoder) \in Events /\ Tail(decoder) \in Seq(Events)
    BY <1>1
  <1> QED
    BY <1>1, <1>2 DEF NextFrame

\* A turn changes the mixer, the cache and the knob by the same value.
LEMMA OnVolumeDeltaInv ==
    ASSUME sessions \in HostLists, CachesInv, WiresInv, OnVolumeDelta
    PROVE  sessions' \in HostLists /\ CachesInv' /\ WiresInv'
  <1> DEFINE app == Head(decoder).app
             current == IF app \in DOMAIN volumes THEN volumes[app] ELSE MaxLevel \div 2
             level == Clamp(current + Head(decoder).delta)
  <1>1. /\ pc = "decode" /\ app \in Apps /\ Head(decoder).delta \in Deltas
        /\ decoder' \in Seq(Events) /\ toHost \in Seq(Events)
    BY HeadIsEvent, EventFields DEF OnVolumeDelta
  <1>2. current \in Levels
    <2>1. MaxLevel \div 2 \in Levels
      BY MaxLevelAssumption, SMT DEF Levels
    <2> QED
      BY <2>1 DEF CachesInv
  <1>3. level \in Levels
    <2> HIDE DEF current
    <2> DEFINE delta == Head(decoder).delta
    <2>1. delta \in Int
      BY <1>1, DeltasAssumption
    <2> HIDE DEF delta
    <2>2. current \in Int
      BY <1>2, MaxLevelAssumption DEF Levels
    <2>3. current + delta \in Int
      BY <2>1, <2>2
    <2> QED
      BY <2>3, ClampInLevels DEF delta
  <1>4. /\ UNCHANGED <<pc, plan, resume, app_infos, mutes, icons, toHost>>
        /\ IF Listed(sessions, app)
             THEN /\ sessions' = [sessions EXCEPT ![Place(sessions, app)].volume = level]
                  /\ volumes' = Insert(volumes, app, level)
                  /\ toDev' = Append(toDev, SetVolume(app, level))
             ELSE UNCHANGED <<sessions, volumes, toDev>>
    BY DEF OnVolumeDelta
  <1>5. SetVolume(app, level) \in Commands
    BY <1>1, <1>3 DEF Commands
  <1>6. Listed(sessions, app) =>
           [sessions EXCEPT ![Place(sessions, app)].volume = level] \in HostLists
    <2>1. ASSUME Listed(sessions, app) PROVE Place(sessions, app) \in DOMAIN sessions
      BY <2>1, MixerEntries, PlaceIsListed DEF AppLists
    <2> QED
      BY <1>3, <2>1, MixerAssumption DEF VolumeSet
  <1>7. /\ DOMAIN Insert(volumes, app, level) \subseteq Apps
        /\ \A x \in DOMAIN Insert(volumes, app, level) :
              Insert(volumes, app, level)[x] \in Levels
    <2> DEFINE new == [x \in {app} |-> level]
    <2>1. DOMAIN new \subseteq Apps /\ \A x \in DOMAIN new : new[x] \in Levels
      BY <1>1, <1>3
    <2>2. DOMAIN volumes \subseteq Apps /\ \A x \in DOMAIN volumes : volumes[x] \in Levels
      BY DEF CachesInv
    <2> HIDE DEF new
    <2>3. /\ DOMAIN InsertAll(volumes, new) \subseteq Apps
          /\ \A x \in DOMAIN InsertAll(volumes, new) : InsertAll(volumes, new)[x] \in Levels
      BY <2>1, <2>2, CacheSet
    <2> QED
      BY <2>3 DEF Insert, new
  <1> HIDE DEF app, level, Commands, Events, SetVolume
  <1>8. sessions' \in HostLists
    BY <1>4, <1>6
  <1>9. CachesInv'
    BY <1>1, <1>4, <1>7 DEF CachesInv
  <1>10. toDev' \in Seq(Commands \cup {Cut})
    <2>1. toDev \in Seq(Commands \cup {Cut})
      BY DEF WiresInv
    <2> QED
      BY <1>4, <1>5, <2>1, WireAppend
  <1> QED
    BY <1>1, <1>4, <1>8, <1>9, <1>10 DEF WiresInv

\* And so does a tap.
LEMMA OnMuteToggleInv ==
    ASSUME sessions \in HostLists, CachesInv, WiresInv, OnMuteToggle
    PROVE  sessions' \in HostLists /\ CachesInv' /\ WiresInv'
  <1> DEFINE app == Head(decoder).app
             muted == ~ (IF app \in DOMAIN mutes THEN mutes[app] ELSE FALSE)
  <1>1. /\ pc = "decode" /\ app \in Apps
        /\ decoder' \in Seq(Events) /\ toHost \in Seq(Events)
    BY HeadIsEvent, EventFields DEF OnMuteToggle
  <1>2. muted \in BOOLEAN
    OBVIOUS
  <1>3. /\ UNCHANGED <<pc, plan, resume, app_infos, volumes, icons, toHost>>
        /\ IF Listed(sessions, app)
             THEN /\ sessions' = [sessions EXCEPT ![Place(sessions, app)].muted = muted]
                  /\ mutes' = Insert(mutes, app, muted)
                  /\ toDev' = Append(toDev, SetMute(app, muted))
             ELSE UNCHANGED <<sessions, mutes, toDev>>
    BY DEF OnMuteToggle
  <1> HIDE DEF muted
  <1>4. SetMute(app, muted) \in Commands
    BY <1>1, <1>2 DEF Commands
  <1>5. Listed(sessions, app) =>
           [sessions EXCEPT ![Place(sessions, app)].muted = muted] \in HostLists
    <2>1. ASSUME Listed(sessions, app) PROVE Place(sessions, app) \in DOMAIN sessions
      BY <2>1, MixerEntries, PlaceIsListed DEF AppLists
    <2> QED
      BY <1>2, <2>1, MixerAssumption DEF MuteSet
  <1>6. /\ DOMAIN Insert(mutes, app, muted) \subseteq Apps
        /\ \A x \in DOMAIN Insert(mutes, app, muted) :
              Insert(mutes, app, muted)[x] \in BOOLEAN
    <2> DEFINE new == [x \in {app} |-> muted]
    <2>1. DOMAIN new \subseteq Apps /\ \A x \in DOMAIN new : new[x] \in BOOLEAN
      BY <1>1, <1>2
    <2>2. DOMAIN mutes \subseteq Apps /\ \A x \in DOMAIN mutes : mutes[x] \in BOOLEAN
      BY DEF CachesInv
    <2> HIDE DEF new
    <2>3. /\ DOMAIN InsertAll(mutes, new) \subseteq Apps
          /\ \A x \in DOMAIN InsertAll(mutes, new) : InsertAll(mutes, new)[x] \in BOOLEAN
      BY <2>1, <2>2, CacheSet
    <2> QED
      BY <2>3 DEF Insert, new
  <1> HIDE DEF app, Commands, Events, SetMute
  <1>7. sessions' \in HostLists
    BY <1>3, <1>5
  <1>8. CachesInv'
    BY <1>1, <1>3, <1>6 DEF CachesInv
  <1>9. toDev' \in Seq(Commands \cup {Cut})
    <2>1. toDev \in Seq(Commands \cup {Cut})
      BY DEF WiresInv
    <2> QED
      BY <1>3, <1>4, <2>1, WireAppend
  <1> QED
    BY <1>1, <1>3, <1>7, <1>8, <1>9 DEF WiresInv

LEMMA OnAppSelectedInv ==
    ASSUME CachesInv, WiresInv, OnAppSelected
    PROVE  CachesInv' /\ WiresInv'
  <1> DEFINE app == Head(decoder).app
             volume == IF app \in DOMAIN volumes THEN <<SetVolume(app, volumes[app])>>
                                                 ELSE <<>>
             icon == IF app \in icons THEN <<SetAppIcon(app)>> ELSE <<>>
             p == volume \o icon
  <1>1. /\ pc = "decode" /\ app \in Apps /\ decoder' \in Seq(Events) /\ toHost \in Seq(Events)
    BY HeadIsEvent, EventFields DEF OnAppSelected
  <1>2. app \in DOMAIN volumes => SetVolume(app, volumes[app]) \in Awaited
    BY <1>1 DEF CachesInv, Commands, Awaited, SetVolume
  <1>3. SetAppIcon(app) \in Awaited
    BY <1>1 DEF Commands, Awaited, SetAppIcon
  <1>4. /\ UNCHANGED <<caches, toHost>>
        /\ IF p = <<>>
             THEN UNCHANGED <<pc, plan, resume, toDev>>
             ELSE /\ plan' = p
                  /\ toDev' = Append(toDev, Head(p))
                  /\ resume' = "decode"
                  /\ pc' = "ack"
    BY DEF OnAppSelected
  <1> HIDE DEF app, Commands, Events, SetVolume, SetAppIcon
  <1>5. volume \in Seq(Awaited) /\ icon \in Seq(Awaited)
    BY <1>2, <1>3
  <1> HIDE DEF volume, icon
  <1>6. p \in Seq(Awaited)
    BY <1>5
  <1> HIDE DEF p
  <1>7. p # <<>> => Head(p) \in Commands
    <2>1. p # <<>> => Head(p) \in Awaited
      BY <1>6
    <2> QED
      BY <2>1 DEF Awaited
  <1>8. pc' # "off" => pc # "off"
    BY <1>1
  <1>9. CachesInv'
    BY <1>4, <1>8, CachesKept
  <1>10. toDev' \in Seq(Commands \cup {Cut}) /\ plan' \in Seq(Awaited)
    <2>1. toDev \in Seq(Commands \cup {Cut}) /\ plan \in Seq(Awaited)
      BY DEF WiresInv
    <2> QED
      BY <1>4, <1>6, <1>7, <2>1, WireAppend
  <1> QED
    BY <1>1, <1>4, <1>9, <1>10 DEF WiresInv

LEMMA OnOtherInv ==
    ASSUME CachesInv, WiresInv, OnOther \/ NoMoreFrames
    PROVE  CachesInv' /\ WiresInv'
  <1>1. /\ pc = "decode" /\ pc' \in {"decode", "tail"}
        /\ UNCHANGED <<plan, resume, caches, wires>>
        /\ decoder' \in Seq(Events)
    BY HeadIsEvent DEF OnOther, NoMoreFrames, WiresInv
  <1>2. CachesInv'
    BY <1>1, CachesKept
  <1> HIDE DEF Commands, Events
  <1> QED
    BY <1>1, <1>2 DEF WiresInv, wires

LEMMA LoopTailInv ==
    ASSUME sessions \in HostLists, CachesInv, WiresInv, NEW work, LoopTail(work)
    PROVE  CachesInv' /\ WiresInv'
  <1> DEFINE ping == IF "ping" \in work THEN <<Ping>> ELSE <<>>
             settings == IF dirty THEN <<SetBacklight>> ELSE <<>>
             list == IF "refresh" \in work /\ Changed THEN <<SetAppList(sessions)>> ELSE <<>>
  <1>1. {Ping, SetBacklight, SetAppList(sessions)} \subseteq Commands
    BY DEF Commands
  <1>2. /\ pc = "tail" /\ pc' = "read"
        /\ UNCHANGED <<plan, resume, decoder, app_infos, toHost>>
        /\ toDev' = toDev \o ping \o settings \o list
    BY DEF LoopTail
  <1>3. CachesInv'
    <2> DEFINE v == [app \in Ids(sessions) |-> Find(sessions, app).volume]
               m == [app \in Ids(sessions) |-> Find(sessions, app).muted]
    <2>1. \/ UNCHANGED <<volumes, mutes, icons>>
          \/ /\ volumes' = InsertAll(volumes, v)
             /\ mutes' = InsertAll(mutes, m)
             /\ icons' = icons \cup (Ids(sessions) \cap AppsWithIcon)
      BY DEF LoopTail, Refresh
    <2>2. /\ DOMAIN v \subseteq Apps /\ \A app \in DOMAIN v : v[app] \in Levels
          /\ DOMAIN m \subseteq Apps /\ \A app \in DOMAIN m : m[app] \in BOOLEAN
      BY MixerEntries
    <2> HIDE DEF v, m
    <2>3. /\ DOMAIN InsertAll(volumes, v) \subseteq Apps
          /\ \A app \in DOMAIN InsertAll(volumes, v) : InsertAll(volumes, v)[app] \in Levels
      BY <2>2, CacheSet DEF CachesInv
    <2>4. /\ DOMAIN InsertAll(mutes, m) \subseteq Apps
          /\ \A app \in DOMAIN InsertAll(mutes, m) : InsertAll(mutes, m)[app] \in BOOLEAN
      BY <2>2, CacheSet DEF CachesInv
    <2> QED
      BY <1>2, <2>1, <2>3, <2>4, AppsWithIconAssumption DEF CachesInv
  <1> HIDE DEF Commands, Events, Ping, SetBacklight, SetAppList
  <1>4. ping \in Seq(Commands \cup {Cut}) /\ settings \in Seq(Commands \cup {Cut})
    BY <1>1, WireAppend DEF WiresInv
  <1>5. list \in Seq(Commands \cup {Cut})
    BY <1>1, WireAppend DEF WiresInv
  <1> HIDE DEF ping, settings, list
  <1>6. toDev' \in Seq(Commands \cup {Cut})
    BY <1>2, <1>4, <1>5 DEF WiresInv
  <1> QED
    BY <1>2, <1>3, <1>6 DEF WiresInv

LEMMA ExitInv ==
    ASSUME CachesInv, WiresInv, Exit
    PROVE  CachesInv' /\ WiresInv'
  <1>1. CachesInv'
    BY CachesKept DEF Exit
  <1> HIDE DEF Commands, Events
  <1>2. toDev' \in Seq(Commands \cup {Cut})
    BY DEF WiresInv, Exit
  <1>3. /\ pc' = "off" /\ resume' = resume
        /\ plan' = <<>> /\ decoder' = <<>> /\ toHost' = <<>>
    BY DEF Exit
  <1> QED
    BY <1>1, <1>2, <1>3 DEF WiresInv

\* No step of the worker upsets what it knows or what is on its wires.
LEMMA WorkerInv ==
    ASSUME sessions \in HostLists, CachesInv, WiresInv, WorkerNext
    PROVE  sessions' \in HostLists /\ CachesInv' /\ WiresInv'
  <1>1. CASE Drain
    BY <1>1, DrainInv DEF Drain
  <1>2. CASE GreetRead \/ GreetTimeout
    BY <1>2, GreetInv DEF GreetRead, GreetTimeout
  <1>3. CASE AckRead \/ AckTimeout
    BY <1>3, AckInv DEF AckRead, AckTimeout
  <1>4. CASE Read \/ ReadTimeout
    BY <1>4, ReadInv DEF Read, ReadTimeout
  <1>5. CASE OnVolumeDelta
    BY <1>5, OnVolumeDeltaInv
  <1>6. CASE OnAppSelected
    BY <1>6, OnAppSelectedInv DEF OnAppSelected
  <1>7. CASE OnMuteToggle
    BY <1>7, OnMuteToggleInv
  <1>8. CASE OnOther \/ NoMoreFrames
    BY <1>8, OnOtherInv DEF OnOther, NoMoreFrames
  <1>9. ASSUME NEW work \in SUBSET due, LoopTail(work)
        PROVE  sessions' \in HostLists /\ CachesInv' /\ WiresInv'
    BY <1>9, LoopTailInv DEF LoopTail
  <1> QED
    BY <1>1, <1>2, <1>3, <1>4, <1>5, <1>6, <1>7, <1>8, <1>9 DEF WorkerNext

-----------------------------------------------------------------------------
(* The knob and what happens from outside                                  *)

\* What is sent is made of events, whoever is there to read it.
LEMMA SentInv ==
    ASSUME CachesInv, WiresInv, NEW messages \in Seq(Events), DeviceSends(messages),
           UNCHANGED <<pc, plan, resume, decoder, caches>>,
           toDev' \in Seq(Commands \cup {Cut})
    PROVE  CachesInv' /\ WiresInv'
  <1>1. CachesInv'
    BY CachesKept
  <1> HIDE DEF Commands, Events
  <1>2. /\ toHost' \in Seq(Events \cup {Cut})
        /\ pc # "off" /\ toHost \in Seq(Events) => toHost' \in Seq(Events)
    BY SendsEvents DEF WiresInv
  <1> QED
    BY <1>1, <1>2 DEF WiresInv

\* Nothing is read but whole commands.
LEMMA ReceiveInv ==
    ASSUME CachesInv, WiresInv, Receive
    PROVE  DeviceNext /\ CachesInv' /\ WiresInv'
  <1>1. toDev \in Seq(Commands \cup {Cut}) /\ toDev # <<>> /\ Head(toDev) # Cut
    BY DEF Receive, WiresInv
  <1>2. Head(toDev) \in Commands /\ Tail(toDev) \in Seq(Commands \cup {Cut})
    <2> HIDE DEF Commands
    <2> QED
      BY <1>1
  <1>3. DeviceNext
    BY <1>2, HandlersAreDevice DEF Receive
  <1>4. Replies(Head(toDev)) \in Seq(Events)
    BY RepliesAreEvents
  <1>5. CachesInv' /\ WiresInv'
    BY <1>2, <1>4, SentInv DEF Receive
  <1> QED
    BY <1>3, <1>5

LEMMA LossInv ==
    ASSUME CachesInv, WiresInv, ReceiveGlued \/ LoseFrame
    PROVE  CachesInv' /\ WiresInv'
  <1>1. /\ toDev' = Tail(toDev) \/ (Len(toDev) > 1 /\ toDev' = Tail(Tail(toDev)))
        /\ toDev # <<>>
        /\ UNCHANGED <<pc, plan, resume, decoder, caches, toHost>>
    <2>1. CASE LoseFrame
      BY <2>1 DEF LoseFrame
    <2>2. CASE ReceiveGlued
      <3>1. /\ Len(toDev) > 1 /\ toDev' = Tail(Tail(toDev))
            /\ UNCHANGED <<pc, plan, resume, decoder, caches, toHost>>
        BY <2>2 DEF ReceiveGlued
      <3>2. toDev # <<>>
        BY ONLY <3>1
      <3> QED
        BY <3>1, <3>2
    <2> QED
      BY <2>1, <2>2
  <1>2. CachesInv'
    BY <1>1, CachesKept
  <1> HIDE DEF Commands, Events
  <1>3. toDev' \in Seq(Commands \cup {Cut})
    <2>1. toDev \in Seq(Commands \cup {Cut})
      BY DEF WiresInv
    <2>2. CASE toDev' = Tail(toDev)
      BY <1>1, <2>1, <2>2
    <2>3. CASE Len(toDev) > 1 /\ toDev' = Tail(Tail(toDev))
      <3> DEFINE rest == Tail(toDev)
      <3>1. rest \in Seq(Commands \cup {Cut}) /\ Len(rest) = Len(toDev) - 1
        BY <2>1, <2>3
      <3>2. toDev' = Tail(rest) /\ Len(toDev) \in Nat /\ Len(toDev) > 1
        BY <2>1, <2>3
      <3> HIDE DEF rest
      <3>3. rest # <<>>
        BY <3>1, <3>2
      <3> QED
        BY <3>1, <3>2, <3>3
    <2> QED
      BY <1>1, <2>2, <2>3
  <1> QED
    BY <1>1, <1>2, <1>3 DEF WiresInv

\* What the user does is reported for the app it was done to.
LEMMA UserInv ==
    ASSUME DeviceInv, CachesInv, WiresInv, UserTurns \/ UserSwipes \/ UserTaps
    PROVE  [DeviceNext]_deviceVars /\ CachesInv' /\ WiresInv'
  <1>1. /\ UNCHANGED <<pc, plan, resume, decoder, caches>>
        /\ toDev' \in Seq(Commands \cup {Cut})
    BY DEF UserTurns, UserSwipes, UserTaps, UserActs, envVars, WiresInv
  <1>2. selected_app \in Apps \cup {NoApp}
    BY DEF DeviceInv, DeviceTypeOK
  <1>3. Gesture \in Events
    BY DEF Events
  <1>4. CASE UserTurns
    <2>1. PICK delta \in Deltas :
            /\ Turn(delta)
            /\ DeviceSends(IF selected_app = NoApp
                              THEN <<>> ELSE <<VolumeDelta(selected_app, delta)>>)
      BY <1>4 DEF UserTurns
    <2> DEFINE sent == IF selected_app = NoApp
                          THEN <<>> ELSE <<VolumeDelta(selected_app, delta)>>
    <2>2. selected_app # NoApp => VolumeDelta(selected_app, delta) \in Events
      BY <1>2 DEF Events
    <2>3. sent \in Seq(Events)
      <3> HIDE DEF Events, VolumeDelta
      <3>1. CASE selected_app = NoApp
        BY <3>1
      <3>2. CASE selected_app # NoApp
        BY <2>2, <3>2
      <3> QED
        BY <3>1, <3>2
    <2>4. DeviceNext
      BY <2>1 DEF DeviceNext
    <2> QED
      BY <1>1, <2>1, <2>3, <2>4, SentInv
  <1>5. CASE UserSwipes
    <2>1. (SwipeLeft \/ SwipeRight) /\ DeviceSends(<<AppSelected(selected_app'), Gesture>>)
      BY <1>5 DEF UserSwipes
    <2>2. DeviceNext /\ DeviceInv'
      BY <2>1, DeviceNextInv DEF DeviceNext
    <2>3. selected_app' \in Apps
      <3>1. apps' # <<>>
        BY <2>1 DEF SwipeLeft, SwipeRight, Swipe
      <3> QED
        BY <2>2, <3>1 DEF DeviceInv, DeviceTypeOK, ListHasSelection
    <2>4. AppSelected(selected_app') \in Events
      BY <2>3 DEF Events
    <2>5. <<AppSelected(selected_app'), Gesture>> \in Seq(Events)
      <3> HIDE DEF Events, AppSelected, Gesture
      <3> QED
        BY <1>3, <2>4
    <2> QED
      BY <1>1, <2>1, <2>2, <2>5, SentInv
  <1>6. CASE UserTaps
    <2> DEFINE toggle == IF selected_app = NoApp THEN <<>> ELSE <<MuteToggle(selected_app)>>
               sent == toggle \o <<Gesture>>
    <2>1. DeviceSends(sent) /\ UNCHANGED deviceVars
      BY <1>6 DEF UserTaps
    <2>2. selected_app # NoApp => MuteToggle(selected_app) \in Events
      BY <1>2 DEF Events
    <2>3. sent \in Seq(Events)
      <3> HIDE DEF Events, MuteToggle, Gesture
      <3>1. toggle \in Seq(Events)
        BY <2>2
      <3>2. <<Gesture>> \in Seq(Events)
        BY <1>3
      <3> QED
        BY <3>1, <3>2
    <2> QED
      BY <1>1, <2>1, <2>3, SentInv
  <1> QED
    BY <1>4, <1>5, <1>6

\* The mixer's list stays one that the host may send.
LEMMA MixerInv ==
    ASSUME sessions \in HostLists, SessionStarts \/ SessionEnds \/ MixerChanges
    PROVE  sessions' \in HostLists
  BY MixerAssumption DEF SessionStarts, SessionEnds, MixerChanges

LEMMA SystemInitInv == SystemInit => SystemInv
  <1> SUFFICES ASSUME SystemInit PROVE SystemInv
    OBVIOUS
  <1>1. DeviceInv
    BY DeviceInitInv DEF SystemInit
  <1>2. sessions \in HostLists
    BY MixerAssumption DEF SystemInit
  <1>3. CachesInv
    BY DEF SystemInit, CompanionInit, CachesInv
  <1> HIDE DEF Commands, Events
  <1>4. WiresInv
    BY DEF SystemInit, CompanionInit, WiresInv
  <1> QED
    BY <1>1, <1>2, <1>3, <1>4 DEF SystemInv

\* Every step of the system is a step of the device or leaves it alone, and
\* keeps what makes the next one so.
LEMMA SystemStep ==
    ASSUME SystemInv, [SystemNext]_systemVars
    PROVE  [DeviceNext]_deviceVars /\ SystemInv'
  <1>0. DeviceInv /\ sessions \in HostLists /\ CachesInv /\ WiresInv
    BY DEF SystemInv
  <1> SUFFICES [DeviceNext]_deviceVars /\ sessions' \in HostLists /\ CachesInv' /\ WiresInv'
    BY <1>0, DeviceNextInv DEF SystemInv
  <1>1. CASE Receive
    BY <1>0, <1>1, ReceiveInv DEF Receive
  <1>2. CASE ReceiveGlued \/ LoseFrame
    BY <1>0, <1>2, LossInv DEF ReceiveGlued, LoseFrame
  <1>3. ASSUME UNCHANGED companionVars
        PROVE  sessions' \in HostLists /\ CachesInv' /\ WiresInv'
    BY <1>0, <1>3, CachesKept DEF companionVars, caches, wires, WiresInv
  <1>4. CASE LoseHost
    BY <1>3, <1>4 DEF LoseHost, DeviceNext
  <1>5. CASE UserTurns \/ UserSwipes \/ UserTaps
    BY <1>0, <1>5, UserInv DEF UserTurns, UserSwipes, UserTaps, UserActs
  <1>6. CASE UserSets \/ SessionStarts \/ SessionEnds \/ MixerChanges
    <2>1. /\ UNCHANGED <<deviceVars, pc, plan, resume, decoder, caches, wires>>
      BY <1>6 DEF UserSets, SessionStarts, SessionEnds, MixerChanges, MixerActs, envVars, wires
    <2>2. sessions' \in HostLists
      BY <1>0, <1>6, MixerInv DEF UserSets
    <2> QED
      BY <1>0, <2>1, <2>2, CachesKept DEF wires, WiresInv
  <1>7. CASE WorkerStarts
    BY <1>0, <1>7, StartInv DEF WorkerStarts
  <1>8. CASE WorkerExits
    BY <1>0, <1>8, ExitInv DEF WorkerExits, Exit
  <1>9. CASE WorkerSteps
    BY <1>0, <1>9, WorkerInv DEF WorkerSteps
  <1>10. CASE UNCHANGED systemVars
    BY <1>3, <1>10 DEF systemVars
  <1> QED
    BY <1>1, <1>2, <1>4, <1>5, <1>6, <1>7, <1>8, <1>9, <1>10 DEF SystemNext

\* Behind the theorems: everything on the wires is what one end may say and
\* the other expects (worker.rs and main.rs, every message sent).
THEOREM SystemInvariance == SystemSpec => []SystemInv
  <1>1. SystemInv /\ [SystemNext]_systemVars => SystemInv'
    BY SystemStep
  <1> QED
    BY <1>1, SystemInitInv, PTL DEF SystemSpec

\* Whatever worker, user, mixer, losses and restarts do, the firmware in the
\* system behaves as the open device (main.rs, the handlers of the main loop).
THEOREM SystemRefinement == SystemSpec => ImplementsDevice
  <1>1. SystemInit => DeviceInit
    BY DEF SystemInit
  <1>2. SystemInv /\ [SystemNext]_systemVars => [DeviceNext]_deviceVars
    BY SystemStep
  <1> QED
    BY <1>1, <1>2, SystemInvariance, PTL DEF SystemSpec, ImplementsDevice, DeviceSpec

\* Hence in the whole system an icon is never shown for another app, and what
\* is shown is what the list holds.
THEOREM SystemSession == SystemSpec => [](IconIsOfSelected /\ ShownIsListed)
  <1>1. SystemSpec => DeviceSpec
    BY SystemRefinement DEF ImplementsDevice
  <1> QED
    BY <1>1, IconSafety, ShownSafety, PTL

-----------------------------------------------------------------------------
(* Acks: the waits of the worker                                           *)

HasAck(wire) == \E i \in DOMAIN wire : wire[i] = Ack
HasGreeting(wire) == \E i \in DOMAIN wire : wire[i] \in {Ready, Pong}
OneAck(wire) == \E i \in DOMAIN wire : \A j \in DOMAIN wire : wire[j] = Ack <=> j = i

\* The device's decoder refuses no frame; workers still die in the middle of one.
NoLosses == \A s \in Scenarios : s.loss = 0
NoLossLeft == budget \in [user : Nat, mixer : Nat, exit : Nat, loss : {0}, calm : BOOLEAN]

\* Until the greeting is answered there is nothing on the wire but the Ping and
\* what earlier workers did not finish, and no Ack comes of that.
GreetingInv ==
    pc = "greet" =>
        /\ ~ HasAck(toHost) /\ ~ HasAck(decoder)
        /\ toDev # <<>> =>
              /\ toDev[Len(toDev)] = Ping
              /\ \A i \in DOMAIN toDev : i = Len(toDev) \/ toDev[i] = Cut
              /\ ~ HasGreeting(toHost) /\ ~ HasGreeting(decoder)

\* After it there is no fragment left that could spoil a command.
UncutInv == pc \in {"ack", "read", "decode", "tail"} => \A i \in DOMAIN toDev : toDev[i] # Cut

\* The command waited for in the initialisation, or its Ack, is all there is; and
\* not even that when the command was lost.
InStepInv ==
    pc = "ack" /\ resume = "read" =>
        /\ ~ HasAck(decoder)
        /\ \/ toDev = <<Head(plan)>> /\ ~ HasAck(toHost)
           \/ toDev = <<>> /\ (HasAck(toHost) => OneAck(toHost))

AckingInv == GreetingInv /\ UncutInv /\ InStepInv

\* Without losses there is a command or an Ack in every wait, in the main loop
\* perhaps another command's.
AwaitedInv ==
    pc = "ack" =>
        \/ \E i \in DOMAIN toDev : toDev[i].type # "Ping"
        \/ HasAck(toHost)
        \/ HasAck(decoder)

\* Sequences put together and taken apart.
LEMMA Joined ==
    ASSUME NEW S, NEW s \in Seq(S), NEW t \in Seq(S)
    PROVE  /\ HasAck(s \o t) <=> HasAck(s) \/ HasAck(t)
           /\ HasGreeting(s \o t) <=> HasGreeting(s) \/ HasGreeting(t)
           /\ ~ HasAck(s) /\ OneAck(t) => OneAck(s \o t)
           /\ OneAck(s) /\ ~ HasAck(t) => OneAck(s \o t)
  <1> HIDE DEF Ack, Ready, Pong
  <1>1. /\ s \o t \in Seq(S)
        /\ Len(s) \in Nat /\ Len(t) \in Nat
        /\ DOMAIN s = 1 .. Len(s) /\ DOMAIN t = 1 .. Len(t)
        /\ DOMAIN (s \o t) = 1 .. Len(s) + Len(t)
        /\ \A i \in 1 .. Len(s) : (s \o t)[i] = s[i]
        /\ \A i \in 1 .. Len(t) : (s \o t)[Len(s) + i] = t[i]
    OBVIOUS
  <1> DEFINE st == s \o t
  <1>2. \A i \in DOMAIN st : i \in Int /\ (i \in 1 .. Len(s) \/ i - Len(s) \in 1 .. Len(t))
    BY <1>1
  <1>3. \A i \in 1 .. Len(t) : Len(s) + i \in DOMAIN st /\ st[Len(s) + i] = t[i]
    BY <1>1
  <1>4. \A i \in 1 .. Len(s) : i \in DOMAIN st /\ st[i] = s[i]
    BY <1>1
  <1>5. \A i \in DOMAIN st : i - Len(s) \in 1 .. Len(t) => st[i] = t[i - Len(s)]
    <2> TAKE i \in DOMAIN st
    <2> HAVE i - Len(s) \in 1 .. Len(t)
    <2>1. i = Len(s) + (i - Len(s))
      BY <1>1
    <2> QED
      BY <2>1, <1>3
  <1> HIDE DEF st
  <1>6. HasAck(st) <=> HasAck(s) \/ HasAck(t)
    BY <1>1, <1>2, <1>3, <1>4, <1>5 DEF HasAck
  <1>7. HasGreeting(st) <=> HasGreeting(s) \/ HasGreeting(t)
    BY <1>1, <1>2, <1>3, <1>4, <1>5 DEF HasGreeting
  <1>8. ASSUME ~ HasAck(s), OneAck(t) PROVE OneAck(st)
    <2>1. PICK i \in 1 .. Len(t) : \A j \in 1 .. Len(t) : t[j] = Ack <=> j = i
      BY <1>1, <1>8 DEF OneAck
    <2>2. \A j \in DOMAIN st : st[j] = Ack <=> j = Len(s) + i
      <3> TAKE j \in DOMAIN st
      <3>1. CASE j \in 1 .. Len(s)
        BY <1>1, <1>4, <1>8, <3>1 DEF HasAck
      <3>2. CASE j - Len(s) \in 1 .. Len(t)
        <4>1. st[j] = t[j - Len(s)]
          BY <1>5, <3>2
        <4>2. j - Len(s) = i <=> j = Len(s) + i
          <5>1. j \in Int /\ i \in Int /\ Len(s) \in Int
            BY <1>1, <1>2
          <5> HIDE DEF st
          <5> QED
            BY ONLY <5>1
        <4> QED
          BY <2>1, <3>2, <4>1, <4>2
      <3> QED
        BY <1>2, <3>1, <3>2
    <2> QED
      BY <1>3, <2>2 DEF OneAck
  <1>9. ASSUME OneAck(s), ~ HasAck(t) PROVE OneAck(st)
    <2>1. PICK i \in 1 .. Len(s) : \A j \in 1 .. Len(s) : s[j] = Ack <=> j = i
      BY <1>1, <1>9 DEF OneAck
    <2>2. \A j \in DOMAIN st : st[j] = Ack <=> j = i
      BY <1>1, <1>2, <1>3, <1>4, <1>5, <1>9, <2>1 DEF HasAck
    <2> QED
      BY <1>4, <2>2 DEF OneAck
  <1> QED
    BY <1>6, <1>7, <1>8, <1>9 DEF st

LEMMA OneAckRest ==
    ASSUME NEW S, NEW s \in Seq(S), NEW t \in Seq(S), OneAck(s \o t)
    PROVE  /\ HasAck(s) => OneAck(s) /\ ~ HasAck(t)
           /\ ~ HasAck(s) => OneAck(t)
  <1> HIDE DEF Ack
  <1>1. /\ Len(s) \in Nat /\ Len(t) \in Nat
        /\ DOMAIN s = 1 .. Len(s) /\ DOMAIN t = 1 .. Len(t)
        /\ DOMAIN (s \o t) = 1 .. Len(s) + Len(t)
        /\ \A i \in 1 .. Len(s) : (s \o t)[i] = s[i]
        /\ \A i \in 1 .. Len(t) : (s \o t)[Len(s) + i] = t[i]
    OBVIOUS
  <1> DEFINE st == s \o t
  <1>2. PICK k \in DOMAIN st : \A j \in DOMAIN st : st[j] = Ack <=> j = k
    BY DEF OneAck
  <1>3. \A i \in DOMAIN s : s[i] = Ack <=> i = k
    BY <1>1, <1>2
  <1>4. \A i \in DOMAIN t : t[i] = Ack <=> i = k - Len(s)
    <2> TAKE i \in DOMAIN t
    <2>1. Len(s) + i \in DOMAIN st /\ st[Len(s) + i] = t[i] /\ i \in Int /\ k \in Int
      BY <1>1
    <2> HIDE DEF st
    <2>2. Len(s) + i = k <=> i = k - Len(s)
      BY <1>1, <2>1
    <2> QED
      BY <1>2, <2>1, <2>2
  <1>5. CASE k <= Len(s)
    <2>1. k \in DOMAIN s /\ k - Len(s) \notin DOMAIN t
      BY <1>1, <1>5
    <2> HIDE DEF st
    <2> QED
      BY <1>3, <1>4, <2>1 DEF HasAck, OneAck
  <1>6. CASE k > Len(s)
    <2>1. k \notin DOMAIN s /\ k - Len(s) \in DOMAIN t
      BY <1>1, <1>6
    <2> HIDE DEF st
    <2>2. ~ HasAck(s)
      BY <1>3, <2>1 DEF HasAck
    <2>3. OneAck(t)
      <3> DEFINE d == k - Len(s)
      <3>1. d \in DOMAIN t /\ \A i \in DOMAIN t : t[i] = Ack <=> i = d
        BY <1>4, <2>1
      <3> HIDE DEF d
      <3> QED
        BY <3>1 DEF OneAck
    <2> QED
      BY <2>2, <2>3
  <1> QED
    BY <1>1, <1>2, <1>5, <1>6

LEMMA Suffix ==
    ASSUME NEW S, NEW s \in Seq(S), NEW k \in Nat, k <= Len(s)
    PROVE  /\ SubSeq(s, k + 1, Len(s)) \in Seq(S)
           /\ Len(SubSeq(s, k + 1, Len(s))) = Len(s) - k
           /\ \A i \in DOMAIN SubSeq(s, k + 1, Len(s)) :
                 k + i \in DOMAIN s /\ SubSeq(s, k + 1, Len(s))[i] = s[k + i]
           /\ \A i \in DOMAIN s : i > k =>
                 /\ i - k \in DOMAIN SubSeq(s, k + 1, Len(s))
                 /\ SubSeq(s, k + 1, Len(s))[i - k] = s[i]
  <1>1. k + 1 \in 1 .. Len(s) + 1 /\ Len(s) \in Nat
    OBVIOUS
  <1>2. /\ SubSeq(s, k + 1, Len(s)) \in Seq(S)
        /\ Len(SubSeq(s, k + 1, Len(s))) = Len(s) - k
        /\ DOMAIN SubSeq(s, k + 1, Len(s)) = 1 .. Len(s) - k
    BY <1>1
  <1>3. \A i \in 1 .. Len(s) - k : SubSeq(s, k + 1, Len(s))[i] = s[k + i]
    BY <1>1
  <1>4. \A i \in DOMAIN s : i > k => i - k \in 1 .. Len(s) - k /\ k + (i - k) = i
    BY <1>1
  <1> QED
    BY <1>1, <1>2, <1>3, <1>4

\* A chunk and what it leaves are the wire.
LEMMA ChunkSplits ==
    ASSUME toHost \in Seq(Events), NEW chunk \in Chunks, TakeChunk(chunk)
    PROVE  /\ chunk \in Seq(Events) /\ toHost' \in Seq(Events)
           /\ toHost = chunk \o toHost'
  <1> HIDE DEF Events
  <1>1. PICK k \in 1 .. Len(toHost) : chunk = SubSeq(toHost, 1, k)
    BY DEF Chunks
  <1>2. chunk \in Seq(Events) /\ Len(chunk) = k
    BY <1>1
  <1>3. toHost' = SubSeq(toHost, k + 1, Len(toHost))
    BY <1>2 DEF TakeChunk
  <1>4. k \in Nat /\ k <= Len(toHost)
    OBVIOUS
  <1>5. toHost' \in Seq(Events) /\ Len(toHost') = Len(toHost) - k
    BY <1>3, <1>4, Suffix
  <1>6. toHost = chunk \o toHost'
    <2>1. Len(chunk \o toHost') = Len(toHost) /\ chunk \o toHost' \in Seq(Events)
      BY <1>2, <1>5
    <2>2. \A i \in 1 .. Len(toHost) : (chunk \o toHost')[i] = toHost[i]
      <3> TAKE i \in 1 .. Len(toHost)
      <3>1. CASE i <= k
        BY <1>1, <1>2, <1>5, <3>1
      <3>2. CASE i > k
        <4>1. i - k \in DOMAIN toHost' /\ toHost'[i - k] = toHost[i]
          BY <1>3, <1>4, <3>2, Suffix
        <4>2. (chunk \o toHost')[i] = toHost'[i - k]
          BY <1>2, <1>5, <3>2, <4>1
        <4> QED
          BY <4>1, <4>2
      <3>3. i <= k \/ i > k
        BY <1>4
      <3> QED
        BY <3>1, <3>2, <3>3
    <2> HIDE DEF Chunks, TakeChunk
    <2> QED
      BY <2>1, <2>2, SeqEqual
  <1> QED
    BY <1>2, <1>5, <1>6

-----------------------------------------------------------------------------
(* Steps                                                                   *)

LEMMA LossesStay ==
    ASSUME NoLossLeft, [SystemNext]_systemVars
    PROVE  NoLossLeft' /\ ~ LoseFrame
  <1>1. ~ Spend("loss")
    BY DEF Spend, NoLossLeft
  <1>2. Spend("user") \/ Spend("mixer") \/ Spend("exit") => NoLossLeft'
    BY DEF Spend, NoLossLeft
  <1>3. UNCHANGED budget => NoLossLeft'
    BY DEF NoLossLeft
  <1>4. Spend("loss") \/ Spend("user") \/ Spend("mixer") \/ Spend("exit") \/ UNCHANGED budget
    BY DEF SystemNext, systemVars, Receive, ReceiveGlued, LoseFrame, LoseHost, UserTurns,
           UserSwipes, UserTaps, UserSets, UserActs, SessionStarts, SessionEnds,
           MixerChanges, MixerActs, WorkerStarts, WorkerExits, WorkerSteps
  <1> QED
    BY <1>1, <1>2, <1>3, <1>4 DEF LoseFrame

\* What the user does is not taken for an answer.
LEMMA SentAcking ==
    ASSUME AckingInv, WiresInv, NEW messages \in Seq(Events),
           ~ HasAck(messages), ~ HasGreeting(messages), DeviceSends(messages),
           UNCHANGED <<pc, plan, resume, decoder, toDev>>
    PROVE  AckingInv' /\ (AwaitedInv => AwaitedInv')
  <1> HIDE DEF Events, Commands
  <1>1. CASE pc \notin {"greet", "ack"}
    BY <1>1 DEF AckingInv, GreetingInv, UncutInv, InStepInv, AwaitedInv
  <1>2. CASE pc \in {"greet", "ack"}
    <2>1. toHost' = toHost \o messages /\ toHost \in Seq(Events)
      BY <1>2 DEF DeviceSends, WiresInv
    <2>2. /\ HasAck(toHost') <=> HasAck(toHost)
          /\ HasGreeting(toHost') <=> HasGreeting(toHost)
          /\ OneAck(toHost) => OneAck(toHost')
      BY <2>1, Joined
    <2>3. HasAck(decoder') <=> HasAck(decoder)
      OBVIOUS
    <2>4. HasGreeting(decoder') <=> HasGreeting(decoder)
      OBVIOUS
    <2>5. HasAck(toHost)' = HasAck(toHost') /\ HasAck(decoder)' = HasAck(decoder')
          /\ HasGreeting(toHost)' = HasGreeting(toHost')
          /\ HasGreeting(decoder)' = HasGreeting(decoder')
          /\ OneAck(toHost)' = OneAck(toHost')
      BY DEF HasAck, HasGreeting, OneAck
    <2> HIDE DEF HasAck, HasGreeting, OneAck
    <2> QED
      BY <1>2, <2>2, <2>3, <2>4, <2>5
         DEF AckingInv, GreetingInv, UncutInv, InStepInv, AwaitedInv
  <1> QED
    BY <1>1, <1>2

\* An answer is an Ack exactly where one is due.
LEMMA RepliesAck ==
    ASSUME NEW m
    PROVE  /\ m.type = "Ping" => ~ HasAck(Replies(m))
           /\ m.type # "Ping" => OneAck(Replies(m)) /\ HasAck(Replies(m))
  <1>1. Ack # Ready /\ Ack # Pong
    BY DEF Ack, Ready, Pong
  <1> HIDE DEF Ack, Ready, Pong
  <1>2. CASE m.type = "Ping"
    BY <1>1, <1>2 DEF Replies, HasAck
  <1>3. CASE m.type # "Ping"
    <2>1. CASE ready_sent
      <3>1. Replies(m) = <<Ack>>
        BY <1>3, <2>1 DEF Replies
      <3> QED
        BY <1>3, <3>1 DEF HasAck, OneAck
    <2>2. CASE ~ ready_sent
      <3>1. Replies(m) = <<Ready>> \o <<Ack>>
        BY <1>3, <2>2 DEF Replies
      <3>2. <<Ready>> \in Seq({Ready, Ack}) /\ <<Ack>> \in Seq({Ready, Ack})
        OBVIOUS
      <3>3. ~ HasAck(<<Ready>>) /\ HasAck(<<Ack>>) /\ OneAck(<<Ack>>)
        <4>1. \A x : DOMAIN <<x>> = {1} /\ <<x>>[1] = x
          OBVIOUS
        <4>2. HasAck(<<Ack>>) /\ ~ HasAck(<<Ready>>)
          BY <1>1, <4>1 DEF HasAck
        <4>3. OneAck(<<Ack>>)
          <5>1. \A j \in DOMAIN <<Ack>> : <<Ack>>[j] = Ack <=> j = 1
            BY <4>1
          <5>2. 1 \in DOMAIN <<Ack>>
            BY <4>1
          <5> DEFINE w == <<Ack>>
          <5> HIDE DEF w
          <5>3. (1 \in DOMAIN w /\ \A j \in DOMAIN w : w[j] = Ack <=> j = 1) => OneAck(w)
            BY DEF OneAck
          <5> QED
            BY <5>1, <5>2, <5>3 DEF w
        <4> QED
          BY <4>2, <4>3
      <3> QED
        <4>1. OneAck(Replies(m)) /\ HasAck(Replies(m))
          <5> DEFINE r == <<Ready>>
                     a == <<Ack>>
          <5>1. r \in Seq({Ready, Ack}) /\ a \in Seq({Ready, Ack}) /\ Replies(m) = r \o a
            BY <3>1, <3>2
          <5>2. ~ HasAck(r) /\ HasAck(a) /\ OneAck(a)
            BY <3>3
          <5> HIDE DEF r, a
          <5> QED
            BY ONLY <5>1, <5>2, Joined
        <4> QED
          BY <1>3, <4>1
    <2> QED
      BY <2>1, <2>2
  <1> QED
    BY <1>2, <1>3

LEMMA ReceiveAcking ==
    ASSUME AckingInv, WiresInv, Receive
    PROVE  AckingInv' /\ (AwaitedInv => AwaitedInv')
  <1> DEFINE m == Head(toDev)
  <1> HIDE DEF Events, Commands
  <1>1. /\ toDev \in Seq(Commands \cup {Cut}) /\ toDev # <<>> /\ m # Cut /\ m \in Commands
        /\ m = toDev[1] /\ toDev' = Tail(toDev)
        /\ UNCHANGED <<pc, plan, resume, decoder>>
        /\ DeviceSends(Replies(m))
    BY DEF Receive, WiresInv
  <1>2. \A i \in DOMAIN toDev' : i + 1 \in DOMAIN toDev /\ toDev'[i] = toDev[i + 1]
    BY <1>1
  <1>3. \A i \in DOMAIN toDev : i = 1 \/ (i - 1 \in DOMAIN toDev' /\ toDev'[i - 1] = toDev[i])
    BY <1>1
  <1>4. pc # "off" => toHost' = toHost \o Replies(m)
    BY <1>1 DEF DeviceSends
  <1>5. pc \notin {"off", "drain"} =>
           /\ HasAck(toHost') <=> HasAck(toHost) \/ HasAck(Replies(m))
           /\ ~ HasAck(toHost) /\ OneAck(Replies(m)) => OneAck(toHost')
    <2> SUFFICES ASSUME pc \notin {"off", "drain"}
                 PROVE  /\ HasAck(toHost') <=> HasAck(toHost) \/ HasAck(Replies(m))
                        /\ ~ HasAck(toHost) /\ OneAck(Replies(m)) => OneAck(toHost')
      OBVIOUS
    <2>1. toHost \in Seq(Events) /\ toHost' = toHost \o Replies(m)
      BY <1>4 DEF WiresInv
    <2>2. Replies(m) \in Seq(Events)
      BY RepliesAreEvents
    <2> HIDE DEF m
    <2> QED
      BY ONLY <2>1, <2>2, Joined
  <1>6. /\ HasAck(toHost)' = HasAck(toHost') /\ HasAck(decoder)' = HasAck(decoder)
        /\ OneAck(toHost)' = OneAck(toHost')
    BY <1>1 DEF HasAck, OneAck
  <1>7. /\ m.type = "Ping" => ~ HasAck(Replies(m))
        /\ m.type # "Ping" => OneAck(Replies(m)) /\ HasAck(Replies(m))
    BY RepliesAck
  <1>8. GreetingInv'
    <2> SUFFICES ASSUME pc = "greet"
                 PROVE  ~ HasAck(toHost') /\ ~ HasAck(decoder) /\ toDev' = <<>>
      BY <1>1, <1>6 DEF GreetingInv
    <2>1. /\ ~ HasAck(toHost) /\ ~ HasAck(decoder)
          /\ toDev[Len(toDev)] = Ping
          /\ \A i \in DOMAIN toDev : i = Len(toDev) \/ toDev[i] = Cut
      BY <1>1 DEF AckingInv, GreetingInv
    <2>2. Len(toDev) = 1
      <3>1. 1 \in DOMAIN toDev /\ toDev[1] # Cut
        BY <1>1
      <3> QED
        BY <2>1, <3>1
    <2>3. m.type = "Ping"
      BY <1>1, <2>1, <2>2 DEF Ping
    <2>4. toDev' = <<>>
      BY <1>1, <2>2
    <2> HIDE DEF m
    <2> QED
      BY <1>5, <1>7, <2>1, <2>3, <2>4
  <1>9. UncutInv'
    BY <1>1, <1>2 DEF AckingInv, UncutInv
  <1>10. InStepInv'
    <2> SUFFICES ASSUME pc = "ack", resume = "read"
                 PROVE  ~ HasAck(decoder) /\ toDev' = <<>> /\ OneAck(toHost')
      BY <1>1, <1>6 DEF InStepInv
    <2>1. ~ HasAck(decoder) /\ toDev = <<Head(plan)>> /\ ~ HasAck(toHost)
      BY <1>1 DEF AckingInv, InStepInv
    <2>2. toDev' = <<>> /\ m = Head(plan)
      BY <1>1, <2>1
    <2>3. Head(plan).type # "Ping"
      <3>1. plan \in Seq(Awaited) /\ plan # <<>>
        BY DEF WiresInv
      <3>2. Head(plan) \in Awaited
        BY <3>1
      <3> QED
        BY <3>2 DEF Awaited
    <2> HIDE DEF m
    <2> QED
      BY <1>5, <1>7, <2>1, <2>2, <2>3
  <1>11. AwaitedInv => AwaitedInv'
    <2> SUFFICES ASSUME AwaitedInv, pc = "ack"
                 PROVE  \/ \E i \in DOMAIN toDev' : toDev'[i].type # "Ping"
                        \/ HasAck(toHost') \/ HasAck(decoder)
      BY <1>1, <1>6 DEF AwaitedInv
    <2>1. \/ \E i \in DOMAIN toDev : toDev[i].type # "Ping"
          \/ HasAck(toHost) \/ HasAck(decoder)
      BY DEF AwaitedInv
    <2> QED
      BY <1>1, <1>3, <1>5, <1>7, <2>1
  <1> QED
    BY <1>8, <1>9, <1>10, <1>11 DEF AckingInv

\* Only before the greeting is there a fragment to be glued to.
LEMMA GluedAcking ==
    ASSUME AckingInv, WiresInv, ReceiveGlued
    PROVE  AckingInv' /\ (AwaitedInv => AwaitedInv')
  <1> HIDE DEF Events, Commands
  <1>1. /\ toDev \in Seq(Commands \cup {Cut}) /\ Len(toDev) > 1 /\ toDev[1] = Cut
        /\ toDev' = Tail(Tail(toDev))
        /\ UNCHANGED <<pc, plan, resume, decoder, toHost>>
    BY DEF ReceiveGlued, WiresInv
  <1>2. pc \in {"off", "drain", "greet"} \/ pc \notin {"off", "drain", "greet", "ack", "read", "decode", "tail"}
    BY <1>1 DEF AckingInv, UncutInv
  <1>3. GreetingInv'
    <2> SUFFICES ASSUME pc = "greet", toDev' # <<>>
                 PROVE  /\ toDev'[Len(toDev')] = Ping
                        /\ \A i \in DOMAIN toDev' : i = Len(toDev') \/ toDev'[i] = Cut
      <3>1. toDev # <<>> /\ (pc' = "greet" <=> pc = "greet")
        BY <1>1
      <3>2. /\ HasAck(toHost)' = HasAck(toHost) /\ HasAck(decoder)' = HasAck(decoder)
            /\ HasGreeting(toHost)' = HasGreeting(toHost)
            /\ HasGreeting(decoder)' = HasGreeting(decoder)
        BY <1>1 DEF HasAck, HasGreeting
      <3> HIDE DEF HasAck, HasGreeting
      <3> QED
        BY <3>1, <3>2 DEF AckingInv, GreetingInv
    <2> DEFINE rest == Tail(toDev)
    <2>1. /\ rest \in Seq(Commands \cup {Cut}) /\ Len(rest) = Len(toDev) - 1 /\ Len(toDev) \in Nat
          /\ \A i \in 1 .. Len(rest) : rest[i] = toDev[i + 1]
      BY <1>1
    <2>2. rest # <<>>
      BY <1>1, <2>1
    <2>3. toDev' = Tail(rest)
      BY <1>1
    <2> HIDE DEF rest
    <2>4. /\ Len(toDev') = Len(rest) - 1 /\ DOMAIN toDev' = 1 .. Len(rest) - 1
          /\ \A i \in DOMAIN toDev' : toDev'[i] = rest[i + 1]
      BY <2>1, <2>2, <2>3
    <2>5. /\ Len(toDev') = Len(toDev) - 2 /\ DOMAIN toDev' = 1 .. Len(toDev) - 2
          /\ \A i \in DOMAIN toDev' : toDev'[i] = toDev[i + 2]
      BY <2>1, <2>4
    <2>6. /\ toDev[Len(toDev)] = Ping
          /\ \A i \in DOMAIN toDev : i = Len(toDev) \/ toDev[i] = Cut
      BY <1>1 DEF AckingInv, GreetingInv
    <2>7. Len(toDev) - 2 \in DOMAIN toDev'
      <3>1. Len(toDev') # 0
        BY <2>1, <2>2, <2>3
      <3> QED
        BY <1>1, <2>1, <2>5, <3>1
    <2>8. toDev'[Len(toDev')] = Ping
      BY <2>1, <2>5, <2>6, <2>7
    <2>9. \A i \in DOMAIN toDev' : i = Len(toDev') \/ toDev'[i] = Cut
      <3> TAKE i \in DOMAIN toDev'
      <3>1. i + 2 \in DOMAIN toDev /\ toDev'[i] = toDev[i + 2] /\ i \in Int
        <4>1. /\ DOMAIN toDev' = 1 .. Len(toDev) - 2 /\ toDev'[i] = toDev[i + 2]
              /\ DOMAIN toDev = 1 .. Len(toDev) /\ Len(toDev) \in Nat
          BY <1>1, <2>5
        <4> QED
          BY ONLY <4>1, i \in DOMAIN toDev'
      <3>2. i + 2 = Len(toDev) => i = Len(toDev')
        BY <2>1, <2>5, <3>1
      <3> QED
        BY <2>6, <3>1, <3>2
    <2> QED
      BY <2>8, <2>9
  <1> QED
    BY <1>1, <1>2, <1>3 DEF AckingInv, UncutInv, InStepInv, AwaitedInv

LEMMA DrainAcking ==
    ASSUME AckingInv, WiresInv, Drain
    PROVE  AckingInv' /\ (AwaitedInv => AwaitedInv')
  <1> HIDE DEF Events, Commands
  <1>1. /\ toDev \in Seq(Commands \cup {Cut}) /\ \A i \in DOMAIN toDev : toDev[i] = Cut
        /\ toDev' = Append(toDev, Ping) /\ toHost' = <<>> /\ decoder' = <<>> /\ pc' = "greet"
    BY DEF Drain, Whole, WiresInv
  <1>2. /\ Len(toDev') = Len(toDev) + 1 /\ DOMAIN toDev' = 1 .. Len(toDev) + 1
        /\ toDev'[Len(toDev) + 1] = Ping
        /\ \A i \in 1 .. Len(toDev) : toDev'[i] = toDev[i]
        /\ Len(toDev) \in Nat /\ DOMAIN toDev = 1 .. Len(toDev)
    <2> HIDE DEF Ping
    <2> QED
      BY <1>1
  <1>3. \A i \in DOMAIN toDev' : i = Len(toDev') \/ toDev'[i] = Cut
    <2> TAKE i \in DOMAIN toDev'
    <2>1. i \in 1 .. Len(toDev) \/ i = Len(toDev')
      BY <1>2
    <2> QED
      BY <1>1, <1>2, <2>1
  <1>4. /\ ~ HasAck(toHost)' /\ ~ HasAck(decoder)'
        /\ ~ HasGreeting(toHost)' /\ ~ HasGreeting(decoder)'
    BY <1>1 DEF HasAck, HasGreeting
  <1> QED
    BY <1>1, <1>2, <1>3, <1>4 DEF AckingInv, GreetingInv, UncutInv, InStepInv, AwaitedInv

\* An answer to the Ping finds the wire empty, and so does giving up on it.
LEMMA GreetAcking ==
    ASSUME AckingInv, CachesInv, WiresInv, GreetRead \/ GreetTimeout
    PROVE  AckingInv' /\ (AwaitedInv => AwaitedInv')
  <1> HIDE DEF Events, Commands
  <1>1. /\ pc = "greet" /\ app_infos # <<>>
        /\ toHost \in Seq(Events) /\ decoder \in Seq(Events)
        /\ toDev \in Seq(Commands \cup {Cut})
    BY DEF GreetRead, GreetTimeout, CachesInv, WiresInv
  <1>2. /\ ~ HasAck(toHost) /\ ~ HasAck(decoder)
        /\ toDev # <<>> =>
              /\ toDev[Len(toDev)] = Ping
              /\ \A i \in DOMAIN toDev : i = Len(toDev) \/ toDev[i] = Cut
              /\ ~ HasGreeting(toHost) /\ ~ HasGreeting(decoder)
    BY <1>1 DEF AckingInv, GreetingInv
  <1>3. ASSUME BeginPlan, toDev = <<>>, ~ HasAck(toHost'), ~ HasAck(decoder')
        PROVE  AckingInv' /\ AwaitedInv'
    <2>1. /\ plan' \in Seq(Awaited) /\ plan' # <<>>
          /\ resume' = "read" /\ pc' = "ack"
          /\ toDev' = Append(toDev, Head(plan'))
      BY <1>1, <1>3, BeginPlanIsCommands
    <2>2. Head(plan') \in Awaited
      BY <2>1
    <2>3. Head(plan') # Cut /\ Head(plan').type # "Ping"
      BY <2>2, CutAssumption DEF Awaited
    <2>4. toDev' = <<Head(plan')>>
      BY <1>3, <2>1
    <2>5. \A i \in DOMAIN toDev' : toDev'[i] # Cut
      BY <2>3, <2>4
    <2>6. HasAck(toHost)' = HasAck(toHost') /\ HasAck(decoder)' = HasAck(decoder')
      BY DEF HasAck
    <2>7. AwaitedInv'
      BY <2>3, <2>4 DEF AwaitedInv
    <2> QED
      BY <1>3, <2>1, <2>4, <2>5, <2>6, <2>7 DEF AckingInv, GreetingInv, UncutInv, InStepInv
  <1>4. CASE GreetRead
    <2>1. PICK chunk \in Chunks :
            LET frames == decoder \o chunk
                hits == {i \in DOMAIN frames : frames[i] \in {Ready, Pong}}
            IN /\ TakeChunk(chunk)
               /\ IF hits = {}
                     THEN /\ decoder' = <<>>
                          /\ UNCHANGED <<pc, plan, resume, toDev>>
                     ELSE \E first \in hits :
                            /\ \A i \in hits : first <= i
                            /\ decoder' = SubSeq(frames, first + 1, Len(frames))
                            /\ BeginPlan
      BY <1>4 DEF GreetRead
    <2>2. /\ chunk \in Seq(Events) /\ toHost' \in Seq(Events) /\ toHost = chunk \o toHost'
      BY <1>1, <2>1, ChunkSplits
    <2> DEFINE frames == decoder \o chunk
               hits == {i \in DOMAIN frames : frames[i] \in {Ready, Pong}}
    <2>3. /\ ~ HasAck(chunk) /\ ~ HasAck(toHost')
          /\ HasGreeting(toHost) <=> HasGreeting(chunk) \/ HasGreeting(toHost')
      BY <1>2, <2>2, Joined
    <2>4. /\ ~ HasAck(frames)
          /\ HasGreeting(frames) <=> HasGreeting(decoder) \/ HasGreeting(chunk)
      BY <1>1, <1>2, <2>2, <2>3, Joined
    <2>5. frames \in Seq(Events)
      BY <1>1, <2>2
    <2>6. HasGreeting(frames) <=> hits # {}
      BY DEF HasGreeting
    <2>7. CASE hits = {}
      <3>1. decoder' = <<>> /\ UNCHANGED <<pc, plan, resume, toDev>>
        BY <2>1, <2>7
      <3>2. ~ HasAck(<<>>) /\ ~ HasGreeting(<<>>)
        BY DEF HasAck, HasGreeting
      <3>3. /\ HasAck(toHost)' = HasAck(toHost') /\ HasAck(decoder)' = HasAck(decoder')
            /\ HasGreeting(toHost)' = HasGreeting(toHost')
            /\ HasGreeting(decoder)' = HasGreeting(decoder')
        BY DEF HasAck, HasGreeting
      <3> HIDE DEF frames, hits
      <3>4. toDev # <<>> => ~ HasGreeting(toHost')
        BY <1>2, <2>3
      <3> QED
        BY <1>1, <1>2, <2>3, <3>1, <3>2, <3>3, <3>4
           DEF AckingInv, GreetingInv, UncutInv, InStepInv, AwaitedInv
    <2>8. CASE hits # {}
      <3>1. PICK first \in hits :
               decoder' = SubSeq(frames, first + 1, Len(frames)) /\ BeginPlan
        BY <2>1, <2>8
      <3> HIDE DEF hits
      <3>2. toDev = <<>>
        BY <1>2, <2>3, <2>4, <2>6, <2>8
      <3>3. first \in Nat /\ first <= Len(frames)
        BY <2>5 DEF hits
      <3> HIDE DEF frames
      <3>4. ~ HasAck(decoder')
        BY <2>4, <2>5, <3>1, <3>3, Suffix DEF HasAck
      <3> QED
        BY <1>3, <2>3, <3>1, <3>2, <3>4
    <2> QED
      BY <2>7, <2>8
  <1>5. CASE GreetTimeout
    <2>1. ~ Whole(toDev) /\ BeginPlan /\ UNCHANGED <<decoder, toHost>>
      BY <1>5 DEF GreetTimeout
    <2>2. Ping # Cut
      BY CutAssumption DEF Commands
    <2>3. toDev = <<>>
      <3>1. toDev # <<>> => Len(toDev) \in DOMAIN toDev
        BY <1>1
      <3> QED
        BY <1>2, <2>1, <2>2, <3>1 DEF Whole
    <2> QED
      BY <1>2, <1>3, <2>1, <2>3
  <1> QED
    BY <1>4, <1>5

\* One Ack ends one wait; in the initialisation it is that of the command.
LEMMA AckAcking ==
    ASSUME AckingInv, WiresInv, AckRead \/ AckTimeout
    PROVE  AckingInv' /\ (AwaitedInv => AwaitedInv')
  <1> HIDE DEF Events, Commands
  <1>1. /\ pc = "ack" /\ plan # <<>> /\ plan \in Seq(Awaited) /\ resume \in {"read", "decode"}
        /\ toHost \in Seq(Events) /\ decoder \in Seq(Events)
        /\ toDev \in Seq(Commands \cup {Cut})
        /\ \A i \in DOMAIN toDev : toDev[i] # Cut
    BY DEF AckRead, AckTimeout, WiresInv, AckingInv, UncutInv
  <1>2. resume = "read" =>
           /\ ~ HasAck(decoder)
           /\ \/ toDev = <<Head(plan)>> /\ ~ HasAck(toHost)
              \/ toDev = <<>> /\ (HasAck(toHost) => OneAck(toHost))
    BY <1>1 DEF AckingInv, InStepInv
  <1>3. /\ HasAck(toHost)' = HasAck(toHost') /\ HasAck(decoder)' = HasAck(decoder')
        /\ OneAck(toHost)' = OneAck(toHost')
    BY DEF HasAck, OneAck
  <1>4. ASSUME NextOfPlan,
               resume = "read" => toDev = <<>> /\ ~ HasAck(toHost') /\ ~ HasAck(decoder')
        PROVE  AckingInv' /\ AwaitedInv'
    <2>1. /\ plan' \in Seq(Awaited) /\ resume' = resume /\ pc' \in {"ack", "read", "decode"}
          /\ pc' = "ack" => plan' # <<>> /\ toDev' = Append(toDev, Head(plan'))
          /\ pc' # "ack" => pc' = resume /\ toDev' = toDev
      BY <1>1, <1>4, NextOfPlanIsCommands
    <2>2. CASE pc' # "ack"
      BY <1>1, <2>1, <2>2 DEF AckingInv, GreetingInv, UncutInv, InStepInv, AwaitedInv
    <2>3. CASE pc' = "ack"
      <3>1. Head(plan') \in Awaited
        BY <2>1, <2>3
      <3>2. Head(plan') # Cut /\ Head(plan').type # "Ping"
        BY <3>1, CutAssumption DEF Awaited
      <3>3. /\ DOMAIN toDev' = 1 .. Len(toDev) + 1 /\ Len(toDev) \in Nat
            /\ toDev'[Len(toDev) + 1] = Head(plan')
            /\ \A i \in 1 .. Len(toDev) : toDev'[i] = toDev[i]
            /\ DOMAIN toDev = 1 .. Len(toDev)
        <4>1. Head(plan') \in Commands \cup {Cut} /\ toDev' = Append(toDev, Head(plan'))
          BY <2>1, <2>3, <3>1 DEF Awaited
        <4> QED
          BY <1>1, <4>1
      <3>4. UncutInv'
        BY <1>1, <3>2, <3>3 DEF UncutInv
      <3>5. AwaitedInv'
        BY <3>2, <3>3 DEF AwaitedInv
      <3>6. InStepInv'
        <4>1. resume = "read" => toDev' = <<Head(plan')>>
          BY <1>4, <2>1, <2>3
        <4> QED
          BY <1>3, <1>4, <2>1, <4>1 DEF InStepInv
      <3>7. GreetingInv'
        BY <2>3 DEF GreetingInv
      <3> QED
        BY <3>4, <3>5, <3>6, <3>7 DEF AckingInv
    <2> QED
      BY <2>2, <2>3
  <1>5. CASE AckRead
    <2>1. PICK chunk \in Chunks :
            LET frames == decoder \o chunk
                hits == {i \in DOMAIN frames : frames[i] = Ack}
            IN /\ TakeChunk(chunk)
               /\ IF hits = {}
                     THEN /\ decoder' = <<>>
                          /\ UNCHANGED <<pc, plan, resume, toDev>>
                     ELSE \E first \in hits :
                            /\ \A i \in hits : first <= i
                            /\ decoder' = SubSeq(frames, first + 1, Len(frames))
                            /\ NextOfPlan
      BY <1>5 DEF AckRead
    <2>2. /\ chunk \in Seq(Events) /\ toHost' \in Seq(Events) /\ toHost = chunk \o toHost'
      BY <1>1, <2>1, ChunkSplits
    <2> DEFINE frames == decoder \o chunk
               hits == {i \in DOMAIN frames : frames[i] = Ack}
    <2>3. frames \in Seq(Events) /\ (HasAck(frames) <=> hits # {})
      BY <1>1, <2>2 DEF HasAck
    <2>4. /\ HasAck(frames) <=> HasAck(decoder) \/ HasAck(chunk)
          /\ HasAck(toHost) <=> HasAck(chunk) \/ HasAck(toHost')
      BY <1>1, <2>2, Joined
    <2>5. CASE hits = {}
      <3>1. decoder' = <<>> /\ UNCHANGED <<pc, plan, resume, toDev>>
        BY <2>1, <2>5
      <3>2. ~ HasAck(decoder) /\ ~ HasAck(chunk)
        BY <2>3, <2>4, <2>5
      <3>3. OneAck(toHost) => OneAck(toHost')
        BY <2>2, <3>2, OneAckRest
      <3>4. ~ HasAck(<<>>)
        BY DEF HasAck
      <3> HIDE DEF frames, hits
      <3>5. InStepInv'
        BY <1>1, <1>2, <1>3, <2>4, <3>1, <3>2, <3>3, <3>4 DEF InStepInv
      <3>6. AwaitedInv => AwaitedInv'
        BY <1>1, <1>3, <2>4, <3>1, <3>2 DEF AwaitedInv
      <3> QED
        BY <1>1, <3>1, <3>5, <3>6 DEF AckingInv, GreetingInv, UncutInv
    <2>6. CASE hits # {}
      <3>1. PICK first \in hits :
               decoder' = SubSeq(frames, first + 1, Len(frames)) /\ NextOfPlan
        BY <2>1, <2>6
      <3>2. first \in DOMAIN frames /\ frames[first] = Ack
        OBVIOUS
      <3>3. first \in Nat /\ first <= Len(frames)
        BY <2>3, <3>2
      <3>4. SUFFICES ASSUME resume = "read"
                     PROVE  toDev = <<>> /\ ~ HasAck(toHost') /\ ~ HasAck(decoder')
        BY <1>4, <3>1
      <3>5. ~ HasAck(decoder) /\ HasAck(chunk)
        BY <1>2, <2>3, <2>4, <2>6, <3>4
      <3>6. toDev = <<>> /\ OneAck(toHost)
        BY <1>2, <2>4, <3>4, <3>5
      <3>7. OneAck(chunk) /\ ~ HasAck(toHost')
        BY <2>2, <3>5, <3>6, OneAckRest
      <3>8. OneAck(frames)
        BY <1>1, <2>2, <3>5, <3>7, Joined
      <3> HIDE DEF frames, hits
      <3>9. ~ HasAck(decoder')
        <4>1. PICK k \in DOMAIN frames : \A j \in DOMAIN frames : frames[j] = Ack <=> j = k
          BY <3>8 DEF OneAck
        <4>2. k = first
          BY <3>2, <4>1
        <4>3. \A i \in DOMAIN decoder' :
                 first + i \in DOMAIN frames /\ decoder'[i] = frames[first + i]
          BY <2>3, <3>1, <3>3, Suffix
        <4>4. \A i \in DOMAIN decoder' : i \in Int /\ i > 0
          <5>1. decoder' \in Seq(Events)
            BY <2>3, <3>1, <3>3, Suffix
          <5> QED
            BY <5>1
        <4>5. \A i \in DOMAIN decoder' : first + i # first
          BY <3>3, <4>4
        <4> QED
          BY <4>1, <4>2, <4>3, <4>5 DEF HasAck
      <3> QED
        BY <3>6, <3>7, <3>9
    <2> QED
      BY <2>5, <2>6
  <1>6. CASE AckTimeout
    <2>1. ~ Whole(toDev) /\ toHost = <<>> /\ NextOfPlan /\ UNCHANGED <<decoder, toHost>>
      BY <1>6 DEF AckTimeout
    <2>2. ~ HasAck(<<>>)
      BY DEF HasAck
    <2>3. toDev # <<Head(plan)>>
      <3>1. Head(plan) \in Awaited
        BY <1>1
      <3>2. Head(plan) # Cut
        BY <3>1, CutAssumption DEF Awaited
      <3>3. SUFFICES ASSUME toDev = <<Head(plan)>> PROVE Whole(toDev)
        BY <2>1
      <3>4. 1 \in DOMAIN toDev /\ toDev[1] = Head(plan)
        BY <3>3
      <3> QED
        BY <3>2, <3>4 DEF Whole
    <2>4. resume = "read" => toDev = <<>> /\ ~ HasAck(toHost') /\ ~ HasAck(decoder')
      BY <1>2, <2>1, <2>2, <2>3
    <2> QED
      BY <1>4, <2>1, <2>4
  <1> QED
    BY <1>5, <1>6

\* In its loop the worker adds whole commands; a plan starts with one that is
\* acknowledged.
LEMMA LoopAcking ==
    ASSUME AckingInv, sessions \in HostLists, CachesInv, WiresInv,
           \/ Read \/ ReadTimeout \/ OnVolumeDelta \/ OnMuteToggle \/ OnOther
           \/ NoMoreFrames \/ \E work \in SUBSET due : LoopTail(work)
    PROVE  AckingInv' /\ (AwaitedInv => AwaitedInv')
  <1>1. /\ pc \in {"read", "decode", "tail"} /\ pc' \in {"read", "decode", "tail"}
    BY DEF Read, ReadTimeout, OnVolumeDelta, OnMuteToggle, OnOther, NoMoreFrames, LoopTail,
           NextFrame
  <1>2. CachesInv' /\ WiresInv'
    BY WorkerInv DEF WorkerNext
  <1>3. SUFFICES \A i \in DOMAIN toDev' : toDev'[i] # Cut
    BY <1>1 DEF AckingInv, GreetingInv, UncutInv, InStepInv, AwaitedInv
  <1>4. toDev \in Seq(Commands)
    <2> HIDE DEF Commands
    <2>1. toDev \in Seq(Commands \cup {Cut}) /\ \A i \in DOMAIN toDev : toDev[i] # Cut
      BY <1>1 DEF AckingInv, UncutInv, WiresInv
    <2>2. \A i \in DOMAIN toDev : toDev[i] \in Commands
      BY <2>1
    <2> QED
      BY <2>1, <2>2
  <1>5. SUFFICES toDev' \in Seq(Commands)
    <2> HIDE DEF Commands
    <2>1. \A i \in DOMAIN toDev' : toDev'[i] \in Commands
      BY <1>5
    <2> QED
      BY <2>1, CutAssumption
  <1>6. CASE UNCHANGED toDev
    BY <1>4, <1>6
  <1>7. ASSUME NEW c \in Commands, toDev' = Append(toDev, c) PROVE toDev' \in Seq(Commands)
    <2> HIDE DEF Commands
    <2> QED
      BY <1>4, <1>7
  <1>8. CASE OnVolumeDelta
    <2> DEFINE app == Head(decoder).app
               current == IF app \in DOMAIN volumes THEN volumes[app] ELSE MaxLevel \div 2
               level == Clamp(current + Head(decoder).delta)
    <2>1. toDev' = Append(toDev, SetVolume(app, level)) \/ UNCHANGED toDev
      BY <1>8 DEF OnVolumeDelta
    <2>2. app \in Apps /\ Head(decoder).delta \in Int
      BY <1>8, HeadIsEvent, EventFields, DeltasAssumption DEF OnVolumeDelta
    <2>3. current \in Int
      BY <2>2, MaxLevelAssumption DEF CachesInv, Levels
    <2>4. level \in Levels
      <3> HIDE DEF app, current
      <3> QED
        BY <2>2, <2>3, ClampInLevels
    <2>5. SetVolume(app, level) \in Commands
      <3> HIDE DEF app, level
      <3> QED
        BY <2>2, <2>4 DEF Commands
    <2> QED
      BY <1>6, <1>7, <2>1, <2>5
  <1>9. CASE OnMuteToggle
    <2> DEFINE app == Head(decoder).app
               muted == ~ (IF app \in DOMAIN mutes THEN mutes[app] ELSE FALSE)
    <2>1. toDev' = Append(toDev, SetMute(app, muted)) \/ UNCHANGED toDev
      BY <1>9 DEF OnMuteToggle
    <2>2. app \in Apps
      BY <1>9, HeadIsEvent, EventFields DEF OnMuteToggle
    <2>3. muted \in BOOLEAN
      BY Zenon
    <2>4. SetMute(app, muted) \in Commands
      <3> HIDE DEF app, muted
      <3> QED
        BY <2>2, <2>3 DEF Commands
    <2> QED
      BY <1>6, <1>7, <2>1, <2>4
  <1>10. ASSUME NEW work \in SUBSET due, LoopTail(work) PROVE toDev' \in Seq(Commands)
    <2> DEFINE ping == IF "ping" \in work THEN <<Ping>> ELSE <<>>
               settings == IF dirty THEN <<SetBacklight>> ELSE <<>>
               list == IF "refresh" \in work /\ Changed THEN <<SetAppList(sessions)>> ELSE <<>>
    <2>1. {Ping, SetBacklight, SetAppList(sessions)} \subseteq Commands
      BY DEF Commands
    <2>2. toDev' = toDev \o ping \o settings \o list
      BY <1>10 DEF LoopTail
    <2> HIDE DEF Commands, Ping, SetBacklight, SetAppList
    <2>3. \A c \in Commands : <<c>> \in Seq(Commands)
      OBVIOUS
    <2>4. <<>> \in Seq(Commands)
      OBVIOUS
    <2>5. ping \in Seq(Commands) /\ settings \in Seq(Commands) /\ list \in Seq(Commands)
      BY <2>1, <2>3, <2>4
    <2> HIDE DEF ping, settings, list
    <2> QED
      BY <1>4, <2>2, <2>5
  <1> QED
    BY <1>6, <1>8, <1>9, <1>10 DEF Read, ReadTimeout, OnOther, NoMoreFrames, wires

LEMMA SelectedAcking ==
    ASSUME AckingInv, CachesInv, WiresInv, OnAppSelected
    PROVE  AckingInv' /\ (AwaitedInv => AwaitedInv')
  <1> DEFINE app == Head(decoder).app
             p == (IF app \in DOMAIN volumes THEN <<SetVolume(app, volumes[app])>> ELSE <<>>)
                     \o (IF app \in icons THEN <<SetAppIcon(app)>> ELSE <<>>)
  <1>1. /\ pc = "decode"
        /\ IF p = <<>>
             THEN UNCHANGED <<pc, plan, resume, toDev>>
             ELSE /\ plan' = p
                  /\ toDev' = Append(toDev, Head(p))
                  /\ resume' = "decode"
                  /\ pc' = "ack"
    BY DEF OnAppSelected, NextFrame
  <1>2. WiresInv'
    BY OnAppSelectedInv
  <1>3. CASE p = <<>>
    BY <1>1, <1>3 DEF AckingInv, GreetingInv, UncutInv, InStepInv, AwaitedInv
  <1>4. CASE p # <<>>
    <2> HIDE DEF p, Commands, Events
    <2>1. plan' = p /\ toDev' = Append(toDev, Head(p)) /\ resume' = "decode" /\ pc' = "ack"
      BY <1>1, <1>4
    <2>2. p \in Seq(Awaited)
      BY <1>2, <2>1 DEF WiresInv
    <2>3. Head(p) \in Awaited
      BY <1>4, <2>2
    <2>4. Head(p) \in Commands \cup {Cut} /\ Head(p) # Cut /\ Head(p).type # "Ping"
      BY <2>3, CutAssumption DEF Awaited
    <2>5. /\ DOMAIN toDev' = 1 .. Len(toDev) + 1 /\ Len(toDev) \in Nat
          /\ toDev'[Len(toDev) + 1] = Head(p)
          /\ \A i \in 1 .. Len(toDev) : toDev'[i] = toDev[i]
          /\ DOMAIN toDev = 1 .. Len(toDev)
      BY <2>1, <2>4 DEF WiresInv
    <2>6. UncutInv'
      BY <1>1, <2>4, <2>5 DEF AckingInv, UncutInv
    <2>7. AwaitedInv'
      BY <2>4, <2>5 DEF AwaitedInv
    <2> QED
      BY <2>1, <2>6, <2>7 DEF AckingInv, GreetingInv, InStepInv
  <1> QED
    BY <1>3, <1>4

\* No event of the user is an Ack or ends a greeting.
LEMMA UserAcking ==
    ASSUME AckingInv, DeviceInv, CachesInv, WiresInv, UserTurns \/ UserSwipes \/ UserTaps
    PROVE  AckingInv' /\ (AwaitedInv => AwaitedInv')
  <1> DEFINE Input == Events \ {Ready, Pong, Ack}
  <1>1. UNCHANGED <<pc, plan, resume, decoder, toDev>>
    BY DEF UserTurns, UserSwipes, UserTaps, UserActs, envVars
  <1>2. SUFFICES \E messages \in Seq(Input) : DeviceSends(messages)
    <2> HIDE DEF Events
    <2>1. PICK messages \in Seq(Input) : DeviceSends(messages)
      BY <1>2
    <2>2. \A i \in DOMAIN messages : messages[i] \in Input
      BY <2>1
    <2>3. messages \in Seq(Events)
      BY <2>1, <2>2
    <2>4. ~ HasAck(messages) /\ ~ HasGreeting(messages)
      BY <2>2 DEF HasAck, HasGreeting
    <2> QED
      BY <1>1, <2>1, <2>3, <2>4, SentAcking
  <1>3. selected_app \in Apps \cup {NoApp}
    BY DEF DeviceInv, DeviceTypeOK
  <1>4. Gesture \in Input
    BY DEF Events, Gesture, Ready, Pong, Ack
  <1>5. ASSUME NEW app \in Apps
        PROVE  /\ \A delta \in Deltas : VolumeDelta(app, delta) \in Input
               /\ AppSelected(app) \in Input /\ MuteToggle(app) \in Input
    BY DEF Events, VolumeDelta, AppSelected, MuteToggle, Ready, Pong, Ack
  <1> HIDE DEF Input, VolumeDelta, AppSelected, MuteToggle, Gesture
  <1>6. <<>> \in Seq(Input) /\ \A e \in Input : <<e>> \in Seq(Input)
    OBVIOUS
  <1>7. CASE UserTurns
    <2>1. PICK delta \in Deltas :
            DeviceSends(IF selected_app = NoApp
                           THEN <<>> ELSE <<VolumeDelta(selected_app, delta)>>)
      BY <1>7 DEF UserTurns
    <2>2. (IF selected_app = NoApp THEN <<>> ELSE <<VolumeDelta(selected_app, delta)>>)
             \in Seq(Input)
      BY <1>3, <1>5, <1>6
    <2> QED
      BY <2>1, <2>2
  <1>8. CASE UserSwipes
    <2>1. (SwipeLeft \/ SwipeRight) /\ DeviceSends(<<AppSelected(selected_app'), Gesture>>)
      BY <1>8 DEF UserSwipes
    <2>2. DeviceInv'
      BY <2>1, DeviceNextInv DEF DeviceNext
    <2>3. selected_app' \in Apps
      <3>1. apps' # <<>>
        BY <2>1 DEF SwipeLeft, SwipeRight, Swipe
      <3> QED
        BY <2>2, <3>1 DEF DeviceInv, DeviceTypeOK, ListHasSelection
    <2>4. <<AppSelected(selected_app'), Gesture>> \in Seq(Input)
      BY <1>4, <1>5, <2>3
    <2> QED
      BY <2>1, <2>4
  <1>9. CASE UserTaps
    <2> DEFINE toggle == IF selected_app = NoApp THEN <<>> ELSE <<MuteToggle(selected_app)>>
    <2>1. DeviceSends(toggle \o <<Gesture>>)
      BY <1>9 DEF UserTaps
    <2>2. toggle \in Seq(Input) /\ <<Gesture>> \in Seq(Input)
      BY <1>3, <1>4, <1>5, <1>6
    <2> HIDE DEF toggle
    <2>3. toggle \o <<Gesture>> \in Seq(Input)
      BY <2>2
    <2> QED
      BY <2>1, <2>3
  <1> QED
    BY <1>7, <1>8, <1>9

\* A command lost is a command less.
LEMMA LostAcking ==
    ASSUME AckingInv, WiresInv, LoseFrame
    PROVE  AckingInv'
  <1> HIDE DEF Events, Commands
  <1>1. /\ toDev \in Seq(Commands \cup {Cut}) /\ toDev # <<>> /\ toDev[1] # Cut
        /\ toDev' = Tail(toDev)
        /\ UNCHANGED <<pc, plan, resume, decoder, toHost>>
    BY DEF LoseFrame, WiresInv
  <1>2. \A i \in DOMAIN toDev' : i + 1 \in DOMAIN toDev /\ toDev'[i] = toDev[i + 1]
    BY <1>1
  <1>3. /\ HasAck(toHost)' = HasAck(toHost) /\ HasAck(decoder)' = HasAck(decoder)
        /\ OneAck(toHost)' = OneAck(toHost)
    BY <1>1 DEF HasAck, OneAck
  <1>4. GreetingInv'
    <2> SUFFICES ASSUME pc = "greet" PROVE toDev' = <<>>
      BY <1>1, <1>3 DEF AckingInv, GreetingInv
    <2>1. \A i \in DOMAIN toDev : i = Len(toDev) \/ toDev[i] = Cut
      BY <1>1 DEF AckingInv, GreetingInv
    <2>2. 1 \in DOMAIN toDev
      BY <1>1
    <2>3. Len(toDev) = 1
      BY <1>1, <2>1, <2>2
    <2> QED
      BY <1>1, <2>3
  <1>5. UncutInv'
    BY <1>1, <1>2 DEF AckingInv, UncutInv
  <1>6. InStepInv'
    <2> SUFFICES ASSUME pc = "ack", resume = "read"
                 PROVE  toDev' = <<>> /\ ~ HasAck(decoder) /\ ~ HasAck(toHost)
      BY <1>1, <1>3 DEF InStepInv
    <2>1. /\ ~ HasAck(decoder)
          /\ toDev = <<Head(plan)>> /\ ~ HasAck(toHost)
      BY <1>1 DEF AckingInv, InStepInv
    <2> QED
      BY <1>1, <2>1
  <1> QED
    BY <1>4, <1>5, <1>6 DEF AckingInv

LEMMA AckingStep ==
    ASSUME SystemInv, AckingInv, [SystemNext]_systemVars
    PROVE  AckingInv' /\ (~ LoseFrame /\ AwaitedInv => AwaitedInv')
  <1> DEFINE Goal == AckingInv' /\ (AwaitedInv => AwaitedInv')
  <1>1. DeviceInv /\ sessions \in HostLists /\ CachesInv /\ WiresInv
    BY DEF SystemInv
  <1>2. ASSUME UNCHANGED <<pc, plan, resume, decoder, toDev, toHost>> PROVE Goal
    BY <1>2 DEF AckingInv, GreetingInv, UncutInv, InStepInv, AwaitedInv, HasAck, HasGreeting,
                OneAck
  <1>3. ASSUME LoseHost \/ UserSets \/ SessionStarts \/ SessionEnds \/ MixerChanges
               \/ UNCHANGED systemVars
        PROVE  Goal
    <2>1. LoseHost => UNCHANGED <<pc, plan, resume, decoder, toDev, toHost>>
      BY DEF LoseHost, companionVars, wires
    <2>2. UserSets => UNCHANGED <<pc, plan, resume, decoder, toDev, toHost>>
      BY DEF UserSets, wires
    <2>3. MixerActs => UNCHANGED <<pc, plan, resume, decoder, toDev, toHost>>
      BY DEF MixerActs, envVars
    <2>4. SessionStarts \/ SessionEnds \/ MixerChanges => MixerActs
      BY DEF SessionStarts, SessionEnds, MixerChanges
    <2>5. UNCHANGED systemVars => UNCHANGED <<pc, plan, resume, decoder, toDev, toHost>>
      BY DEF systemVars, companionVars, wires
    <2> HIDE DEF Goal
    <2> QED
      BY <1>2, <1>3, <2>1, <2>2, <2>3, <2>4, <2>5
  <1>4. ASSUME WorkerStarts \/ WorkerExits PROVE Goal
    <2>1. pc' \in {"off", "drain"}
      BY <1>4 DEF WorkerStarts, Start, WorkerExits, Exit
    <2>2. GreetingInv'
      BY <2>1 DEF GreetingInv
    <2>3. UncutInv'
      BY <2>1 DEF UncutInv
    <2>4. InStepInv'
      BY <2>1 DEF InStepInv
    <2>5. AwaitedInv'
      BY <2>1 DEF AwaitedInv
    <2> QED
      BY <2>2, <2>3, <2>4, <2>5 DEF AckingInv
  <1>5. ASSUME WorkerSteps PROVE Goal
    <2>1. WorkerNext
      BY <1>5 DEF WorkerSteps
    <2>2. CASE Drain
      BY <1>1, <2>2, DrainAcking
    <2>3. CASE GreetRead \/ GreetTimeout
      BY <1>1, <2>3, GreetAcking
    <2>4. CASE AckRead \/ AckTimeout
      BY <1>1, <2>4, AckAcking
    <2>5. CASE OnAppSelected
      BY <1>1, <2>5, SelectedAcking
    <2>6. CASE \/ Read \/ ReadTimeout \/ OnVolumeDelta \/ OnMuteToggle \/ OnOther
               \/ NoMoreFrames \/ \E work \in SUBSET due : LoopTail(work)
      BY <1>1, <2>6, LoopAcking
    <2> HIDE DEF Goal
    <2> QED
      BY <2>1, <2>2, <2>3, <2>4, <2>5, <2>6 DEF WorkerNext
  <1>6. ASSUME Receive PROVE Goal
    BY <1>1, <1>6, ReceiveAcking
  <1>7. ASSUME ReceiveGlued PROVE Goal
    BY <1>1, <1>7, GluedAcking
  <1>8. ASSUME UserTurns \/ UserSwipes \/ UserTaps PROVE Goal
    BY <1>1, <1>8, UserAcking
  <1>9. ASSUME LoseFrame PROVE AckingInv'
    BY <1>1, <1>9, LostAcking
  <1>10. Goal \/ LoseFrame
    <2> HIDE DEF Goal
    <2> QED
      BY <1>3, <1>4, <1>5, <1>6, <1>7, <1>8 DEF SystemNext
  <1> QED
    BY <1>9, <1>10

\* What is counted in Owed.
LEMMA OwedCounts ==
    ASSUME WiresInv, pc = "ack", AckingInv
    PROVE  InitInStep /\ (AwaitedInv => WaitIsAnswered)
  <1> HIDE DEF Events, Commands
  <1> DEFINE sent == {i \in DOMAIN toDev : toDev[i] # Cut /\ toDev[i].type # "Ping"}
             coming == {i \in DOMAIN toHost : toHost[i] = Ack}
             there == {i \in DOMAIN decoder : decoder[i] = Ack}
  <1>1. /\ toDev \in Seq(Commands \cup {Cut}) /\ toHost \in Seq(Events) /\ decoder \in Seq(Events)
        /\ plan \in Seq(Awaited) /\ plan # <<>> /\ resume \in {"read", "decode"}
    BY DEF WiresInv
  <1>2. ASSUME NEW S, NEW s \in Seq(S), NEW T \in SUBSET DOMAIN s
        PROVE  IsFiniteSet(T) /\ Cardinality(T) \in Nat /\ (Cardinality(T) = 0 <=> T = {})
    <2>1. IsFiniteSet(1 .. Len(s))
      BY FS_Interval
    <2>2. IsFiniteSet(T)
      BY <2>1, FS_Subset
    <2> QED
      BY <2>2, FS_CardinalityType, FS_EmptySet
  <1>3. /\ Cardinality(sent) \in Nat /\ (Cardinality(sent) = 0 <=> sent = {})
        /\ Cardinality(coming) \in Nat /\ (Cardinality(coming) = 0 <=> coming = {})
        /\ Cardinality(there) \in Nat /\ (Cardinality(there) = 0 <=> there = {})
    <2>1. sent \in SUBSET DOMAIN toDev /\ coming \in SUBSET DOMAIN toHost
          /\ there \in SUBSET DOMAIN decoder
      OBVIOUS
    <2> HIDE DEF sent, coming, there
    <2> QED
      BY <1>1, <1>2, <2>1
  <1>4. Owed = Cardinality(sent) + Cardinality(coming) + Cardinality(there)
    BY DEF Owed, Acked, Acks
  <1>5. \A i \in DOMAIN toDev : toDev[i] # Cut
    BY DEF AckingInv, UncutInv
  <1>6. (HasAck(toHost) <=> coming # {}) /\ (HasAck(decoder) <=> there # {})
    BY DEF HasAck
  <1>7. ASSUME resume = "read" PROVE InitInStep
    <2>1. there = {}
      BY <1>6, <1>7 DEF AckingInv, InStepInv
    <2>2. CASE toDev = <<Head(plan)>> /\ ~ HasAck(toHost)
      <3>1. Head(plan) \in Awaited
        BY <1>1
      <3>2. DOMAIN toDev = {1} /\ toDev[1] = Head(plan) /\ toDev[1].type # "Ping"
        BY <2>2, <3>1 DEF Awaited
      <3>3. sent = {1}
        BY <1>5, <3>2
      <3>4. Cardinality(sent) = 1
        BY <3>3, FS_Singleton
      <3>5. coming = {}
        BY <1>6, <2>2
      <3> HIDE DEF sent, coming, there
      <3>6. Owed = 1
        BY <1>3, <1>4, <2>1, <3>4, <3>5
      <3> QED
        BY <3>2, <3>6 DEF InitInStep
    <2>3. CASE toDev = <<>> /\ (HasAck(toHost) => OneAck(toHost))
      <3>1. sent = {}
        BY <2>3
      <3>2. Cardinality(coming) <= 1
        <4>1. CASE ~ HasAck(toHost)
          BY <1>6, <4>1, FS_EmptySet
        <4>2. CASE OneAck(toHost)
          <5>1. PICK k \in DOMAIN toHost : \A j \in DOMAIN toHost : toHost[j] = Ack <=> j = k
            BY <4>2 DEF OneAck
          <5>2. coming = {k}
            BY <5>1
          <5> QED
            BY <5>2, FS_Singleton
        <4> QED
          BY <2>3, <4>1, <4>2
      <3> HIDE DEF sent, coming, there
      <3>3. Owed <= 1
        BY <1>3, <1>4, <2>1, <3>1, <3>2
      <3> QED
        BY <2>3, <3>3 DEF InitInStep
    <2> QED
      BY <1>7, <2>2, <2>3 DEF AckingInv, InStepInv
  <1>8. InitInStep
    BY <1>7 DEF InitInStep
  <1>9. ASSUME AwaitedInv PROVE WaitIsAnswered
    <2>1. sent # {} \/ coming # {} \/ there # {}
      BY <1>5, <1>6, <1>9 DEF AwaitedInv
    <2> HIDE DEF sent, coming, there
    <2>2. Owed > 0
      BY <1>3, <1>4, <2>1
    <2> QED
      BY <2>2 DEF WaitIsAnswered
  <1> QED
    BY <1>8, <1>9

LEMMA AckingInvariance == SystemSpec => [](SystemInv /\ AckingInv)
  <1>1. SystemInit => SystemInv /\ AckingInv
    BY SystemInitInv
       DEF SystemInit, CompanionInit, AckingInv, GreetingInv, UncutInv, InStepInv
  <1>2. SystemInv /\ AckingInv /\ [SystemNext]_systemVars => (SystemInv /\ AckingInv)'
    BY AckingStep, SystemStep
  <1> QED
    BY <1>1, <1>2, PTL DEF SystemSpec

LEMMA NoLossInvariance == SystemSpec /\ NoLosses => [](NoLossLeft /\ AwaitedInv)
  <1>1. SystemInit /\ NoLosses => NoLossLeft /\ AwaitedInv
    BY ScenariosAssumption
       DEF SystemInit, CompanionInit, NoLosses, NoLossLeft, AwaitedInv
  <1>2. SystemInv /\ AckingInv /\ NoLossLeft /\ AwaitedInv /\ [SystemNext]_systemVars
           => (NoLossLeft /\ AwaitedInv)'
    BY AckingStep, LossesStay
  <1> QED
    BY <1>1, <1>2, AckingInvariance, PTL DEF SystemSpec

\* Where the decoder of the knob refuses no frame, a worker that waits for an Ack
\* always has one coming, whatever user and mixer do and wherever workers end
\* (worker.rs send_and_wait, main.rs `ack`).
THEOREM WaitSafety == SystemSpec /\ NoLosses => []WaitIsAnswered
  <1>1. SystemInv /\ AckingInv /\ AwaitedInv => WaitIsAnswered
    BY OwedCounts DEF SystemInv, WaitIsAnswered
  <1> QED
    BY <1>1, AckingInvariance, NoLossInvariance, PTL

\* During the initialisation an Ack can only be that of the command waited for,
\* though Acks carry no identity, earlier workers left theirs, and frames may be
\* lost (worker.rs run_inner).
THEOREM InitSafety == SystemSpec => []InitInStep
  <1>1. SystemInv /\ AckingInv => InitInStep
    BY OwedCounts DEF SystemInv, InitInStep
  <1> QED
    BY <1>1, AckingInvariance, PTL

-----------------------------------------------------------------------------
(* What the knob will show: the commands under way, replayed               *)

\* Volume and mute are cached, sent and shown in the same way.
Fields == {"volume", "muted"}
Field(entry, f) == IF f = "volume" THEN entry.volume ELSE entry.muted
Cache(f) == IF f = "volume" THEN volumes ELSE mutes
Shown(f) == IF f = "volume" THEN current_volume ELSE current_muted

\* The value, if any, a command gives to an app, alone in a set.
Said(m, app, f) ==
    IF m.type = "SetAppList"
       THEN IF Listed(m.list, app) THEN {Field(Find(m.list, app), f)} ELSE {}
    ELSE IF f = "volume" /\ m.type = "SetVolume" /\ m.app = app THEN {m.level}
    ELSE IF f = "muted" /\ m.type = "SetMute" /\ m.app = app THEN {m.muted}
    ELSE {}

\* The last command on the wire to speak of the app says v.
LastSaid(wire, app, f, v) ==
    \A i \in DOMAIN wire :
        \/ Said(wire[i], app, f) \in {{}, {v}}
        \/ \E j \in DOMAIN wire : j > i /\ Said(wire[j], app, f) # {}
NoneSaid(wire, app, f) == \A i \in DOMAIN wire : Said(wire[i], app, f) = {}

\* A knob has v for an app in its list, and on its screen while it is selected.
Holds(list, sel, value, app, f, v) ==
    /\ Listed(list, app) => Field(Find(list, app), f) = v
    /\ sel = app => value = v

\* It will, once it has handled the wire.
WillHold(wire, list, sel, value, app, f, v) ==
    /\ LastSaid(wire, app, f, v)
    /\ NoneSaid(wire, app, f) => Holds(list, sel, value, app, f, v)

\* What was written or is still to be written by this worker.
Pending == IF pc = "ack" THEN toDev \o Tail(plan) ELSE toDev
Working == {"ack", "read", "decode", "tail"}

\* The knob will show what is cached.
CarriedInv ==
    pc \in Working =>
        \A f \in Fields : \A app \in DOMAIN Cache(f) :
            WillHold(Pending, apps, selected_app, Shown(f), app, f, Cache(f)[app])

\* SetSelectedApp finds its app in the list the knob has by then, else the knob
\* would go on showing the values of the app selected before.
SelectsListed(wire, list) ==
    \A i \in DOMAIN wire :
        wire[i].type = "SetSelectedApp" =>
            /\ \A j \in DOMAIN wire :
                  j < i /\ wire[j].type = "SetAppList" => Listed(wire[j].list, wire[i].app)
            /\ \/ \E j \in DOMAIN wire : j < i /\ wire[j].type = "SetAppList"
               \/ Listed(list, wire[i].app)
SelectsInv == pc \in Working => SelectsListed(Pending, apps)

\* A worker that has not yet sent its list has cached that list's values.
StartedInv ==
    pc \in {"drain", "greet"} =>
        \A f \in Fields :
            \A app \in DOMAIN Cache(f) :
                /\ Listed(app_infos, app)
                /\ Cache(f)[app] = Field(Find(app_infos, app), f)

\* One more command on the wire.
LEMMA SaysMore ==
    ASSUME NEW S, NEW wire \in Seq(S), NEW m \in S, NEW list, NEW sel, NEW value,
           NEW app, NEW f, NEW v,
           \/ Said(m, app, f) = {v}
           \/ Said(m, app, f) = {} /\ WillHold(wire, list, sel, value, app, f, v)
    PROVE  WillHold(Append(wire, m), list, sel, value, app, f, v)
  <1> DEFINE more == Append(wire, m)
             n == Len(wire) + 1
  <1>1. /\ DOMAIN more = 1 .. n /\ n \in Nat /\ n \in DOMAIN more /\ more[n] = m
        /\ \A i \in DOMAIN more : i # n => i \in DOMAIN wire /\ more[i] = wire[i] /\ i < n
        /\ \A i \in DOMAIN wire : i \in DOMAIN more /\ more[i] = wire[i]
    OBVIOUS
  <1> HIDE DEF more, n
  <1>2. CASE Said(m, app, f) = {v}
    <2>1. LastSaid(more, app, f, v)
      BY <1>1, <1>2 DEF LastSaid
    <2>2. ~ NoneSaid(more, app, f)
      BY <1>1, <1>2 DEF NoneSaid
    <2> QED
      BY <2>1, <2>2 DEF WillHold, more
  <1>3. CASE Said(m, app, f) = {} /\ WillHold(wire, list, sel, value, app, f, v)
    <2>1. LastSaid(more, app, f, v)
      <3> SUFFICES ASSUME NEW i \in DOMAIN more
                   PROVE  \/ Said(more[i], app, f) \in {{}, {v}}
                          \/ \E j \in DOMAIN more : j > i /\ Said(more[j], app, f) # {}
        BY DEF LastSaid
      <3>1. CASE i = n
        BY <1>1, <1>3, <3>1
      <3>2. CASE i # n
        BY <1>1, <1>3, <3>2 DEF WillHold, LastSaid
      <3> QED
        BY <3>1, <3>2
    <2>2. NoneSaid(more, app, f) => NoneSaid(wire, app, f)
      BY <1>1 DEF NoneSaid
    <2> QED
      BY <1>3, <2>1, <2>2 DEF WillHold, more
  <1> QED
    BY <1>2, <1>3

\* One command less: what it says is then what the knob must have.
LEMMA SaysLess ==
    ASSUME NEW S, NEW wire \in Seq(S), wire # <<>>,
           NEW list, NEW sel, NEW value, NEW app, NEW f, NEW v,
           WillHold(wire, list, sel, value, app, f, v),
           NEW list2, NEW sel2, NEW value2,
           Said(Head(wire), app, f) = {v} => Holds(list2, sel2, value2, app, f, v),
           Said(Head(wire), app, f) = {} /\ Holds(list, sel, value, app, f, v)
              => Holds(list2, sel2, value2, app, f, v)
    PROVE  WillHold(Tail(wire), list2, sel2, value2, app, f, v)
  <1> DEFINE rest == Tail(wire)
  <1>1. /\ Len(wire) \in Nat /\ DOMAIN wire = 1 .. Len(wire) /\ 1 \in DOMAIN wire
        /\ DOMAIN rest = 1 .. Len(wire) - 1
        /\ Head(wire) = wire[1]
        /\ \A i \in DOMAIN rest : rest[i] = wire[i + 1]
    OBVIOUS
  <1> HIDE DEF rest
  <1>2. \A i \in DOMAIN wire :
           i # 1 => i - 1 \in DOMAIN rest /\ rest[i - 1] = wire[i] /\ i > 1
    BY <1>1
  <1>3. LastSaid(rest, app, f, v)
    <2> SUFFICES ASSUME NEW i \in DOMAIN rest
                 PROVE  \/ Said(rest[i], app, f) \in {{}, {v}}
                        \/ \E j \in DOMAIN rest : j > i /\ Said(rest[j], app, f) # {}
      BY DEF LastSaid
    <2>1. i + 1 \in DOMAIN wire /\ rest[i] = wire[i + 1]
      BY <1>1
    <2>2. CASE Said(wire[i + 1], app, f) \in {{}, {v}}
      BY <2>1, <2>2
    <2>3. ASSUME NEW j \in DOMAIN wire, j > i + 1, Said(wire[j], app, f) # {}
          PROVE  \E k \in DOMAIN rest : k > i /\ Said(rest[k], app, f) # {}
      <3>1. j # 1 /\ j - 1 > i
        BY <1>1, <2>3
      <3> QED
        BY <1>2, <2>3, <3>1
    <2> QED
      BY <2>1, <2>2, <2>3 DEF WillHold, LastSaid
  <1>4. ASSUME NoneSaid(rest, app, f) PROVE Holds(list2, sel2, value2, app, f, v)
    <2>1. \A i \in DOMAIN wire : i # 1 => Said(wire[i], app, f) = {}
      BY <1>2, <1>4 DEF NoneSaid
    <2>2. CASE Said(wire[1], app, f) = {}
      <3>1. NoneSaid(wire, app, f)
        BY <2>1, <2>2 DEF NoneSaid
      <3> QED
        BY <1>1, <2>2, <3>1 DEF WillHold
    <2>3. CASE Said(wire[1], app, f) # {}
      <3>1. ~ \E j \in DOMAIN wire : j > 1 /\ Said(wire[j], app, f) # {}
        BY <1>1, <2>1
      <3>2. Said(wire[1], app, f) = {v}
        BY <1>1, <2>3, <3>1 DEF WillHold, LastSaid
      <3> QED
        BY <1>1, <3>2
    <2> QED
      BY <2>2, <2>3
  <1> QED
    BY <1>3, <1>4 DEF WillHold, rest

\* What the worker writes does not select; what the knob handles may replace the
\* list.
LEMMA SelectsMore ==
    ASSUME NEW S, NEW wire \in Seq(S), NEW m \in S, NEW list, SelectsListed(wire, list),
           m.type # "SetSelectedApp"
    PROVE  SelectsListed(Append(wire, m), list)
  <1> DEFINE more == Append(wire, m)
             n == Len(wire) + 1
  <1>1. /\ DOMAIN more = 1 .. n /\ n \in Nat /\ n \in DOMAIN more /\ more[n] = m
        /\ \A i \in DOMAIN more : i # n => i \in DOMAIN wire /\ more[i] = wire[i] /\ i < n
        /\ \A i \in DOMAIN wire : i \in DOMAIN more /\ more[i] = wire[i]
    OBVIOUS
  <1>2. ASSUME NEW i \in DOMAIN wire, NEW j \in DOMAIN more, j < i PROVE j \in DOMAIN wire
    BY <1>2
  <1> HIDE DEF more, n
  <1> QED
    BY <1>1, <1>2 DEF SelectsListed, more

LEMMA SelectsLess ==
    ASSUME NEW S, NEW wire \in Seq(S), wire # <<>>, NEW list, SelectsListed(wire, list),
           NEW list2,
           IF Head(wire).type = "SetAppList" THEN list2 = Head(wire).list
              ELSE \A app : Listed(list2, app) <=> Listed(list, app)
    PROVE  /\ SelectsListed(Tail(wire), list2)
           /\ Head(wire).type = "SetSelectedApp" => Listed(list, Head(wire).app)
  <1> DEFINE rest == Tail(wire)
  <1>1. /\ Len(wire) \in Nat /\ DOMAIN wire = 1 .. Len(wire) /\ 1 \in DOMAIN wire
        /\ DOMAIN rest = 1 .. Len(wire) - 1
        /\ Head(wire) = wire[1]
        /\ \A i \in DOMAIN rest : rest[i] = wire[i + 1]
    OBVIOUS
  <1> HIDE DEF rest
  <1>2. \A i \in DOMAIN wire :
           i # 1 => i - 1 \in DOMAIN rest /\ rest[i - 1] = wire[i] /\ i > 1
    BY <1>1
  <1>3. ASSUME NEW i \in DOMAIN rest, rest[i].type = "SetSelectedApp"
        PROVE  /\ \A j \in DOMAIN rest :
                     j < i /\ rest[j].type = "SetAppList" => Listed(rest[j].list, rest[i].app)
               /\ \/ \E j \in DOMAIN rest : j < i /\ rest[j].type = "SetAppList"
                  \/ Listed(list2, rest[i].app)
    <2>1. i + 1 \in DOMAIN wire /\ rest[i] = wire[i + 1]
      BY <1>1
    <2>2. \A j \in DOMAIN rest :
             j < i => j + 1 \in DOMAIN wire /\ rest[j] = wire[j + 1] /\ j + 1 < i + 1
      BY <1>1
    <2>3. \A j \in DOMAIN rest :
             j < i /\ rest[j].type = "SetAppList" => Listed(rest[j].list, rest[i].app)
      BY <1>3, <2>1, <2>2 DEF SelectsListed
    <2>4. ASSUME NEW j \in DOMAIN wire, j < i + 1, wire[j].type = "SetAppList"
          PROVE  \/ \E k \in DOMAIN rest : k < i /\ rest[k].type = "SetAppList"
                 \/ Listed(list2, rest[i].app)
      <3>1. CASE j = 1
        <4>1. Listed(wire[1].list, wire[i + 1].app)
          BY <1>3, <2>1, <2>4, <3>1 DEF SelectsListed
        <4> QED
          BY <1>1, <2>1, <2>4, <3>1, <4>1
      <3>2. CASE j # 1
        <4>1. j - 1 < i
          BY <1>1, <2>4
        <4> QED
          BY <1>2, <2>4, <3>2, <4>1
      <3> QED
        BY <3>1, <3>2
    <2>5. ASSUME Listed(list, wire[i + 1].app), wire[1].type # "SetAppList"
          PROVE  Listed(list2, rest[i].app)
      BY <1>1, <2>1, <2>5
    <2>6. 1 < i + 1
      BY <1>1
    <2>7. \/ \E j \in DOMAIN wire : j < i + 1 /\ wire[j].type = "SetAppList"
          \/ Listed(list, wire[i + 1].app)
      BY <1>3, <2>1 DEF SelectsListed
    <2> QED
      BY <1>1, <2>3, <2>4, <2>5, <2>6, <2>7
  <1>4. SelectsListed(rest, list2)
    BY <1>3 DEF SelectsListed
  <1>5. ASSUME wire[1].type = "SetSelectedApp" PROVE Listed(list, wire[1].app)
    <2>1. ~ \E j \in DOMAIN wire : j < 1
      BY <1>1
    <2> QED
      BY <1>1, <1>5, <2>1 DEF SelectsListed
  <1> QED
    BY <1>1, <1>4, <1>5 DEF rest

-----------------------------------------------------------------------------
(* What the knob does with a command                                       *)

\* A field set in one entry of a list, by SetVolume or SetMute.
LEMMA EntryField ==
    ASSUME NEW list \in AppLists, NEW a, Listed(list, a), NEW entry \in AppInfo, entry.id = a,
           NEW new \in {[list EXCEPT ![Place(list, a)] = entry]}
    PROVE  \A app :
              /\ Listed(new, app) <=> Listed(list, app)
              /\ Listed(list, app) => Find(new, app) = IF app = a THEN entry ELSE Find(list, app)
  <1>1. Place(list, a) \in 1 .. Len(list) /\ list[Place(list, a)].id = a
    BY PlaceIsListed
  <1>2. /\ new \in AppLists /\ Len(new) = Len(list)
        /\ \A j \in 1 .. Len(list) :
              /\ new[j].id = list[j].id
              /\ new[j] = IF j = Place(list, a) THEN entry ELSE list[j]
    <2> DEFINE k == Place(list, a)
    <2>1. k \in 1 .. Len(list) /\ entry.id = list[k].id /\ new = [list EXCEPT ![k] = entry]
      BY <1>1
    <2> HIDE DEF k
    <2>2. /\ new \in AppLists /\ Len(new) = Len(list)
          /\ \A j \in 1 .. Len(list) :
                new[j].id = list[j].id /\ new[j] = IF j = k THEN entry ELSE list[j]
      <3>1. /\ [list EXCEPT ![k] = entry] \in AppLists
            /\ Len([list EXCEPT ![k] = entry]) = Len(list)
        BY ONLY <2>1, EntryUpdate, list \in AppLists, entry \in AppInfo
      <3>2. \A j \in 1 .. Len(list) :
               /\ [list EXCEPT ![k] = entry][j].id = list[j].id
               /\ [list EXCEPT ![k] = entry][j] = IF j = k THEN entry ELSE list[j]
        BY ONLY <2>1, EntryUpdate, list \in AppLists, entry \in AppInfo
      <3> QED
        BY <2>1, <3>1, <3>2
    <2> QED
      BY <2>2 DEF k
  <1> TAKE app
  <1>3. /\ Listed(new, app) <=> Listed(list, app)
        /\ Listed(list, app) => Place(new, app) = Place(list, app)
    BY <1>2, SameIdsSamePlace
  <1>4. ASSUME Listed(list, app)
        PROVE  Find(new, app) = IF app = a THEN entry ELSE Find(list, app)
    <2>1. Place(list, app) \in 1 .. Len(list) /\ list[Place(list, app)].id = app
      BY <1>4, PlaceIsListed
    <2>2. Place(list, app) = Place(list, a) <=> app = a
      BY <1>1, <2>1
    <2> QED
      BY <1>2, <1>3, <1>4, <2>1, <2>2 DEF Find
  <1> QED
    BY <1>3, <1>4

\* The knob has what a command says, and keeps what it does not speak of.
LEMMA Handled ==
    ASSUME DeviceInv, NEW m \in Commands, HandleMessage(m),
           m.type = "SetSelectedApp" => Listed(apps, m.app),
           NEW f \in Fields, NEW app, NEW v
    PROVE  /\ Said(m, app, f) = {v}
                 => Holds(apps', selected_app', Shown(f)', app, f, v)
           /\ Said(m, app, f) = {} /\ Holds(apps, selected_app, Shown(f), app, f, v)
                 => Holds(apps', selected_app', Shown(f)', app, f, v)
           /\ IF m.type = "SetAppList" THEN apps' = m.list
                 ELSE \A x : Listed(apps', x) <=> Listed(apps, x)
  <1> DEFINE Goal ==
        /\ Said(m, app, f) = {v}
              => Holds(apps', selected_app', Shown(f)', app, f, v)
        /\ Said(m, app, f) = {} /\ Holds(apps, selected_app, Shown(f), app, f, v)
              => Holds(apps', selected_app', Shown(f)', app, f, v)
        /\ IF m.type = "SetAppList" THEN apps' = m.list
              ELSE \A x : Listed(apps', x) <=> Listed(apps, x)
  <1>0. apps \in AppLists
    BY DEF DeviceInv, DeviceTypeOK
  <1>1. ASSUME UNCHANGED <<apps, selected_app, current_volume, current_muted>>,
               Said(m, app, f) = {}, m.type # "SetAppList"
        PROVE  Goal
    BY <1>1 DEF Shown
  <1>2. CASE m \in {Ping, SetBacklight}
    <2>1. HandleOther /\ Said(m, app, f) = {} /\ m.type # "SetAppList"
      BY <1>2 DEF HandleMessage, Said, Ping, SetBacklight
    <2> QED
      BY <1>1, <2>1 DEF HandleOther, shown
  <1>3. ASSUME NEW list \in HostLists, m = SetAppList(list) PROVE Goal
    <2>1. m.type = "SetAppList" /\ m.list = list
      BY <1>3 DEF SetAppList
    <2>2. HandleSetAppList(list)
      BY <2>1 DEF HandleMessage
    <2>3. Said(m, app, f) = IF Listed(list, app) THEN {Field(Find(list, app), f)} ELSE {}
      BY <2>1 DEF Said
    <2>4. /\ apps' = list
          /\ Shown(f)' = IF Listed(list, selected_app')
                            THEN Field(Find(list, selected_app'), f) ELSE Shown(f)
      BY <2>2 DEF HandleSetAppList, ShowEntry, Shown, Field, Fields
    <2>5. CASE Listed(list, app)
      BY <2>1, <2>3, <2>4, <2>5 DEF Holds
    <2>6. CASE ~ Listed(list, app)
      <3>1. selected_app' = app => selected_app = app
        <4>1. list # <<>> => Listed(list, list[1].id)
          BY HostListsAssumption DEF Listed, AppLists
        <4> QED
          BY <2>2, <2>6, <4>1 DEF HandleSetAppList
      <3> QED
        BY <2>1, <2>3, <2>4, <2>6, <3>1 DEF Holds
    <2> QED
      BY <2>5, <2>6
  <1>4. ASSUME NEW a \in Apps, m = SetSelectedApp(a) PROVE Goal
    <2>1. m.type = "SetSelectedApp" /\ m.app = a
      BY <1>4 DEF SetSelectedApp
    <2>2. HandleSetSelectedApp(a) /\ Listed(apps, a) /\ Said(m, app, f) = {}
      BY <2>1 DEF HandleMessage, Said
    <2>3. /\ apps' = apps /\ selected_app' = a
          /\ Shown(f)' = Field(Find(apps, a), f)
      BY <2>2 DEF HandleSetSelectedApp, ShowEntry, Shown, Field, Fields
    <2> QED
      BY <2>1, <2>2, <2>3 DEF Holds
  <1>5. ASSUME NEW a \in Apps, m = SetAppIcon(a) PROVE Goal
    <2>1. m.type = "SetAppIcon" /\ m.app = a
      BY <1>5 DEF SetAppIcon
    <2>2. HandleSetAppIcon(a) /\ Said(m, app, f) = {}
      BY <2>1 DEF HandleMessage, Said
    <2> QED
      BY <1>1, <2>1, <2>2 DEF HandleSetAppIcon, shown
  <1>6. ASSUME NEW a \in Apps, NEW level \in Levels, m = SetVolume(a, level) PROVE Goal
    <2>1. m.type = "SetVolume" /\ m.app = a /\ m.level = level
      BY <1>6 DEF SetVolume
    <2>2. HandleSetVolume(a, level)
      BY <2>1 DEF HandleMessage
    <2>3. Said(m, app, f) = IF f = "volume" /\ a = app THEN {level} ELSE {}
      BY <2>1 DEF Said
    <2>4. \A x : /\ Listed(apps', x) <=> Listed(apps, x)
                 /\ Listed(apps, x) =>
                       Field(Find(apps', x), f) =
                          IF f = "volume" /\ x = a THEN level ELSE Field(Find(apps, x), f)
      <3>1. CASE ~ Listed(apps, a)
        BY <2>2, <3>1 DEF HandleSetVolume
      <3>2. CASE Listed(apps, a)
        <4> DEFINE k == Place(apps, a)
                   entry == [apps[k] EXCEPT !.volume = level]
        <4>1. k \in DOMAIN apps /\ apps[k] \in AppInfo /\ apps[k].id = a /\ apps[k] = Find(apps, a)
          BY <1>0, <3>2, PlaceIsListed DEF Find, AppLists
        <4>2. apps' = [apps EXCEPT ![k] = entry]
          BY <2>2, <3>2, <4>1 DEF HandleSetVolume
        <4>3. /\ entry \in AppInfo /\ entry.id = a
              /\ entry.volume = level /\ entry.muted = apps[k].muted
          <5> DEFINE old == apps[k]
          <5> HIDE DEF old, k
          <5> SUFFICES /\ [old EXCEPT !.volume = level] \in AppInfo
                       /\ [old EXCEPT !.volume = level].id = a
                       /\ [old EXCEPT !.volume = level].volume = level
                       /\ [old EXCEPT !.volume = level].muted = old.muted
            BY DEF old
          <5>1. old \in AppInfo /\ old.id = a
            BY <4>1 DEF old
          <5> QED
            BY <5>1, VolumeField
        <4> HIDE DEF entry
        <4>4. \A x : /\ Listed(apps', x) <=> Listed(apps, x)
                     /\ Listed(apps, x) =>
                           Find(apps', x) = IF x = a THEN entry ELSE Find(apps, x)
          <5>1. apps' \in {[apps EXCEPT ![Place(apps, a)] = entry]}
            BY <4>2
          <5> QED
            BY ONLY <1>0, <3>2, <4>3, <5>1, EntryField
        <4> QED
          BY <4>1, <4>3, <4>4 DEF Field, Fields
      <3> QED
        BY <3>1, <3>2
    <2>5. /\ selected_app' = selected_app
          /\ Shown(f)' = IF f = "volume" /\ selected_app = a THEN level ELSE Shown(f)
      BY <2>2 DEF HandleSetVolume, Shown, Fields
    <2> QED
      BY <2>1, <2>3, <2>4, <2>5 DEF Holds
  <1>7. ASSUME NEW a \in Apps, NEW muted \in BOOLEAN, m = SetMute(a, muted) PROVE Goal
    <2>1. m.type = "SetMute" /\ m.app = a /\ m.muted = muted
      BY <1>7 DEF SetMute
    <2>2. HandleSetMute(a, muted)
      BY <2>1 DEF HandleMessage
    <2>3. Said(m, app, f) = IF f = "muted" /\ a = app THEN {muted} ELSE {}
      BY <2>1 DEF Said
    <2>4. \A x : /\ Listed(apps', x) <=> Listed(apps, x)
                 /\ Listed(apps, x) =>
                       Field(Find(apps', x), f) =
                          IF f = "muted" /\ x = a THEN muted ELSE Field(Find(apps, x), f)
      <3>1. CASE ~ Listed(apps, a)
        BY <2>2, <3>1 DEF HandleSetMute
      <3>2. CASE Listed(apps, a)
        <4> DEFINE k == Place(apps, a)
                   entry == [apps[k] EXCEPT !.muted = muted]
        <4>1. k \in DOMAIN apps /\ apps[k] \in AppInfo /\ apps[k].id = a /\ apps[k] = Find(apps, a)
          BY <1>0, <3>2, PlaceIsListed DEF Find, AppLists
        <4>2. apps' = [apps EXCEPT ![k] = entry]
          BY <2>2, <3>2, <4>1 DEF HandleSetMute
        <4>3. /\ entry \in AppInfo /\ entry.id = a
              /\ entry.muted = muted /\ entry.volume = apps[k].volume
          <5> DEFINE old == apps[k]
          <5> HIDE DEF old, k
          <5> SUFFICES /\ [old EXCEPT !.muted = muted] \in AppInfo
                       /\ [old EXCEPT !.muted = muted].id = a
                       /\ [old EXCEPT !.muted = muted].muted = muted
                       /\ [old EXCEPT !.muted = muted].volume = old.volume
            BY DEF old
          <5>1. old \in AppInfo /\ old.id = a
            BY <4>1 DEF old
          <5> QED
            BY <5>1, MuteField
        <4> HIDE DEF entry
        <4>4. \A x : /\ Listed(apps', x) <=> Listed(apps, x)
                     /\ Listed(apps, x) =>
                           Find(apps', x) = IF x = a THEN entry ELSE Find(apps, x)
          <5>1. apps' \in {[apps EXCEPT ![Place(apps, a)] = entry]}
            BY <4>2
          <5> QED
            BY ONLY <1>0, <3>2, <4>3, <5>1, EntryField
        <4> QED
          BY <4>1, <4>3, <4>4 DEF Field, Fields
      <3> QED
        BY <3>1, <3>2
    <2>5. /\ selected_app' = selected_app
          /\ Shown(f)' = IF f = "muted" /\ selected_app = a THEN muted ELSE Shown(f)
      BY <2>2 DEF HandleSetMute, Shown, Fields
    <2> QED
      BY <2>1, <2>3, <2>4, <2>5 DEF Holds
  <1> QED
    BY <1>2, <1>3, <1>4, <1>5, <1>6, <1>7 DEF Commands

-----------------------------------------------------------------------------
(* The steps                                                               *)

CacheInv == CarriedInv /\ SelectsInv /\ StartedInv

\* The invariants of the next state, spelled out.
LEMMA CacheNext ==
    ASSUME pc' \in Working =>
              /\ \A f \in Fields : \A app \in DOMAIN Cache(f)' :
                    WillHold(Pending', apps', selected_app', Shown(f)', app, f, Cache(f)'[app])
              /\ SelectsListed(Pending', apps'),
           pc' \in {"drain", "greet"} =>
              \A f \in Fields : \A app \in DOMAIN Cache(f)' :
                 Listed(app_infos', app) /\ Cache(f)'[app] = Field(Find(app_infos', app), f)
    PROVE  CacheInv'
  <1>1. CarriedInv'
    BY DEF CarriedInv, WillHold, LastSaid, NoneSaid, Holds, Said, Field, Find, Listed, Place
  <1>2. SelectsInv'
    BY DEF SelectsInv, SelectsListed, Listed
  <1>3. StartedInv'
    BY DEF StartedInv, Field, Find, Listed, Place
  <1> QED
    BY <1>1, <1>2, <1>3 DEF CacheInv

\* What is written has no fragments in it.
LEMMA PendingCommands ==
    ASSUME WiresInv, UncutInv, pc \in Working
    PROVE  /\ toDev \in Seq(Commands)
           /\ pc = "ack" => plan \in Seq(Commands) /\ plan # <<>> /\ Tail(plan) \in Seq(Commands)
           /\ Pending \in Seq(Commands)
  <1> HIDE DEF Commands
  <1>1. toDev \in Seq(Commands)
    <2>1. toDev \in Seq(Commands \cup {Cut}) /\ \A i \in DOMAIN toDev : toDev[i] # Cut
      BY DEF UncutInv, Working, WiresInv
    <2>2. \A i \in DOMAIN toDev : toDev[i] \in Commands
      BY <2>1
    <2> QED
      BY <2>1, <2>2
  <1>2. pc = "ack" => plan \in Seq(Commands) /\ plan # <<>>
    <2>1. plan \in Seq(Awaited) /\ (pc = "ack" => plan # <<>>)
      BY DEF WiresInv
    <2>2. \A i \in DOMAIN plan : plan[i] \in Commands
      BY <2>1 DEF Awaited
    <2> QED
      BY <2>1, <2>2
  <1>3. pc = "ack" => Tail(plan) \in Seq(Commands)
    BY <1>2
  <1>4. pc = "ack" => toDev \o Tail(plan) \in Seq(Commands)
    <2> DEFINE rest == Tail(plan)
    <2> SUFFICES rest \in Seq(Commands) => toDev \o rest \in Seq(Commands)
      BY <1>3
    <2> HIDE DEF rest
    <2> QED
      BY <1>1
  <1> QED
    BY <1>1, <1>2, <1>3, <1>4 DEF Pending

\* A step after which the same is on its way to the same knob.
LEMMA CacheKept ==
    ASSUME CacheInv, UNCHANGED <<apps, selected_app, current_volume, current_muted, volumes,
                                 mutes, app_infos>>,
           pc' \in Working => pc \in Working /\ Pending' = Pending,
           pc' \in {"drain", "greet"} => pc \in {"drain", "greet"}
    PROVE  CacheInv'
  <1>1. \A f \in Fields : Cache(f)' = Cache(f) /\ Shown(f)' = Shown(f)
    BY DEF Cache, Shown
  <1>2. ASSUME pc' \in Working
        PROVE  /\ \A f \in Fields : \A app \in DOMAIN Cache(f)' :
                     WillHold(Pending', apps', selected_app', Shown(f)', app, f, Cache(f)'[app])
               /\ SelectsListed(Pending', apps')
    BY <1>1, <1>2 DEF CacheInv, CarriedInv, SelectsInv
  <1>3. ASSUME pc' \in {"drain", "greet"}
        PROVE  \A f \in Fields : \A app \in DOMAIN Cache(f)' :
                  Listed(app_infos', app) /\ Cache(f)'[app] = Field(Find(app_infos', app), f)
    BY <1>1, <1>3 DEF CacheInv, StartedInv
  <1> QED
    BY <1>2, <1>3, CacheNext

LEMMA ReceiveCache ==
    ASSUME CacheInv, DeviceInv, WiresInv, UncutInv, Receive
    PROVE  CacheInv'
  <1> DEFINE m == Head(toDev)
  <1>1. /\ toDev # <<>> /\ HandleMessage(m) /\ toDev' = Tail(toDev)
        /\ UNCHANGED <<pc, plan, volumes, mutes, app_infos>>
    BY DEF Receive, caches
  <1>2. \A f \in Fields : Cache(f)' = Cache(f)
    BY <1>1 DEF Cache
  <1>3. ASSUME pc \in Working
        PROVE  /\ \A f \in Fields : \A app \in DOMAIN Cache(f) :
                     WillHold(Pending', apps', selected_app', Shown(f)', app, f, Cache(f)[app])
               /\ SelectsListed(Pending', apps')
    <2> HIDE DEF Commands
    <2>1. /\ toDev \in Seq(Commands) /\ (pc = "ack" => Tail(plan) \in Seq(Commands))
          /\ Pending \in Seq(Commands)
      BY <1>3, PendingCommands
    <2>2. m \in Commands
      BY <1>1, <2>1
    <2>3. Pending # <<>> /\ Head(Pending) = m /\ Pending' = Tail(Pending)
      <3>1. CASE pc = "ack"
        <4> DEFINE rest == Tail(plan)
        <4>1. rest \in Seq(Commands) /\ Pending = toDev \o rest /\ Pending' = Tail(toDev) \o rest
          BY <1>1, <2>1, <3>1 DEF Pending
        <4> HIDE DEF rest
        <4>2. /\ toDev \o rest # <<>> /\ Head(toDev \o rest) = Head(toDev)
              /\ Tail(toDev \o rest) = Tail(toDev) \o rest
          BY ONLY <1>1, <2>1, <4>1
        <4> QED
          BY <4>1, <4>2
      <3>2. CASE pc # "ack"
        BY <1>1, <3>2 DEF Pending
      <3> QED
        BY <3>1, <3>2
    <2> HIDE DEF m
    <2>4. SelectsListed(Pending, apps)
      BY <1>3 DEF CacheInv, SelectsInv
    <2>5. m.type = "SetSelectedApp" => Listed(apps, m.app)
      <3> DEFINE list2 == IF m.type = "SetAppList" THEN m.list ELSE apps
      <3>1. IF m.type = "SetAppList" THEN list2 = m.list
               ELSE \A app : Listed(list2, app) <=> Listed(apps, app)
        OBVIOUS
      <3> HIDE DEF list2
      <3> QED
        BY ONLY <2>1, <2>3, <2>4, <3>1, SelectsLess
    <2>6. ASSUME NEW f \in Fields, NEW app, NEW v
          PROVE  /\ Said(m, app, f) = {v}
                      => Holds(apps', selected_app', Shown(f)', app, f, v)
                 /\ Said(m, app, f) = {} /\ Holds(apps, selected_app, Shown(f), app, f, v)
                      => Holds(apps', selected_app', Shown(f)', app, f, v)
                 /\ IF m.type = "SetAppList" THEN apps' = m.list
                       ELSE \A x : Listed(apps', x) <=> Listed(apps, x)
      BY <1>1, <2>2, <2>5, Handled DEF m
    <2>7. SelectsListed(Pending', apps')
      <3>1. IF m.type = "SetAppList" THEN apps' = m.list
               ELSE \A x : Listed(apps', x) <=> Listed(apps, x)
        BY <2>6 DEF Fields
      <3>2. SelectsListed(Tail(Pending), apps')
        BY ONLY <2>1, <2>3, <2>4, <3>1, SelectsLess
      <3> QED
        BY <2>3, <3>2
    <2>8. ASSUME NEW f \in Fields, NEW app \in DOMAIN Cache(f)
          PROVE  WillHold(Pending', apps', selected_app', Shown(f)', app, f, Cache(f)[app])
      <3> DEFINE v == Cache(f)[app]
                 value == Shown(f)
                 value2 == Shown(f)'
      <3>1. WillHold(Pending, apps, selected_app, value, app, f, v)
        BY <1>3 DEF CacheInv, CarriedInv
      <3>2. /\ Said(m, app, f) = {v} => Holds(apps', selected_app', value2, app, f, v)
            /\ Said(m, app, f) = {} /\ Holds(apps, selected_app, value, app, f, v)
                 => Holds(apps', selected_app', value2, app, f, v)
        BY <2>6
      <3> HIDE DEF v, value, value2
      <3>3. WillHold(Tail(Pending), apps', selected_app', value2, app, f, v)
        BY ONLY <2>1, <2>3, <3>1, <3>2, SaysLess
      <3> QED
        BY <2>3, <3>3 DEF v, value2
    <2> QED
      BY <2>7, <2>8
  <1>4. pc' = pc /\ (pc \in {"drain", "greet"} =>
           \A f \in Fields : \A app \in DOMAIN Cache(f) :
              Listed(app_infos', app) /\ Cache(f)[app] = Field(Find(app_infos', app), f))
    BY <1>1 DEF CacheInv, StartedInv
  <1> QED
    BY <1>2, <1>3, <1>4, CacheNext

\* A swipe shows what the list has of another of its apps.
LEMMA SwipeCache ==
    ASSUME CacheInv, DeviceInv, SwipeLeft \/ SwipeRight, UNCHANGED envVars
    PROVE  CacheInv'
  <1>1. UNCHANGED <<apps, pc, plan, toDev, volumes, mutes, app_infos>>
    BY DEF SwipeLeft, SwipeRight, Swipe, envVars, caches
  <1>2. PICK k \in 1 .. Len(apps) :
           /\ selected_app' = apps[k].id
           /\ \A f \in Fields : Shown(f)' = Field(apps[k], f)
    <2>1. PICK step \in Int : Swipe(step)
      <3>1. Len(apps) - 1 \in Int
        BY DEF DeviceInv, DeviceTypeOK, AppLists
      <3> QED
        BY <3>1 DEF SwipeLeft, SwipeRight
    <2>2. /\ selected_idx' \in 0 .. Len(apps) - 1
          /\ selected_app' = apps[selected_idx' + 1].id
          /\ current_volume' = apps[selected_idx' + 1].volume
          /\ current_muted' = apps[selected_idx' + 1].muted
      <3>1. Len(apps) \in Nat /\ Len(apps) # 0 /\ selected_idx \in Int
        BY <2>1 DEF Swipe, DeviceInv, DeviceTypeOK, AppLists
      <3>2. (selected_idx + step) % Len(apps) \in 0 .. Len(apps) - 1
        BY <3>1
      <3> QED
        BY <2>1, <3>2 DEF Swipe
    <2>3. selected_idx' + 1 \in 1 .. Len(apps)
      <3>1. Len(apps) \in Nat
        BY DEF DeviceInv, DeviceTypeOK, AppLists
      <3>2. selected_idx' \in 0 .. Len(apps) - 1
        BY <2>2
      <3>3. \A n \in Nat : \A i \in 0 .. n - 1 : i + 1 \in 1 .. n
        OBVIOUS
      <3> QED
        BY ONLY <3>1, <3>2, <3>3
    <2> QED
      BY <2>2, <2>3 DEF Shown, Field
  <1>3. Listed(apps, apps[k].id) /\ Find(apps, apps[k].id) = apps[k]
    BY PlaceIsUnique DEF DeviceInv, DeviceTypeOK, Find
  <1>4. Pending' = Pending /\ \A f \in Fields : Cache(f)' = Cache(f)
    BY <1>1 DEF Pending, Cache
  <1>5. ASSUME pc \in Working, NEW f \in Fields, NEW app \in DOMAIN Cache(f)
        PROVE  WillHold(Pending, apps, selected_app', Shown(f)', app, f, Cache(f)[app])
    <2>1. WillHold(Pending, apps, selected_app, Shown(f), app, f, Cache(f)[app])
      BY <1>5 DEF CacheInv, CarriedInv
    <2>2. Holds(apps, selected_app, Shown(f), app, f, Cache(f)[app])
             => Holds(apps, selected_app', Shown(f)', app, f, Cache(f)[app])
      BY <1>2, <1>3 DEF Holds
    <2> QED
      BY <2>1, <2>2 DEF WillHold
  <1> QED
    BY <1>1, <1>4, <1>5, CacheNext DEF CacheInv, SelectsInv, StartedInv

\* The worker's list is on its way, and says what it has cached.
LEMMA StartCache ==
    ASSUME sessions \in HostLists, Start
    PROVE  CacheInv'
  <1>1. pc' = "drain" /\ app_infos' = sessions
    BY DEF Start
  <1>2. ASSUME NEW f \in Fields, NEW app \in DOMAIN Cache(f)'
        PROVE  Listed(sessions, app) /\ Cache(f)'[app] = Field(Find(sessions, app), f)
    <2>1. Cache(f)' = [x \in Ids(sessions) |-> Field(Find(sessions, x), f)]
      BY DEF Start, Cache, Fields, Field
    <2> QED
      BY <2>1 DEF Ids, Listed
  <1> QED
    BY <1>1, <1>2, CacheNext DEF Working

\* The plan of the initialisation is all there is under way when it begins.
LEMMA BeginCache ==
    ASSUME CacheInv, pc = "greet", CachesInv, toDev = <<>>, BeginPlan, UNCHANGED <<caches, apps>>
    PROVE  CacheInv'
  <1>1. PICK order \in Bijection(1 .. Cardinality(icons), icons) :
           /\ plan' = <<SetAppList(app_infos), SetSelectedApp(app_infos[1].id)>>
                         \o [i \in DOMAIN order |-> SetAppIcon(order[i])]
           /\ toDev' = Append(toDev, Head(plan')) /\ pc' = "ack"
    BY DEF BeginPlan
  <1> DEFINE first == SetAppList(app_infos)
             second == SetSelectedApp(app_infos[1].id)
             rest == [i \in DOMAIN order |-> SetAppIcon(order[i])]
  <1>2. DOMAIN order = 1 .. Cardinality(icons) /\ Cardinality(icons) \in Nat
    <2>1. IsFiniteSet(icons)
      BY AppsAssumption, FS_Subset DEF CachesInv
    <2> QED
      BY <2>1, FS_CardinalityType DEF Bijection, Injection
  <1>3. /\ \A i \in DOMAIN rest : rest[i].type = "SetAppIcon"
        /\ rest \in Seq({rest[i] : i \in DOMAIN rest})
    BY <1>2 DEF SetAppIcon
  <1>4. /\ first.type = "SetAppList" /\ first.list = app_infos
        /\ second.type = "SetSelectedApp" /\ second.app = app_infos[1].id
    BY DEF SetAppList, SetSelectedApp
  <1> HIDE DEF first, second, rest
  <1>5. /\ plan' # <<>> /\ Head(plan') = first /\ Tail(plan') = <<second>> \o rest
        /\ DOMAIN plan' = 1 .. Len(rest) + 2 /\ Len(rest) \in Nat
        /\ plan'[1] = first /\ plan'[2] = second
        /\ \A i \in 3 .. Len(rest) + 2 : plan'[i].type = "SetAppIcon"
    BY <1>1, <1>3 DEF first, second, rest
  <1>6. Pending' = plan'
    <2>1. Pending' = Append(<<>>, Head(plan')) \o Tail(plan')
      BY <1>1 DEF Pending
    <2>2. PICK S : plan' \in Seq(S)
      <3>1. toDev \in Seq(Commands \cup {Cut})
        OBVIOUS
      <3> QED
        BY <3>1, BeginPlanIsCommands DEF CachesInv
    <2> QED
      BY ONLY <1>5, <2>1, <2>2
  <1>7. SelectsListed(plan', apps')
    <2>1. Listed(app_infos, app_infos[1].id)
      BY HostListsAssumption DEF CachesInv, AppLists, Listed
    <2>2. ASSUME NEW i \in DOMAIN plan', plan'[i].type = "SetSelectedApp"
          PROVE  /\ plan'[i] = second
                 /\ \A j \in DOMAIN plan' : j < i => plan'[j] = first
                 /\ 1 \in DOMAIN plan' /\ 1 < i
      BY <1>4, <1>5, <2>2
    <2> QED
      BY <1>4, <1>5, <2>1, <2>2 DEF SelectsListed
  <1>8. ASSUME NEW f \in Fields, NEW app \in DOMAIN Cache(f)
        PROVE  WillHold(plan', apps', selected_app', Shown(f)', app, f, Cache(f)[app])
    <2>1. Listed(app_infos, app) /\ Cache(f)[app] = Field(Find(app_infos, app), f)
      BY DEF CacheInv, StartedInv
    <2>2. Said(first, app, f) = {Cache(f)[app]}
      BY <1>4, <2>1 DEF Said
    <2>3. Said(second, app, f) = {} /\ \A i \in 3 .. Len(rest) + 2 : Said(plan'[i], app, f) = {}
      BY <1>4, <1>5 DEF Said
    <2>4. \A i \in DOMAIN plan' : Said(plan'[i], app, f) \in {{}, {Cache(f)[app]}}
      <3> TAKE i \in DOMAIN plan'
      <3>1. i = 1 \/ i = 2 \/ i \in 3 .. Len(rest) + 2
        BY <1>5
      <3> QED
        BY <1>5, <2>2, <2>3, <3>1
    <2>5. 1 \in DOMAIN plan' /\ Said(plan'[1], app, f) # {}
      BY <1>5, <2>2
    <2> QED
      BY <2>4, <2>5 DEF WillHold, LastSaid, NoneSaid
  <1>9. \A f \in Fields : Cache(f)' = Cache(f)
    BY DEF Cache, caches
  <1> QED
    BY <1>1, <1>6, <1>7, <1>8, <1>9, CacheNext

LEMMA GreetCache ==
    ASSUME CacheInv, AckingInv, CachesInv, WiresInv, UNCHANGED apps, selected_app' = selected_app,
           UNCHANGED <<current_volume, current_muted>>, GreetRead \/ GreetTimeout
    PROVE  CacheInv'
  <1> HIDE DEF Events, Commands
  <1>1. pc = "greet" /\ UNCHANGED caches
    BY DEF GreetRead, GreetTimeout
  <1>2. CASE BeginPlan
    <2>1. AckingInv'
      BY GreetAcking
    <2>2. /\ toDev \in Seq(Commands \cup {Cut}) /\ app_infos # <<>>
          /\ pc' = "ack" /\ resume' = "read" /\ toDev' = Append(toDev, Head(plan'))
      BY <1>1, <1>2, BeginPlanIsCommands DEF CachesInv, WiresInv
    <2>3. toDev' = <<Head(plan')>> \/ toDev' = <<>>
      BY <2>1, <2>2 DEF AckingInv, InStepInv
    <2>4. toDev = <<>>
      BY <2>2, <2>3
    <2> QED
      BY <1>1, <1>2, <2>4, BeginCache
  <1>3. CASE ~ BeginPlan
    <2>1. pc' = "greet"
      BY <1>1, <1>3 DEF GreetRead, GreetTimeout
    <2> QED
      BY <1>1, <2>1, CacheKept DEF Working, caches
  <1> QED
    BY <1>2, <1>3

\* Written one by one or all at once.
LEMMA OneOver ==
    ASSUME NEW S, NEW s \in Seq(S), NEW t \in Seq(S), t # <<>>
    PROVE  Append(s, Head(t)) \o Tail(t) = s \o t
  OBVIOUS

\* The next command of a plan was under way already.
LEMMA AckCache ==
    ASSUME CacheInv, WiresInv, UncutInv, AckRead \/ AckTimeout,
           UNCHANGED <<apps, selected_app, current_volume, current_muted>>
    PROVE  CacheInv'
  <1>1. pc = "ack" /\ UNCHANGED caches
    BY DEF AckRead, AckTimeout
  <1>2. NextOfPlan \/ UNCHANGED <<pc, plan, toDev>>
    BY DEF AckRead, AckTimeout
  <1>3. pc' \in Working /\ Pending' = Pending
    <2>1. CASE UNCHANGED <<pc, plan, toDev>>
      BY <1>1, <2>1 DEF Working, Pending
    <2>2. CASE NextOfPlan
      <3> HIDE DEF Commands
      <3>1. toDev \in Seq(Commands) /\ plan \in Seq(Commands) /\ plan # <<>>
        BY <1>1, PendingCommands DEF Working
      <3>2. resume \in {"read", "decode"} /\ Pending = toDev \o Tail(plan)
        BY <1>1 DEF WiresInv, Pending
      <3>3. CASE Len(plan) > 1
        <4>1. Pending' = Append(toDev, plan[2]) \o Tail(Tail(plan)) /\ pc' = "ack"
          BY <2>2, <3>3 DEF NextOfPlan, Pending
        <4> DEFINE more == Tail(plan)
        <4>2. more \in Seq(Commands) /\ more # <<>> /\ plan[2] = Head(more)
          <5>1. Len(plan) \in Nat /\ Len(more) = Len(plan) - 1 /\ more \in Seq(Commands)
            BY ONLY <3>1
          <5>2. \A i \in 1 .. Len(more) : more[i] = plan[i + 1]
            BY ONLY <3>1
          <5>3. Len(more) > 0 /\ 1 \in 1 .. Len(more)
            BY ONLY <3>3, <5>1
          <5> HIDE DEF more
          <5>4. more # <<>> /\ Head(more) = more[1] /\ more[1] = plan[2]
            BY ONLY <5>1, <5>2, <5>3
          <5> QED
            BY <5>1, <5>4
        <4> HIDE DEF more
        <4>3. Append(toDev, Head(more)) \o Tail(more) = toDev \o more
          BY ONLY <3>1, <4>2, OneOver
        <4> QED
          BY <3>2, <4>1, <4>2, <4>3 DEF Working, more
      <3>4. CASE ~ (Len(plan) > 1)
        <4>1. Pending' = toDev /\ pc' = resume
          BY <2>2, <3>2, <3>4 DEF NextOfPlan, Pending
        <4>2. Tail(plan) = <<>>
          BY <3>1, <3>4
        <4>3. toDev \o <<>> = toDev
          BY ONLY <3>1
        <4> QED
          BY <3>2, <4>1, <4>2, <4>3 DEF Working
      <3> QED
        BY <3>3, <3>4
    <2> QED
      BY <1>2, <2>1, <2>2
  <1> QED
    BY <1>1, <1>3, CacheKept DEF Working, caches

\* What the knob sends or the mixer does is nobody's value.
LEMMA QuietCache ==
    ASSUME CacheInv, Drain \/ Read \/ ReadTimeout \/ OnOther \/ NoMoreFrames,
           UNCHANGED <<apps, selected_app, current_volume, current_muted>>
    PROVE  CacheInv'
  <1>1. UNCHANGED caches
    BY DEF Drain, Read, ReadTimeout, OnOther, NoMoreFrames
  <1>2. pc' \in Working => pc \in Working /\ Pending' = Pending
    BY DEF Drain, Read, ReadTimeout, OnOther, NoMoreFrames, NextFrame, Working, Pending, wires
  <1>3. pc' \in {"drain", "greet"} => pc \in {"drain", "greet"}
    BY DEF Drain, Read, ReadTimeout, OnOther, NoMoreFrames, NextFrame
  <1> QED
    BY <1>1, <1>2, <1>3, CacheKept DEF caches

\* A value cached is sent: the command says it, and no other app's.
LEMMA WrittenCache ==
    ASSUME CacheInv, WiresInv, UncutInv, pc = "decode", pc' = "decode",
           UNCHANGED <<apps, selected_app, current_volume, current_muted>>,
           NEW m \in Commands, toDev' = Append(toDev, m), m.type # "SetSelectedApp",
           \A f \in Fields : \A app \in DOMAIN Cache(f)' :
              \/ Said(m, app, f) = {Cache(f)'[app]}
              \/ /\ Said(m, app, f) = {}
                 /\ app \in DOMAIN Cache(f) /\ Cache(f)'[app] = Cache(f)[app]
    PROVE  CacheInv'
  <1> HIDE DEF Commands
  <1>1. toDev \in Seq(Commands) /\ pc \in Working
    BY PendingCommands DEF Working
  <1>2. Pending = toDev /\ Pending' = Append(toDev, m)
    BY DEF Pending
  <1>3. ASSUME NEW f \in Fields, NEW app \in DOMAIN Cache(f)'
        PROVE  WillHold(Pending', apps', selected_app', Shown(f)', app, f, Cache(f)'[app])
    <2> DEFINE v == Cache(f)'[app]
               value == Shown(f)
    <2>1. \/ Said(m, app, f) = {v}
          \/ Said(m, app, f) = {} /\ WillHold(toDev, apps, selected_app, value, app, f, v)
      BY <1>1, <1>2 DEF CacheInv, CarriedInv
    <2>2. value = Shown(f)'
      BY DEF Shown
    <2> HIDE DEF v, value
    <2>3. WillHold(Append(toDev, m), apps, selected_app, value, app, f, v)
      BY ONLY <1>1, <2>1, m \in Commands, SaysMore
    <2> QED
      BY <1>2, <2>2, <2>3 DEF v
  <1>4. SelectsListed(Pending', apps')
    <2>1. SelectsListed(toDev, apps)
      BY <1>1, <1>2 DEF CacheInv, SelectsInv
    <2>2. SelectsListed(Append(toDev, m), apps)
      BY ONLY <1>1, <2>1, m \in Commands, m.type # "SetSelectedApp", SelectsMore
    <2> QED
      BY <1>2, <2>2
  <1> QED
    BY <1>3, <1>4, CacheNext

LEMMA SetterCache ==
    ASSUME CacheInv, CachesInv, WiresInv, UncutInv, OnVolumeDelta \/ OnMuteToggle,
           UNCHANGED <<apps, selected_app, current_volume, current_muted>>
    PROVE  CacheInv'
  <1>1. pc = "decode" /\ pc' = "decode" /\ UNCHANGED <<plan, app_infos>>
    BY DEF OnVolumeDelta, OnMuteToggle, NextFrame
  <1>2. ASSUME UNCHANGED <<volumes, mutes, toDev>> PROVE CacheInv'
    BY <1>1, <1>2, CacheKept DEF Working, Pending
  <1>3. CASE OnVolumeDelta
    <2> DEFINE app == Head(decoder).app
               current == IF app \in DOMAIN volumes THEN volumes[app] ELSE MaxLevel \div 2
               level == Clamp(current + Head(decoder).delta)
               m == SetVolume(app, level)
    <2>1. \/ UNCHANGED <<volumes, mutes, toDev>>
          \/ /\ volumes' = Insert(volumes, app, level) /\ mutes' = mutes
             /\ toDev' = Append(toDev, SetVolume(app, level))
      BY <1>3 DEF OnVolumeDelta
    <2>2. ASSUME volumes' = Insert(volumes, app, level), mutes' = mutes,
                 toDev' = Append(toDev, SetVolume(app, level))
          PROVE  CacheInv'
      <3>1. app \in Apps /\ Head(decoder).delta \in Int
        BY <1>3, HeadIsEvent, EventFields, DeltasAssumption DEF OnVolumeDelta
      <3>2. current \in Int
        BY <3>1, MaxLevelAssumption DEF CachesInv, Levels
      <3>3. level \in Levels
        <4> HIDE DEF app, current
        <4> QED
          BY <3>1, <3>2, ClampInLevels
      <3> HIDE DEF app, level
      <3>4. m \in Commands /\ m.type = "SetVolume" /\ m.app = app /\ m.level = level
        BY <3>1, <3>3 DEF Commands, SetVolume
      <3>5. \A f \in Fields : \A x \in DOMAIN Cache(f)' :
               \/ Said(m, x, f) = {Cache(f)'[x]}
               \/ /\ Said(m, x, f) = {}
                  /\ x \in DOMAIN Cache(f) /\ Cache(f)'[x] = Cache(f)[x]
        <4> HIDE DEF m
        <4> QED
          BY <2>2, <3>4 DEF Said, Cache, Fields, Insert, InsertAll
      <3> QED
        BY <1>1, <2>2, <3>4, <3>5, WrittenCache
    <2> QED
      BY <1>2, <2>1, <2>2
  <1>4. CASE OnMuteToggle
    <2> DEFINE app == Head(decoder).app
               muted == ~ (IF app \in DOMAIN mutes THEN mutes[app] ELSE FALSE)
               m == SetMute(app, muted)
    <2>1. \/ UNCHANGED <<volumes, mutes, toDev>>
          \/ /\ mutes' = Insert(mutes, app, muted) /\ volumes' = volumes
             /\ toDev' = Append(toDev, SetMute(app, muted))
      BY <1>4 DEF OnMuteToggle
    <2>2. ASSUME mutes' = Insert(mutes, app, muted), volumes' = volumes,
                 toDev' = Append(toDev, SetMute(app, muted))
          PROVE  CacheInv'
      <3>1. app \in Apps
        BY <1>4, HeadIsEvent, EventFields DEF OnMuteToggle
      <3>2. muted \in BOOLEAN
        BY Zenon
      <3> HIDE DEF app, muted
      <3>3. m \in Commands /\ m.type = "SetMute" /\ m.app = app /\ m.muted = muted
        BY <3>1, <3>2 DEF Commands, SetMute
      <3>4. \A f \in Fields : \A x \in DOMAIN Cache(f)' :
               \/ Said(m, x, f) = {Cache(f)'[x]}
               \/ /\ Said(m, x, f) = {}
                  /\ x \in DOMAIN Cache(f) /\ Cache(f)'[x] = Cache(f)[x]
        <4> HIDE DEF m
        <4> QED
          BY <2>2, <3>3 DEF Said, Cache, Fields, Insert, InsertAll
      <3> QED
        BY <1>1, <2>2, <3>3, <3>4, WrittenCache
    <2> QED
      BY <1>2, <2>1, <2>2
  <1> QED
    BY <1>3, <1>4

\* What the worker may write or not.
LEMMA SaysMaybe ==
    ASSUME NEW S, NEW wire \in Seq(S), NEW more \in Seq(S), Len(more) <= 1,
           NEW list, NEW sel, NEW value, NEW app, NEW f, NEW v,
           \/ more # <<>> /\ Said(more[1], app, f) = {v}
           \/ /\ more # <<>> => Said(more[1], app, f) = {}
              /\ WillHold(wire, list, sel, value, app, f, v)
    PROVE  WillHold(wire \o more, list, sel, value, app, f, v)
  <1>1. CASE more = <<>>
    <2>1. wire \o <<>> = wire
      OBVIOUS
    <2> QED
      BY <1>1, <2>1
  <1>2. CASE more # <<>>
    <2>1. more[1] \in S /\ wire \o more = Append(wire, more[1])
      BY ONLY wire \in Seq(S), more \in Seq(S), Len(more) <= 1, <1>2
    <2>2. WillHold(Append(wire, more[1]), list, sel, value, app, f, v)
      BY <1>2, <2>1, SaysMore
    <2> QED
      BY <2>1, <2>2
  <1> QED
    BY <1>1, <1>2

LEMMA SelectsMaybe ==
    ASSUME NEW S, NEW wire \in Seq(S), NEW more \in Seq(S), Len(more) <= 1, NEW list,
           SelectsListed(wire, list), more # <<>> => more[1].type # "SetSelectedApp"
    PROVE  SelectsListed(wire \o more, list)
  <1>1. CASE more = <<>>
    <2>1. wire \o <<>> = wire
      OBVIOUS
    <2> QED
      BY <1>1, <2>1
  <1>2. CASE more # <<>>
    <2>1. more[1] \in S /\ wire \o more = Append(wire, more[1])
      BY ONLY wire \in Seq(S), more \in Seq(S), Len(more) <= 1, <1>2
    <2>2. SelectsListed(Append(wire, more[1]), list)
      BY <1>2, <2>1, SelectsMore
    <2> QED
      BY <2>1, <2>2
  <1> QED
    BY <1>1, <1>2

\* The answer to a swipe says what is cached.
LEMMA SelectedCache ==
    ASSUME CacheInv, CachesInv, WiresInv, UncutInv, OnAppSelected,
           UNCHANGED <<apps, selected_app, current_volume, current_muted>>
    PROVE  CacheInv'
  <1> DEFINE app == Head(decoder).app
             volume == IF app \in DOMAIN volumes THEN <<SetVolume(app, volumes[app])>> ELSE <<>>
             icon == IF app \in icons THEN <<SetAppIcon(app)>> ELSE <<>>
             p == volume \o icon
  <1>1. /\ pc = "decode" /\ UNCHANGED caches
        /\ IF p = <<>>
             THEN UNCHANGED <<pc, plan, resume, toDev>>
             ELSE /\ plan' = p
                  /\ toDev' = Append(toDev, Head(p))
                  /\ resume' = "decode"
                  /\ pc' = "ack"
    BY DEF OnAppSelected, NextFrame
  <1>2. CASE p = <<>>
    BY <1>1, <1>2, CacheKept DEF Working, Pending, caches
  <1>3. CASE p # <<>>
    <2>1. app \in Apps
      BY HeadIsEvent, EventFields DEF OnAppSelected
    <2>2. /\ app \in DOMAIN volumes => SetVolume(app, volumes[app]) \in Commands
          /\ SetAppIcon(app) \in Commands
      BY <2>1 DEF CachesInv, Commands
    <2> HIDE DEF Commands, app
    <2>3. /\ volume \in Seq(Commands) /\ Len(volume) <= 1
          /\ volume # <<>> =>
                app \in DOMAIN volumes /\ volume[1] = SetVolume(app, volumes[app])
      BY <2>2
    <2>4. /\ icon \in Seq(Commands) /\ Len(icon) <= 1
          /\ icon # <<>> => icon[1] = SetAppIcon(app)
      BY <2>2
    <2> HIDE DEF volume, icon
    <2>5. toDev \in Seq(Commands) /\ pc \in Working /\ Pending = toDev
      BY <1>1, PendingCommands DEF Working, Pending
    <2>6. pc' = "ack" /\ Pending' = (toDev \o volume) \o icon
      <3>1. Append(toDev, Head(volume \o icon)) \o Tail(volume \o icon) = (toDev \o volume) \o icon
        <4>1. volume \o icon \in Seq(Commands)
          BY <2>3, <2>4
        <4>2. Append(toDev, Head(p)) \o Tail(p) = toDev \o p
          <5>1. p \in Seq(Commands)
            BY <4>1
          <5> HIDE DEF p
          <5> QED
            BY ONLY <1>3, <2>5, <5>1, OneOver
        <4>3. toDev \o (volume \o icon) = (toDev \o volume) \o icon
          BY ONLY <2>3, <2>4, <2>5
        <4> QED
          BY <4>2, <4>3
      <3> QED
        BY <1>1, <1>3, <3>1 DEF Pending
    <2>7. ASSUME NEW f \in Fields, NEW x \in DOMAIN Cache(f)
          PROVE  WillHold((toDev \o volume) \o icon, apps, selected_app, Shown(f), x, f, Cache(f)[x])
      <3> DEFINE v == Cache(f)[x]
                 value == Shown(f)
      <3>1. WillHold(toDev, apps, selected_app, value, x, f, v)
        BY <2>5 DEF CacheInv, CarriedInv
      <3>2. volume # <<>> => Said(volume[1], x, f) \in {{}, {v}}
        BY <2>3 DEF Said, SetVolume, Cache, Fields
      <3>3. icon # <<>> => Said(icon[1], x, f) = {}
        BY <2>4 DEF Said, SetAppIcon
      <3> HIDE DEF v, value
      <3>4. WillHold(toDev \o volume, apps, selected_app, value, x, f, v)
        BY <2>3, <2>5, <3>1, <3>2, SaysMaybe
      <3>5. toDev \o volume \in Seq(Commands)
        BY <2>3, <2>5
      <3>6. WillHold((toDev \o volume) \o icon, apps, selected_app, value, x, f, v)
        BY <2>4, <3>3, <3>4, <3>5, SaysMaybe
      <3> QED
        BY <3>6 DEF v, value
    <2>8. SelectsListed((toDev \o volume) \o icon, apps)
      <3>1. SelectsListed(toDev, apps)
        BY <2>5 DEF CacheInv, SelectsInv
      <3>2. /\ volume # <<>> => volume[1].type # "SetSelectedApp"
            /\ icon # <<>> => icon[1].type # "SetSelectedApp"
        BY <2>3, <2>4 DEF SetVolume, SetAppIcon
      <3>3. SelectsListed(toDev \o volume, apps)
        BY <2>3, <2>5, <3>1, <3>2, SelectsMaybe
      <3>4. toDev \o volume \in Seq(Commands)
        BY <2>3, <2>5
      <3> QED
        BY <2>4, <3>2, <3>3, <3>4, SelectsMaybe
    <2>9. \A f \in Fields : Cache(f)' = Cache(f) /\ Shown(f)' = Shown(f)
      BY <1>1 DEF Cache, Shown, caches
    <2> QED
      BY <2>6, <2>7, <2>8, <2>9, CacheNext
  <1> QED
    BY <1>2, <1>3

\* The refresh caches what the list it sends says.
LEMMA TailCache ==
    ASSUME CacheInv, sessions \in HostLists, CachesInv, WiresInv, UncutInv,
           NEW work, LoopTail(work),
           UNCHANGED <<apps, selected_app, current_volume, current_muted>>
    PROVE  CacheInv'
  <1> DEFINE ping == IF "ping" \in work THEN <<Ping>> ELSE <<>>
             settings == IF dirty THEN <<SetBacklight>> ELSE <<>>
             list == IF "refresh" \in work /\ Changed THEN <<SetAppList(sessions)>> ELSE <<>>
  <1>1. /\ pc = "tail" /\ pc' = "read"
        /\ toDev' = ((toDev \o ping) \o settings) \o list
    BY DEF LoopTail
  <1>2. {Ping, SetBacklight, SetAppList(sessions)} \subseteq Commands
    BY DEF Commands
  <1>3. /\ Ping.type = "Ping" /\ SetBacklight.type = "SetBacklight"
        /\ SetAppList(sessions).type = "SetAppList" /\ SetAppList(sessions).list = sessions
    BY DEF Ping, SetBacklight, SetAppList
  <1>4. ASSUME NEW f \in Fields, NEW app \in DOMAIN Cache(f)'
        PROVE  \/ /\ list = <<SetAppList(sessions)>>
                  /\ Listed(sessions, app) /\ Cache(f)'[app] = Field(Find(sessions, app), f)
               \/ /\ list = <<>> \/ ~ Listed(sessions, app)
                  /\ app \in DOMAIN Cache(f) /\ Cache(f)'[app] = Cache(f)[app]
    <2>1. CASE "refresh" \in work /\ Changed
      <3>1. Cache(f)' = InsertAll(Cache(f), [x \in Ids(sessions) |-> Field(Find(sessions, x), f)])
        BY <2>1 DEF LoopTail, Refresh, Cache, Fields, Field
      <3>2. \A x : x \in Ids(sessions) <=> Listed(sessions, x)
        BY DEF Ids, Listed
      <3> QED
        BY <2>1, <3>1, <3>2 DEF InsertAll
    <2>2. CASE ~ ("refresh" \in work /\ Changed)
      BY <2>2 DEF LoopTail, Refresh, Cache
    <2> QED
      BY <2>1, <2>2
  <1> HIDE DEF Commands, Ping, SetBacklight, SetAppList
  <1>5. /\ ping \in Seq(Commands) /\ Len(ping) <= 1 /\ (ping # <<>> => ping[1] = Ping)
        /\ settings \in Seq(Commands) /\ Len(settings) <= 1
        /\ settings # <<>> => settings[1] = SetBacklight
        /\ list \in Seq(Commands) /\ Len(list) <= 1
        /\ list # <<>> => list[1] = SetAppList(sessions)
    BY <1>2
  <1> HIDE DEF ping, settings, list
  <1>6. toDev \in Seq(Commands) /\ pc \in Working /\ Pending = toDev
    BY <1>1, PendingCommands DEF Working, Pending
  <1>7. toDev \o ping \in Seq(Commands) /\ (toDev \o ping) \o settings \in Seq(Commands)
    BY <1>5, <1>6
  <1>8. ASSUME NEW f \in Fields, NEW app \in DOMAIN Cache(f)'
        PROVE  WillHold(toDev', apps, selected_app, Shown(f), app, f, Cache(f)'[app])
    <2> DEFINE v == Cache(f)'[app]
               value == Shown(f)
    <2>1. CASE list # <<>> /\ Said(list[1], app, f) = {v}
      <3> HIDE DEF v, value
      <3> QED
        BY <1>1, <1>5, <1>7, <2>1, SaysMaybe DEF v, value
    <2>2. CASE ~ (list # <<>> /\ Said(list[1], app, f) = {v})
      <3>1. /\ list # <<>> => Said(list[1], app, f) = {}
            /\ app \in DOMAIN Cache(f) /\ v = Cache(f)[app]
        BY <1>3, <1>4, <1>5, <2>2 DEF Said
      <3>2. WillHold(toDev, apps, selected_app, value, app, f, v)
        BY <1>6, <3>1 DEF CacheInv, CarriedInv
      <3>3. /\ ping # <<>> => Said(ping[1], app, f) = {}
            /\ settings # <<>> => Said(settings[1], app, f) = {}
        BY <1>3, <1>5 DEF Said
      <3> HIDE DEF v, value
      <3>4. WillHold(toDev \o ping, apps, selected_app, value, app, f, v)
        BY <1>5, <1>6, <3>2, <3>3, SaysMaybe
      <3>5. WillHold((toDev \o ping) \o settings, apps, selected_app, value, app, f, v)
        BY <1>5, <1>7, <3>3, <3>4, SaysMaybe
      <3>6. WillHold(((toDev \o ping) \o settings) \o list, apps, selected_app, value, app, f, v)
        BY <1>5, <1>7, <3>1, <3>5, SaysMaybe
      <3> QED
        BY <1>1, <3>6 DEF v, value
    <2> QED
      BY <2>1, <2>2
  <1>9. SelectsListed(toDev', apps)
    <2>1. SelectsListed(toDev, apps)
      BY <1>6 DEF CacheInv, SelectsInv
    <2>2. /\ ping # <<>> => ping[1].type # "SetSelectedApp"
          /\ settings # <<>> => settings[1].type # "SetSelectedApp"
          /\ list # <<>> => list[1].type # "SetSelectedApp"
      BY <1>3, <1>5
    <2>3. SelectsListed(toDev \o ping, apps)
      BY <1>5, <1>6, <2>1, <2>2, SelectsMaybe
    <2>4. SelectsListed((toDev \o ping) \o settings, apps)
      BY <1>5, <1>7, <2>2, <2>3, SelectsMaybe
    <2>5. SelectsListed(((toDev \o ping) \o settings) \o list, apps)
      BY <1>5, <1>7, <2>2, <2>4, SelectsMaybe
    <2> QED
      BY <1>1, <2>5
  <1>10. Pending' = toDev' /\ \A f \in Fields : Shown(f)' = Shown(f)
    BY <1>1 DEF Pending, Shown
  <1> QED
    BY <1>1, <1>8, <1>9, <1>10, CacheNext

LEMMA CacheStep ==
    ASSUME SystemInv, NoLossLeft, AckingInv, CacheInv, [SystemNext]_systemVars
    PROVE  CacheInv'
  <1>1. DeviceInv /\ sessions \in HostLists /\ CachesInv /\ WiresInv /\ UncutInv
    BY DEF SystemInv, AckingInv
  <1>2. ~ LoseFrame
    BY LossesStay
  <1>3. ASSUME UNCHANGED <<apps, selected_app, current_volume, current_muted, volumes, mutes,
                           app_infos, pc, plan, toDev>>
        PROVE  CacheInv'
    BY <1>3, CacheKept DEF Pending
  <1>4. CASE Receive
    BY <1>1, <1>4, ReceiveCache
  <1>5. CASE ReceiveGlued
    <2>1. pc \notin Working
      <3>1. toDev # <<>> /\ toDev[1] = Cut
        BY <1>5, <1>1 DEF ReceiveGlued, WiresInv
      <3>2. 1 \in DOMAIN toDev
        BY <1>1, <3>1 DEF WiresInv
      <3> QED
        BY <1>1, <3>1, <3>2 DEF UncutInv, Working
    <2> QED
      BY <1>5, <2>1, CacheKept DEF ReceiveGlued, deviceVars, caches
  <1>6. CASE LoseHost
    BY <1>6, CacheNext DEF LoseHost, companionVars, Working
  <1>7. CASE UserSwipes
    BY <1>1, <1>7, SwipeCache DEF UserSwipes, UserActs
  <1>8. CASE UserTurns \/ UserTaps \/ UserSets \/ SessionStarts \/ SessionEnds \/ MixerChanges
             \/ UNCHANGED systemVars
    <2>1. UNCHANGED <<apps, selected_app, current_volume, current_muted, volumes, mutes,
                      app_infos, pc, plan, toDev>>
      BY <1>8 DEF UserTurns, UserTaps, UserSets, SessionStarts, SessionEnds, MixerChanges,
                  UserActs, MixerActs, Turn, systemVars, companionVars, deviceVars, envVars,
                  caches, wires, shown
    <2> QED
      BY <1>3, <2>1
  <1>9. CASE WorkerStarts
    BY <1>1, <1>9, StartCache DEF WorkerStarts
  <1>10. CASE WorkerExits
    BY <1>10, CacheNext DEF WorkerExits, Exit, Working
  <1>11. CASE WorkerSteps
    <2>1. WorkerNext /\ UNCHANGED <<apps, selected_app, current_volume, current_muted>>
      BY <1>11 DEF WorkerSteps, deviceVars
    <2>2. CASE Drain \/ Read \/ ReadTimeout \/ OnOther \/ NoMoreFrames
      BY <2>1, <2>2, QuietCache
    <2>3. CASE GreetRead \/ GreetTimeout
      BY <1>1, <2>1, <2>3, GreetCache
    <2>4. CASE AckRead \/ AckTimeout
      BY <1>1, <2>1, <2>4, AckCache
    <2>5. CASE OnVolumeDelta \/ OnMuteToggle
      BY <1>1, <2>1, <2>5, SetterCache
    <2>6. CASE OnAppSelected
      BY <1>1, <2>1, <2>6, SelectedCache
    <2>7. ASSUME NEW work \in SUBSET due, LoopTail(work) PROVE CacheInv'
      BY <1>1, <2>1, <2>7, TailCache
    <2> QED
      BY <2>1, <2>2, <2>3, <2>4, <2>5, <2>6, <2>7 DEF WorkerNext
  <1> QED
    BY <1>2, <1>4, <1>5, <1>6, <1>7, <1>8, <1>9, <1>10, <1>11 DEF SystemNext

\* Where the knob's decoder refuses no frame, a knob with nothing in transit shows
\* what the companion has cached for the selected app: no wait that swallows
\* events, no swipe, refresh or restart leaves the two apart (worker.rs, main.rs).
THEOREM CacheSafety == SystemSpec /\ NoLosses => []ShownIsCached
  <1>1. SystemInit => CacheInv
    BY DEF SystemInit, CompanionInit, CacheInv, CarriedInv, SelectsInv, StartedInv, Working
  <1>2. SystemInv /\ NoLossLeft /\ AckingInv /\ CacheInv /\ [SystemNext]_systemVars => CacheInv'
    BY CacheStep
  <1>3. CacheInv => ShownIsCached
    <2> SUFFICES ASSUME CacheInv, Idle, NEW f \in Fields, selected_app \in DOMAIN Cache(f)
                 PROVE  Shown(f) = Cache(f)[selected_app]
      BY DEF ShownIsCached, Fields, Shown, Cache
    <2>1. pc \in Working /\ Pending = <<>>
      BY DEF Idle, Working, Pending
    <2>2. WillHold(<<>>, apps, selected_app, Shown(f), selected_app, f, Cache(f)[selected_app])
      BY <2>1 DEF CacheInv, CarriedInv
    <2>3. NoneSaid(<<>>, selected_app, f)
      BY DEF NoneSaid
    <2> QED
      BY <2>2, <2>3 DEF WillHold, Holds
  <1> QED
    BY <1>1, <1>2, <1>3, AckingInvariance, NoLossInvariance, PTL DEF SystemSpec
=============================================================================
