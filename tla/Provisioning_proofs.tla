------------------------- MODULE Provisioning_proofs -------------------------
(***************************************************************************)
(* Proofs about Provisioning, for every set of settings and credentials,   *)
(* any lengths of the flash record's fields and any number of changes,     *)
(* dialogs, ends of the companion, broken links and losses of power.       *)
(***************************************************************************)
EXTENDS Provisioning, NvsConfig_proofs

USE DEF trayVars, workerVars, knobVars, sharedVars, dialogVars, hostVars, knobSide,
        wires, observed, nvsVars, provisionVars

-----------------------------------------------------------------------------
(* The inductive invariant                                                 *)

Commands ==
    [type : {"SetBacklight"}, pct : Percents] \cup [type : {"SetWifiConfig"}, creds : Credentials]
Statuses == [connected : BOOLEAN, of : Credentials \cup {NoCredentials}]

\* The types, by who writes the variables.
FileTypes ==
    /\ file \in Configs \cup {Truncated}
    /\ live \in Configs
    /\ tray \in [at : {"idle", "mark", "save", "merged", "write"}, copy : Configs]
    /\ shared \in Percents
    /\ dirty \in BOOLEAN

WorkerTypes ==
    /\ worker \in [at : {"off", "connect", "loop", "snapshot", "push", "load", "truncate",
                         "write", "ended"}, copy : Configs]
    /\ via \in {Usb, Wifi}
    /\ linked \in BOOLEAN

DialogTypes ==
    /\ dialog \in [Credentials -> {"closed", "waiting", "ok", "reboot", "failed", "over"}]
    /\ queue \in Seq(Credentials)
    /\ pending \in Credentials \cup {NoCredentials}

WireTypes == toKnob \in Seq(Commands) /\ toHost \in Seq(Statuses)

KnobTypes ==
    /\ saving \in Credentials \cup {NoCredentials}
    /\ saving = NoCredentials => written = -1
    /\ asked \in BOOLEAN
    /\ radio \in Networks \cup {Unused, Failed}
    /\ leased \in BOOLEAN
    /\ kpct \in Percents

Types == FileTypes /\ WorkerTypes /\ DialogTypes /\ WireTypes /\ KnobTypes

\* What the tray shows is what the file has or is about to get.  A setter under
\* way has it all in its copy; while the worker saves, its copy has it.
Matches(config) == config.pct = live.pct /\ config.mode = live.mode

FileInv ==
    Running /\ ~ raced =>
        /\ At(tray, "idle") => Matches(IF WorkerSaves THEN worker.copy ELSE LoadConfig)
        /\ At(tray, "save") => Matches(tray.copy)
        /\ tray.at \in {"merged", "write"} => Matches(tray.copy) /\ ~ WorkerSaves

\* The worker is in its main loop or in a handler of it.
InLoop == worker.at \notin {"off", "connect", "ended"}

\* A change is announced or about to be.
Pending == dirty \/ At(tray, "mark")

\* The last settings on the way, or else the knob's own, are the menu's.
IsLatest(i) == \A j \in DOMAIN toKnob : j > i => toKnob[j].type # "SetBacklight"

Arriving ==
    \/ kpct = shared /\ IsLatest(0)
    \/ \E i \in DOMAIN toKnob :
          toKnob[i].type = "SetBacklight" /\ toKnob[i].pct = shared /\ IsLatest(i)

\* Where the present settings are, on their way from the menu to the knob.  After
\* a new link or a restart the knob has them only once the worker has pushed.
PushInv ==
    /\ InLoop /\ ~ linked => stale
    /\ At(worker, "connect") /\ ~ stale => dirty
    /\ At(worker, "push") /\ ~ Pending => worker.copy.pct = shared
    /\ InLoop /\ worker.at \notin {"snapshot", "push"} /\ linked /\ ~ stale /\ ~ Pending
          => Arriving

\* Credentials are sent at most once, so the command of the dialog that is
\* pending is the last one, and its answer comes when the knob has no other.
IsCommand(i) == toKnob[i].type = "SetWifiConfig"
NoneAfter(i) == \A j \in DOMAIN toKnob : j > i => ~ IsCommand(j)

Commanded(c) == \E i \in DOMAIN toKnob : IsCommand(i) /\ toKnob[i].creds = c
Answered(c) == (asked /\ radio = c) \/ \E i \in DOMAIN toHost : toHost[i].of = c
Known(c) == pending = c \/ saving = c \/ Commanded(c) \/ Answered(c)

OnceInv ==
    /\ \A c \in Credentials :
          dialog[c] = "closed" => ~ Known(c) /\ \A i \in DOMAIN queue : queue[i] # c
    /\ \A i \in DOMAIN queue : ~ Known(queue[i])
    /\ \A i, j \in DOMAIN queue : j # i => queue[j] # queue[i]

LastInv ==
    pending # NoCredentials =>
        /\ \A i \in DOMAIN toKnob :
              IsCommand(i) /\ toKnob[i].creds = pending => NoneAfter(i)
        /\ saving = pending \/ Answered(pending) => NoneAfter(0)
        /\ Answered(pending) => saving = NoCredentials /\ flash = RecordOf(pending)

ProvisionInv ==
    NvsInv /\ Types /\ FileInv /\ PushInv /\ OnceInv /\ LastInv

-----------------------------------------------------------------------------
(* Sequences and messages                                                  *)

\* None is not a dialog's.
LEMMA NotCredentials == NoCredentials \notin Credentials
  BY CredentialsAssumption

\* What is taken from the front of a sequence was in it.
LEMMA TailFrom ==
    ASSUME NEW S, NEW s \in Seq(S), s # <<>>
    PROVE  /\ Tail(s) \in Seq(S) /\ Len(Tail(s)) = Len(s) - 1
           /\ Head(s) = s[1] /\ 1 \in DOMAIN s
           /\ \A i \in DOMAIN Tail(s) : i + 1 \in DOMAIN s /\ Tail(s)[i] = s[i + 1]
  OBVIOUS

\* What is appended is last, and the rest stays where it was.
LEMMA AppendTo ==
    ASSUME NEW S, NEW s \in Seq(S), NEW e \in S
    PROVE  /\ Append(s, e) \in Seq(S) /\ Len(Append(s, e)) = Len(s) + 1
           /\ Append(s, e)[Len(s) + 1] = e
           /\ \A i \in 1 .. Len(s) : Append(s, e)[i] = s[i]
  OBVIOUS

\* What the knob sends arrives last or, without a session, not at all.
LEMMA ToHostAdds ==
    ASSUME toHost \in Seq(Statuses), NEW message \in Statuses, ToHost(message)
    PROVE  /\ toHost' \in Seq(Statuses)
           /\ \A i \in DOMAIN toHost' :
                 (i \in DOMAIN toHost /\ toHost'[i] = toHost[i]) \/ toHost'[i] = message
<1>1. CASE linked
  BY <1>1, AppendTo DEF ToHost
<1>2. CASE ~ linked
  BY <1>2 DEF ToHost
<1> QED BY <1>1, <1>2

\* Whatever is in the file, what is read from it is a configuration.
LEMMA LoadConfigTyped == FileTypes => LoadConfig \in Configs
  BY ConfigAssumption DEF FileTypes, LoadConfig, Configs, Defaults

\* The first part of what was on its way.
LEMMA FirstPart ==
    ASSUME NEW S, NEW s \in Seq(S), NEW k \in 0 .. Len(s)
    PROVE  /\ SubSeq(s, 1, k) \in Seq(S)
           /\ \A i \in DOMAIN SubSeq(s, 1, k) : i \in DOMAIN s /\ SubSeq(s, 1, k)[i] = s[i]
  OBVIOUS

\* What is read from the flash is a record that somebody sent, or is nothing.
LEMMA LoadTyped == NvsInv => Load(flash) \in Networks \cup {NoCredentials}
<1>1. \A c \in Credentials : Reading[c] \in Range(Reading)
  BY DEF Reading, Range
<1> QED BY <1>1, BlankLoads, TornLoads DEF NvsInv, Networks

-----------------------------------------------------------------------------
(* Types                                                                   *)

\* The file, the tray and the shared settings keep their types.
LEMMA FileTypesStep ==
    Types /\ NvsInv /\ [ProvisionNext]_provisionVars => FileTypes'
<1> SUFFICES ASSUME Types, NvsInv, [ProvisionNext]_provisionVars PROVE FileTypes'
  OBVIOUS
<1> USE DEF Types, FileTypes, WorkerTypes, Configs, Spend, At
<1>1. ASSUME NEW pct \in Percents, SetPct(pct) PROVE FileTypes'
  BY <1>1 DEF SetPct
<1>2. CASE Mark
  BY <1>2 DEF Mark
<1>3. ASSUME NEW mode \in Modes, SetMode(mode) PROVE FileTypes'
  BY <1>3, LoadConfigTyped DEF SetMode
<1>4. CASE TrayTruncates
  BY <1>4 DEF TrayTruncates
<1>5. CASE TrayWrites
  BY <1>5 DEF TrayWrites
<1>6. CASE Start
  BY <1>6, LoadConfigTyped DEF Start
<1>7. CASE Swap
  BY <1>7 DEF Swap
<1>8. CASE WorkerTruncates
  BY <1>8 DEF WorkerTruncates
<1>9. CASE WorkerWrites
  BY <1>9 DEF WorkerWrites
<1>10. CASE Exit
  BY <1>10 DEF Exit
<1>11. CASE Connect \/ LinkBreaks \/ LinkLost \/ Snapshot \/ Push \/ TakeCommand
            \/ Expire \/ ReadStatus \/ DropStatus \/ WorkerLoads \/ PowerCycle \/ Lease
            \/ KnobReceives \/ KnobSaves \/ KnobSaved \/ KnobSaveFails
            \/ (\E c \in Credentials : EnterCredentials(c))
            \/ (\E c \in Credentials : GiveUp(c)) \/ UNCHANGED provisionVars
  BY <1>11 DEF EnterCredentials, GiveUp, Connect, LinkBreaks, LinkLost, Snapshot, Push,
       TakeCommand, Expire, ReadStatus, DropStatus, WorkerLoads, PowerCycle, Lease, KnobReceives,
       KnobSaves, KnobSaved, KnobSaveFails
<1> QED BY <1>1, <1>2, <1>3, <1>4, <1>5, <1>6, <1>7, <1>8, <1>9, <1>10, <1>11
     DEF ProvisionNext, Threads, Outside

\* So does the worker,
LEMMA WorkerTypesStep ==
    Types /\ NvsInv /\ [ProvisionNext]_provisionVars => WorkerTypes'
<1> SUFFICES ASSUME Types, NvsInv, [ProvisionNext]_provisionVars PROVE WorkerTypes'
  OBVIOUS
<1> USE DEF Types, FileTypes, WorkerTypes, Configs, Spend, At
<1>1. CASE Start
  BY <1>1, LoadConfigTyped DEF Start
<1>2. CASE Connect
  BY <1>2 DEF Connect
<1>3. CASE LinkLost
  BY <1>3 DEF LinkLost
<1>4. CASE Swap
  BY <1>4 DEF Swap
<1>5. CASE Snapshot
  BY <1>5 DEF Snapshot
<1>6. CASE Push
  BY <1>6 DEF Push
<1>7. CASE ReadStatus
  BY <1>7 DEF ReadStatus
<1>8. CASE WorkerLoads
  BY <1>8, LoadConfigTyped DEF WorkerLoads
<1>9. CASE WorkerTruncates
  BY <1>9 DEF WorkerTruncates
<1>10. CASE WorkerWrites
  BY <1>10 DEF WorkerWrites
<1>11. CASE Exit
  BY <1>11 DEF Exit
<1>12. CASE PowerCycle \/ LinkBreaks
  BY <1>12 DEF PowerCycle, LinkBreaks
<1>13. CASE Mark \/ TrayTruncates \/ TrayWrites \/ TakeCommand \/ Expire \/ DropStatus
            \/ Lease \/ KnobReceives \/ KnobSaves \/ KnobSaved \/ KnobSaveFails
            \/ (\E pct \in Percents : SetPct(pct))
            \/ (\E mode \in Modes : SetMode(mode))
            \/ (\E c \in Credentials : EnterCredentials(c))
            \/ (\E c \in Credentials : GiveUp(c)) \/ UNCHANGED provisionVars
  BY <1>13 DEF SetPct, Mark, SetMode, TrayTruncates, TrayWrites, EnterCredentials,
       GiveUp, TakeCommand, Expire, DropStatus, Lease, KnobReceives, KnobSaves,
       KnobSaved, KnobSaveFails
<1> QED BY <1>1, <1>2, <1>3, <1>4, <1>5, <1>6, <1>7, <1>8, <1>9, <1>10, <1>11, <1>12,
       <1>13
     DEF ProvisionNext, Threads, Outside

\* so do the dialogs and the commands that wait,
LEMMA DialogTypesStep ==
    Types /\ NvsInv /\ [ProvisionNext]_provisionVars => DialogTypes'
<1> SUFFICES ASSUME Types, NvsInv, [ProvisionNext]_provisionVars PROVE DialogTypes'
  OBVIOUS
<1> USE DEF Types, DialogTypes, Spend, At, Tell, Fail
<1>1. ASSUME NEW c \in Credentials, EnterCredentials(c) PROVE DialogTypes'
  <2>1. /\ pending' = pending
        /\ \E s \in {"waiting", "failed"} : dialog' = [dialog EXCEPT ![c] = s]
        /\ queue' \in {queue, Append(queue, c)}
    BY <1>1 DEF EnterCredentials, knobSide, workerVars
  <2> QED BY <2>1
<1>2. ASSUME NEW c \in Credentials, GiveUp(c) PROVE DialogTypes'
  BY <1>2 DEF GiveUp
<1>3. CASE LinkLost
  <2>1. PICK dialogs : dialog' = Fail(dialogs)
    BY <1>3 DEF LinkLost
  <2>2. dialog' \in [Credentials -> {"closed", "waiting", "ok", "reboot", "failed", "over"}]
    BY <2>1 DEF Types, DialogTypes, Fail
  <2>3. queue' \in Seq(Credentials)
    <3>1. queue \in Seq(Credentials)
      BY DEF Types, DialogTypes
    <3>2. queue' = queue \/ queue' = <<>>
      BY <1>3 DEF LinkLost
    <3> QED BY <3>1, <3>2, EmptySeq
  <2>4. pending' = NoCredentials
    BY <1>3 DEF LinkLost
  <2> QED BY <2>2, <2>3, <2>4 DEF DialogTypes
<1>4. CASE TakeCommand
  BY <1>4 DEF TakeCommand
<1>5. CASE Expire
  BY <1>5 DEF Expire
<1>6. CASE ReadStatus
  BY <1>6 DEF ReadStatus
<1>7. CASE WorkerWrites
  BY <1>7 DEF WorkerWrites
<1>8. CASE Exit
  BY <1>8 DEF Exit
<1>9. CASE Mark \/ TrayTruncates \/ TrayWrites \/ Start \/ Connect \/ LinkBreaks \/ Swap
           \/ Snapshot \/ Push \/ DropStatus \/ WorkerLoads \/ WorkerTruncates \/ PowerCycle
           \/ Lease \/ KnobReceives \/ KnobSaves \/ KnobSaved \/ KnobSaveFails
           \/ (\E pct \in Percents : SetPct(pct)) \/ (\E mode \in Modes : SetMode(mode))
           \/ UNCHANGED provisionVars
  BY <1>9 DEF SetPct, Mark, SetMode, TrayTruncates, TrayWrites, Start, Connect,
       LinkBreaks, Swap, Snapshot, Push, DropStatus, WorkerLoads, WorkerTruncates, PowerCycle, Lease,
       KnobReceives, KnobSaves, KnobSaved, KnobSaveFails
<1> QED BY <1>1, <1>2, <1>3, <1>4, <1>5, <1>6, <1>7, <1>8, <1>9
     DEF ProvisionNext, Threads, Outside

\* the messages on their way,
LEMMA WireTypesStep ==
    Types /\ NvsInv /\ [ProvisionNext]_provisionVars => WireTypes'
<1> SUFFICES ASSUME Types, NvsInv, [ProvisionNext]_provisionVars PROVE WireTypes'
  OBVIOUS
<1> USE DEF Types, WireTypes
<1>1. CASE Connect
  BY <1>1 DEF Connect
<1>2. CASE Push
  <2>1. SetBacklight(worker.copy.pct) \in Commands
    BY DEF Types, WorkerTypes, Configs, SetBacklight, Commands
  <2>2. toHost' = toHost /\ (toKnob' = toKnob \/ toKnob' = Append(toKnob, SetBacklight(worker.copy.pct)))
    BY <1>2 DEF Push
  <2> QED BY <2>1, <2>2, AppendTo DEF Types, WireTypes
<1>3. CASE TakeCommand
  BY <1>3 DEF TakeCommand, DialogTypes, SetWifiConfig, Commands
<1>4. CASE ReadStatus
  BY <1>4 DEF ReadStatus
<1>5. CASE DropStatus
  BY <1>5 DEF DropStatus
<1>6. CASE Exit
  BY <1>6 DEF Exit
<1>7. CASE PowerCycle
  BY <1>7 DEF PowerCycle
<1>8. CASE Lease
  <2> DEFINE message == Connected(IF asked THEN radio ELSE NoCredentials)
  <2>1. message \in Statuses
    BY <1>8 DEF Lease, Connected, Statuses
  <2>2. toKnob' = toKnob /\ (toHost' = toHost \/ ToHost(message))
    BY <1>8 DEF Lease
  <2> HIDE DEF message
  <2> QED BY <2>1, <2>2, ToHostAdds DEF Types, WireTypes
<1>9. CASE KnobReceives
  BY <1>9 DEF KnobReceives
<1>10. CASE KnobSaved
  <2>1. Reboot(saving) \in Statuses
    BY <1>10 DEF Types, KnobTypes, KnobSaved, EndSave, Reboot, Statuses
  <2>2. toKnob' = toKnob /\ (toHost' = toHost \/ ToHost(Reboot(saving)))
    BY <1>10 DEF KnobSaved, ApplySaved
  <2> QED BY <2>1, <2>2, ToHostAdds DEF Types, WireTypes
<1>11. CASE LinkBreaks
  BY <1>11, FirstPart DEF LinkBreaks
<1>12. CASE Mark \/ TrayTruncates \/ TrayWrites \/ Start \/ LinkLost \/ Swap \/ Snapshot
            \/ Expire \/ WorkerLoads \/ WorkerTruncates \/ WorkerWrites \/ KnobSaves
            \/ KnobSaveFails \/ (\E pct \in Percents : SetPct(pct))
            \/ (\E mode \in Modes : SetMode(mode))
            \/ (\E c \in Credentials : EnterCredentials(c))
            \/ (\E c \in Credentials : GiveUp(c)) \/ UNCHANGED provisionVars
  BY <1>12 DEF SetPct, Mark, SetMode, TrayTruncates, TrayWrites, EnterCredentials,
       GiveUp, Start, LinkLost, Swap, Snapshot, Expire, WorkerLoads, WorkerTruncates,
       WorkerWrites, KnobSaves, KnobSaveFails
<1> QED BY <1>1, <1>2, <1>3, <1>4, <1>5, <1>6, <1>7, <1>8, <1>9, <1>10, <1>11, <1>12
     DEF ProvisionNext, Threads, Outside

\* and the knob.
LEMMA KnobTypesStep ==
    Types /\ NvsInv /\ [ProvisionNext]_provisionVars => KnobTypes'
<1> SUFFICES ASSUME Types, NvsInv, [ProvisionNext]_provisionVars PROVE KnobTypes'
  OBVIOUS
<1> USE DEF Types, KnobTypes
<1>1. CASE PowerCycle
  BY <1>1, LoadTyped, ConfigAssumption DEF PowerCycle
<1>2. CASE Lease
  BY <1>2 DEF Lease
<1>3. CASE KnobReceives
  BY <1>3 DEF KnobReceives, BeginSave, WireTypes, Commands
<1>4. CASE KnobSaves
  BY <1>4 DEF KnobSaves, Erase, Write
<1>5. CASE KnobSaved
  BY <1>5 DEF KnobSaved, EndSave, ApplySaved, Networks
<1>6. CASE KnobSaveFails
  BY <1>6 DEF KnobSaveFails, StopSave
<1>7. CASE Mark \/ TrayTruncates \/ TrayWrites \/ Start \/ Connect \/ LinkBreaks
           \/ LinkLost \/ Swap \/ Snapshot \/ Push \/ TakeCommand \/ Expire \/ ReadStatus \/ DropStatus
           \/ WorkerLoads \/ WorkerTruncates \/ WorkerWrites \/ Exit
           \/ (\E pct \in Percents : SetPct(pct)) \/ (\E mode \in Modes : SetMode(mode))
           \/ (\E c \in Credentials : EnterCredentials(c))
           \/ (\E c \in Credentials : GiveUp(c)) \/ UNCHANGED provisionVars
  BY <1>7 DEF SetPct, Mark, SetMode, TrayTruncates, TrayWrites, EnterCredentials,
       GiveUp, Start, Connect, LinkBreaks, LinkLost, Swap, Snapshot, Push, TakeCommand,
       Expire, ReadStatus, DropStatus, WorkerLoads, WorkerTruncates, WorkerWrites, Exit
<1> QED BY <1>1, <1>2, <1>3, <1>4, <1>5, <1>6, <1>7
     DEF ProvisionNext, Threads, Outside

-----------------------------------------------------------------------------
(* The flash                                                               *)

\* Every step of the whole is one of the flash or leaves it alone.
LEMMA FlashStep ==
    Types /\ [ProvisionNext]_provisionVars => [NvsNext]_nvsVars
<1> SUFFICES ASSUME Types, [ProvisionNext]_provisionVars PROVE [NvsNext]_nvsVars
  OBVIOUS
<1> USE DEF Types, NvsNext
<1>1. CASE PowerCycle
  BY <1>1 DEF PowerCycle, KnobTypes, StopSave
<1>2. CASE KnobReceives
  <2>1. Head(toKnob) \in Commands /\ toKnob # <<>>
    BY <1>2, TailFrom DEF KnobReceives, WireTypes
  <2> QED BY <1>2, <2>1 DEF KnobReceives, Commands
<1>3. CASE KnobSaves
  BY <1>3 DEF KnobSaves
<1>4. CASE KnobSaved
  BY <1>4 DEF KnobSaved
<1>5. CASE KnobSaveFails
  BY <1>5 DEF KnobSaveFails
<1>6. CASE Mark \/ TrayTruncates \/ TrayWrites \/ Start \/ Connect \/ LinkBreaks
           \/ LinkLost \/ Swap \/ Snapshot \/ Push \/ TakeCommand \/ Expire \/ ReadStatus \/ DropStatus
           \/ WorkerLoads \/ WorkerTruncates \/ WorkerWrites \/ Exit \/ Lease
           \/ (\E pct \in Percents : SetPct(pct)) \/ (\E mode \in Modes : SetMode(mode))
           \/ (\E c \in Credentials : EnterCredentials(c))
           \/ (\E c \in Credentials : GiveUp(c)) \/ UNCHANGED provisionVars
  BY <1>6 DEF SetPct, Mark, SetMode, TrayTruncates, TrayWrites, EnterCredentials,
       GiveUp, Start, Connect, LinkBreaks, LinkLost, Swap, Snapshot, Push, TakeCommand,
       Expire, ReadStatus, DropStatus, WorkerLoads, WorkerTruncates, WorkerWrites, Exit,
       Lease
<1> QED BY <1>1, <1>2, <1>3, <1>4, <1>5, <1>6
     DEF ProvisionNext, Threads, Outside

-----------------------------------------------------------------------------
(* The settings, in the file and on their way to the knob                  *)

\* Two threads that do not overlap keep what the tray shows.
LEMMA FileStep ==
    Types /\ FileInv /\ [ProvisionNext]_provisionVars => FileInv'
<1> SUFFICES ASSUME Types, FileInv, [ProvisionNext]_provisionVars PROVE FileInv'
  OBVIOUS
<1> USE DEF FileInv, Matches, WorkerSaves, Running, At, Spend
<1>1. ASSUME NEW pct \in Percents, SetPct(pct) PROVE FileInv'
  BY <1>1 DEF SetPct, Types, FileTypes, Configs, LoadConfig
<1>2. CASE Mark
  BY <1>2 DEF Mark, LoadConfig
<1>3. ASSUME NEW mode \in Modes, SetMode(mode) PROVE FileInv'
  BY <1>3, LoadConfigTyped DEF SetMode, Types, FileTypes, Configs
<1>4. CASE TrayTruncates
  BY <1>4 DEF TrayTruncates, Types, FileTypes
<1>5. CASE TrayWrites
  BY <1>5, FileAssumption DEF TrayWrites, Types, FileTypes, Configs, LoadConfig
<1>6. CASE Start
  BY <1>6 DEF Start, LoadConfig
<1>7. CASE Snapshot
  BY <1>7 DEF Snapshot, Types, WorkerTypes, LoadConfig
<1>8. CASE ReadStatus
  BY <1>8 DEF ReadStatus, Types, WorkerTypes, LoadConfig
<1>9. CASE WorkerLoads
  BY <1>9, LoadConfigTyped DEF WorkerLoads, Types, WorkerTypes, Configs
<1>10. CASE WorkerTruncates
  BY <1>10 DEF WorkerTruncates, Types, WorkerTypes
<1>11. CASE WorkerWrites
  BY <1>11, FileAssumption DEF WorkerWrites, Types, WorkerTypes, LoadConfig
<1>12. CASE Exit
  BY <1>12 DEF Exit, Types, WorkerTypes, FileTypes
<1>13. CASE Connect \/ LinkBreaks \/ LinkLost \/ Swap \/ Push \/ TakeCommand \/ Expire \/ DropStatus
            \/ PowerCycle \/ Lease \/ KnobReceives \/ KnobSaves \/ KnobSaved
            \/ KnobSaveFails \/ (\E c \in Credentials : EnterCredentials(c))
            \/ (\E c \in Credentials : GiveUp(c)) \/ UNCHANGED provisionVars
  BY <1>13 DEF EnterCredentials, GiveUp, Connect, LinkBreaks, LinkLost, Swap, Push,
       TakeCommand, Expire, DropStatus, PowerCycle, Lease, KnobReceives, KnobSaves, KnobSaved,
       KnobSaveFails, Types, WorkerTypes, LoadConfig
<1> QED BY <1>1, <1>2, <1>3, <1>4, <1>5, <1>6, <1>7, <1>8, <1>9, <1>10, <1>11, <1>12,
       <1>13
     DEF ProvisionNext, Threads, Outside

\* The flag is raised after the change and lowered before the settings are read,
\* so a change is announced or on its way.
LEMMA PushStep ==
    Types /\ PushInv /\ [ProvisionNext]_provisionVars => PushInv'
<1> SUFFICES ASSUME Types, PushInv, [ProvisionNext]_provisionVars PROVE PushInv'
  OBVIOUS
<1> USE DEF Types, FileTypes, WorkerTypes, PushInv, Pending, InLoop, Running, At
<1>1. ASSUME NEW pct \in Percents, SetPct(pct) PROVE PushInv'
  BY <1>1 DEF SetPct, Arriving, IsLatest
<1>2. CASE Mark
  BY <1>2 DEF Mark, Arriving, IsLatest
<1>3. ASSUME NEW mode \in Modes, SetMode(mode) PROVE PushInv'
  BY <1>3 DEF SetMode, Arriving, IsLatest
<1>4. CASE TrayTruncates
  BY <1>4 DEF TrayTruncates, Arriving, IsLatest
<1>5. CASE TrayWrites
  BY <1>5 DEF TrayWrites, Arriving, IsLatest
<1>6. CASE Start
  BY <1>6 DEF Start
<1>7. CASE Connect
  BY <1>7 DEF Connect, Arriving, IsLatest
<1>8. CASE LinkLost
  BY <1>8 DEF LinkLost, Arriving, IsLatest
<1>9. CASE Swap
  BY <1>9 DEF Swap, Arriving, IsLatest
<1>10. CASE Snapshot
  BY <1>10 DEF Snapshot, Configs
<1>11. CASE Push
  <2> DEFINE message == SetBacklight(worker.copy.pct)
  <2>1. message \in Commands /\ message.type = "SetBacklight" /\ message.pct = worker.copy.pct
    BY DEF SetBacklight, Commands, Types, WorkerTypes, Configs
  <2>2. linked /\ worker.copy.pct = shared => Arriving'
    <3> SUFFICES ASSUME linked, worker.copy.pct = shared PROVE Arriving'
      OBVIOUS
    <3>1. toKnob' = Append(toKnob, message) /\ shared' = shared
      BY <1>11 DEF Push
    <3> HIDE DEF message
    <3>2. Len(toKnob) + 1 \in DOMAIN toKnob' /\ toKnob'[Len(toKnob) + 1] = message
          /\ \A j \in DOMAIN toKnob' : j <= Len(toKnob) + 1
      BY <2>1, <3>1, AppendTo DEF Types, WireTypes
    <3> QED BY <2>1, <3>1, <3>2 DEF Arriving, IsLatest
  <2> HIDE DEF message
  <2> QED BY <1>11, <2>2 DEF Push, PushInv, InLoop, Pending, At
<1>12. CASE TakeCommand
  <2>1. Arriving => Arriving'
    <3>1. SetWifiConfig(Head(queue)) \in Commands /\ SetWifiConfig(Head(queue)).type = "SetWifiConfig"
      BY <1>12 DEF TakeCommand, Types, DialogTypes, SetWifiConfig, Commands
    <3>2. CASE toKnob' = toKnob
      BY <1>12, <3>2 DEF TakeCommand, Arriving, IsLatest
    <3>3. CASE toKnob' = Append(toKnob, SetWifiConfig(Head(queue)))
      <4>1. \A j \in DOMAIN toKnob' : (j \in DOMAIN toKnob /\ toKnob'[j] = toKnob[j])
                                     \/ toKnob'[j].type = "SetWifiConfig"
        BY <3>1, <3>3, AppendTo DEF Types, WireTypes
      <4>2. \A j \in DOMAIN toKnob : j \in DOMAIN toKnob' /\ toKnob'[j] = toKnob[j]
        BY <3>1, <3>3, AppendTo DEF Types, WireTypes
      <4>3. UNCHANGED <<kpct, shared>>
        BY <1>12 DEF TakeCommand
      <4> QED BY <4>1, <4>2, <4>3 DEF Arriving, IsLatest
    <3> QED BY <1>12, <3>2, <3>3 DEF TakeCommand
  <2> QED BY <1>12, <2>1 DEF TakeCommand, PushInv, InLoop, Pending, At
<1>13. CASE ReadStatus
  BY <1>13 DEF ReadStatus, Arriving, IsLatest
<1>14. CASE WorkerLoads
  BY <1>14 DEF WorkerLoads, Arriving, IsLatest
<1>15. CASE WorkerTruncates
  BY <1>15 DEF WorkerTruncates, Arriving, IsLatest
<1>16. CASE WorkerWrites
  BY <1>16 DEF WorkerWrites, Arriving, IsLatest
<1>17. CASE Exit
  BY <1>17 DEF Exit
<1>18. CASE PowerCycle \/ LinkBreaks
  BY <1>18 DEF PowerCycle, LinkBreaks
<1>19. CASE KnobReceives
  <2>1. Arriving => Arriving'
    <3> SUFFICES ASSUME Arriving PROVE Arriving'
      OBVIOUS
    <3>1. /\ toKnob # <<>> /\ toKnob' = Tail(toKnob) /\ shared' = shared
          /\ Head(toKnob).type = "SetBacklight" => kpct' = Head(toKnob).pct
          /\ Head(toKnob).type # "SetBacklight" => kpct' = kpct
      BY <1>19 DEF KnobReceives
    <3>2. /\ Head(toKnob) = toKnob[1] /\ 1 \in DOMAIN toKnob
          /\ \A j \in DOMAIN toKnob' : j + 1 \in DOMAIN toKnob /\ toKnob'[j] = toKnob[j + 1]
          /\ \A j \in DOMAIN toKnob : j = 1 \/ (j - 1 \in DOMAIN toKnob' /\ toKnob'[j - 1] = toKnob[j])
          /\ DOMAIN toKnob \subseteq Nat \ {0} /\ DOMAIN toKnob' \subseteq Nat \ {0}
      BY <3>1, TailFrom DEF Types, WireTypes
    <3>3. CASE kpct = shared /\ IsLatest(0)
      BY <3>1, <3>2, <3>3 DEF Arriving, IsLatest
    <3>4. ASSUME NEW i \in DOMAIN toKnob, toKnob[i].type = "SetBacklight", toKnob[i].pct = shared,
                 IsLatest(i)
          PROVE  Arriving'
      <4>1. CASE i = 1
        BY <3>1, <3>2, <3>4, <4>1 DEF Arriving, IsLatest
      <4>2. CASE i # 1
        <5>1. i - 1 \in DOMAIN toKnob' /\ toKnob'[i - 1] = toKnob[i]
          BY <3>2, <4>2
        <5>2. \A j \in DOMAIN toKnob' : j > i - 1 => toKnob'[j].type # "SetBacklight"
          BY <3>2, <3>4 DEF IsLatest
        <5> QED BY <3>1, <3>4, <5>1, <5>2 DEF Arriving, IsLatest
      <4> QED BY <4>1, <4>2
    <3> QED BY <3>3, <3>4 DEF Arriving
  <2> QED BY <1>19, <2>1 DEF KnobReceives, PushInv, InLoop, Pending, At
<1>20. CASE Expire \/ DropStatus \/ Lease \/ KnobSaves \/ KnobSaved \/ KnobSaveFails
            \/ (\E c \in Credentials : EnterCredentials(c))
            \/ (\E c \in Credentials : GiveUp(c)) \/ UNCHANGED provisionVars
  BY <1>20 DEF EnterCredentials, GiveUp, Expire, DropStatus, Lease, KnobSaves,
       KnobSaved, KnobSaveFails, Arriving, IsLatest
<1> QED BY <1>1, <1>2, <1>3, <1>4, <1>5, <1>6, <1>7, <1>8, <1>9, <1>10, <1>11, <1>12,
       <1>13, <1>14, <1>15, <1>16, <1>17, <1>18, <1>19, <1>20
     DEF ProvisionNext, Threads, Outside

-----------------------------------------------------------------------------
(* Commands and their answers                                              *)

\* Nothing new is known, no dialog is closed again.
LEMMA OnceKept ==
    ASSUME Types, OnceInv, queue' = queue \/ queue' = <<>>,
           \A c \in Credentials : Known(c)' => Known(c),
           \A c \in Credentials : dialog'[c] = "closed" => dialog[c] = "closed"
    PROVE  OnceInv'
<1>1. \A i \in DOMAIN queue : queue[i] \in Credentials
  BY DEF Types, DialogTypes
<1>2. \A i \in DOMAIN queue' : i \in DOMAIN queue /\ queue'[i] = queue[i]
  OBVIOUS
<1> QED BY <1>1, <1>2 DEF OnceInv

\* Credentials are on their way at most once.
LEMMA OnceStep ==
    Types /\ OnceInv /\ [ProvisionNext]_provisionVars => OnceInv'
<1> SUFFICES ASSUME Types, OnceInv, [ProvisionNext]_provisionVars PROVE OnceInv'
  OBVIOUS
<1>1. ASSUME NEW c \in Credentials, EnterCredentials(c) PROVE OnceInv'
  <2>1. \A d : Known(d)' <=> Known(d)
    BY <1>1 DEF EnterCredentials, Known, Commanded, IsCommand, Answered
  <2>2. ~ Known(c) /\ \A i \in DOMAIN queue : queue[i] # c
    BY <1>1 DEF EnterCredentials, OnceInv
  <2>3. \A d \in Credentials : dialog'[d] = "closed" => d # c /\ dialog[d] = "closed"
    BY <1>1 DEF EnterCredentials, Types, DialogTypes
  <2>4. CASE queue' = queue
    BY <2>1, <2>3, <2>4 DEF OnceInv, Types, DialogTypes
  <2>5. CASE queue' = Append(queue, c)
    <3>1. \A i \in DOMAIN queue' : (i \in DOMAIN queue /\ queue'[i] = queue[i])
                                  \/ (i = Len(queue) + 1 /\ queue'[i] = c)
      BY <2>5, AppendTo DEF Types, DialogTypes
    <3> QED BY <2>1, <2>2, <2>3, <3>1 DEF OnceInv, Types, DialogTypes
  <2> QED BY <1>1, <2>4, <2>5 DEF EnterCredentials
<1>2. ASSUME NEW c \in Credentials, GiveUp(c) PROVE OnceInv'
  BY <1>2 DEF GiveUp, Types, FileTypes, WorkerTypes, DialogTypes, WireTypes, KnobTypes,
       OnceInv, Known, Commanded, IsCommand, Answered
<1>3. CASE Start
  BY <1>3 DEF Start, Types, FileTypes, WorkerTypes, DialogTypes, WireTypes, KnobTypes,
       OnceInv, Known, Commanded, IsCommand, Answered
<1>4. CASE Connect
  BY <1>4 DEF Connect, Types, FileTypes, WorkerTypes, DialogTypes, WireTypes,
       KnobTypes, OnceInv, Known, Commanded, IsCommand, Answered
<1>5. CASE LinkLost
  <2>1. \A c \in Credentials : Known(c)' => Known(c)
    BY <1>5, NotCredentials DEF LinkLost, Known, Commanded, IsCommand, Answered
  <2>2. \A c \in Credentials : dialog'[c] = "closed" => dialog[c] = "closed"
    BY <1>5 DEF LinkLost, Types, DialogTypes, Tell, Fail
  <2>3. queue' = queue \/ queue' = <<>>
    BY <1>5 DEF LinkLost
  <2> QED BY <2>1, <2>2, <2>3, OnceKept
<1>6. CASE Push
  BY <1>6 DEF Push, Types, FileTypes, WorkerTypes, DialogTypes, WireTypes, KnobTypes,
       OnceInv, Known, Commanded, IsCommand, Answered, SetBacklight, Commands
<1>7. CASE TakeCommand
  BY <1>7 DEF TakeCommand, Types, FileTypes, WorkerTypes, DialogTypes, WireTypes,
       KnobTypes, OnceInv, Known, Commanded, IsCommand, Answered, Fail, SetWifiConfig,
       Commands
<1>8. CASE Expire
  <2>1. \A c \in Credentials : Known(c)' => Known(c)
    BY <1>8, NotCredentials DEF Expire, Known, Commanded, IsCommand, Answered
  <2>2. \A c \in Credentials : dialog'[c] = "closed" => dialog[c] = "closed"
    BY <1>8 DEF Expire, Types, DialogTypes, Tell, Fail
  <2>3. queue' = queue \/ queue' = <<>>
    BY <1>8 DEF Expire
  <2> QED BY <2>1, <2>2, <2>3, OnceKept
<1>9. CASE ReadStatus
  <2>1. \A c \in Credentials : Known(c)' => Known(c)
    BY <1>9, NotCredentials, TailFrom DEF ReadStatus, Types, WireTypes, KnobTypes,
         Known, Commanded, IsCommand, Answered
  <2>2. \A c \in Credentials : dialog'[c] = "closed" => dialog[c] = "closed"
    BY <1>9 DEF ReadStatus, Types, DialogTypes, Tell, Fail
  <2>3. queue' = queue \/ queue' = <<>>
    BY <1>9 DEF ReadStatus
  <2> QED BY <2>1, <2>2, <2>3, OnceKept
<1>10. CASE DropStatus
  BY <1>10 DEF DropStatus, Types, FileTypes, WorkerTypes, DialogTypes, WireTypes,
       KnobTypes, OnceInv, Known, Commanded, IsCommand, Answered, Statuses
<1>11. CASE WorkerWrites
  <2>1. \A c \in Credentials : Known(c)' => Known(c)
    BY <1>11, NotCredentials DEF WorkerWrites, Known, Commanded, IsCommand, Answered
  <2>2. \A c \in Credentials : dialog'[c] = "closed" => dialog[c] = "closed"
    BY <1>11 DEF WorkerWrites, Types, DialogTypes, Tell, Fail
  <2>3. queue' = queue \/ queue' = <<>>
    BY <1>11 DEF WorkerWrites
  <2> QED BY <2>1, <2>2, <2>3, OnceKept
<1>12. CASE Exit
  <2>1. \A c \in Credentials : Known(c)' => Known(c)
    BY <1>12, NotCredentials DEF Exit, Known, Commanded, IsCommand, Answered
  <2>2. \A c \in Credentials : dialog'[c] = "closed" => dialog[c] = "closed"
    BY <1>12 DEF Exit, Types, DialogTypes, Tell, Fail
  <2>3. queue' = queue \/ queue' = <<>>
    BY <1>12 DEF Exit
  <2> QED BY <2>1, <2>2, <2>3, OnceKept
<1>13. CASE PowerCycle
  <2>1. \A c \in Credentials : Known(c)' => Known(c)
    BY <1>13, NotCredentials DEF PowerCycle, Known, Commanded, IsCommand, Answered
  <2>2. \A c \in Credentials : dialog'[c] = "closed" => dialog[c] = "closed"
    BY <1>13 DEF PowerCycle
  <2>3. queue' = queue \/ queue' = <<>>
    BY <1>13 DEF PowerCycle
  <2> QED BY <2>1, <2>2, <2>3, OnceKept
<1>14. CASE Lease
  <2>1. \A c \in Credentials : Known(c)' => Known(c)
    <3> DEFINE of == IF asked THEN radio ELSE NoCredentials
    <3>1. Connected(of) \in Statuses
      BY <1>14 DEF Lease, Connected, Statuses
    <3>2. \A i \in DOMAIN toHost' :
             (i \in DOMAIN toHost /\ toHost'[i] = toHost[i]) \/ toHost'[i].of = of
      <4>1. CASE ToHost(Connected(of))
        <5>1. Connected(of).of = of
          BY DEF Connected
        <5> HIDE DEF of
        <5> QED BY <3>1, <4>1, <5>1, ToHostAdds DEF Types, WireTypes
      <4>2. CASE toHost' = toHost
        BY <4>2
      <4> QED BY <1>14, <4>1, <4>2 DEF Lease
    <3> QED BY <1>14, <3>2, NotCredentials DEF Lease, Known, Commanded, IsCommand, Answered
  <2>2. \A c \in Credentials : dialog'[c] = "closed" => dialog[c] = "closed"
    BY <1>14 DEF Lease
  <2>3. queue' = queue \/ queue' = <<>>
    BY <1>14 DEF Lease
  <2> QED BY <2>1, <2>2, <2>3, OnceKept
<1>15. CASE KnobReceives
  BY <1>15 DEF KnobReceives, Types, FileTypes, WorkerTypes, DialogTypes, WireTypes,
       KnobTypes, OnceInv, Known, Commanded, IsCommand, Answered, BeginSave, Commands
<1>16. CASE KnobSaves
  BY <1>16 DEF KnobSaves, Types, FileTypes, WorkerTypes, DialogTypes, WireTypes,
       KnobTypes, OnceInv, Known, Commanded, IsCommand, Answered, Erase, Write
<1>17. CASE KnobSaved
  <2>1. \A c \in Credentials : Known(c)' => Known(c)
    <3>1. saving \in Credentials /\ Reboot(saving) \in Statuses /\ Reboot(saving).of = saving
      BY <1>17 DEF KnobSaved, EndSave, Types, KnobTypes, Reboot, Statuses
    <3>2. \A i \in DOMAIN toHost' :
             (i \in DOMAIN toHost /\ toHost'[i] = toHost[i]) \/ toHost'[i].of = saving
      <4>1. CASE ToHost(Reboot(saving))
        BY <3>1, <4>1, ToHostAdds DEF Types, WireTypes
      <4>2. CASE toHost' = toHost
        BY <4>2
      <4> QED BY <1>17, <4>1, <4>2 DEF KnobSaved, ApplySaved
    <3>3. (radio' = radio /\ asked' = asked) \/ radio' \in {saving, Failed}
      BY <1>17 DEF KnobSaved, ApplySaved
    <3> QED BY <1>17, <3>1, <3>2, <3>3, NotCredentials, RadioAssumption
         DEF Networks, KnobSaved, EndSave, Known, Commanded, IsCommand, Answered
  <2>2. \A c \in Credentials : dialog'[c] = "closed" => dialog[c] = "closed"
    BY <1>17 DEF KnobSaved
  <2>3. queue' = queue \/ queue' = <<>>
    BY <1>17 DEF KnobSaved
  <2> QED BY <2>1, <2>2, <2>3, OnceKept
<1>18. CASE KnobSaveFails
  <2>1. \A c \in Credentials : Known(c)' => Known(c)
    BY <1>18, NotCredentials DEF KnobSaveFails, Known, Commanded, IsCommand, Answered,
         StopSave
  <2>2. \A c \in Credentials : dialog'[c] = "closed" => dialog[c] = "closed"
    BY <1>18 DEF KnobSaveFails
  <2>3. queue' = queue \/ queue' = <<>>
    BY <1>18 DEF KnobSaveFails
  <2> QED BY <2>1, <2>2, <2>3, OnceKept
<1>19. CASE Mark \/ TrayTruncates \/ TrayWrites \/ Swap \/ Snapshot \/ WorkerLoads
            \/ WorkerTruncates \/ (\E pct \in Percents : SetPct(pct))
            \/ (\E mode \in Modes : SetMode(mode)) \/ UNCHANGED provisionVars
  BY <1>19 DEF SetPct, Mark, SetMode, TrayTruncates, TrayWrites, Swap, Snapshot,
       WorkerLoads, WorkerTruncates, OnceInv, Known, Commanded, IsCommand, Answered
<1>20. CASE LinkBreaks
  <2>1. \A c \in Credentials : Known(c)' => Known(c)
    BY <1>20, FirstPart DEF LinkBreaks, Types, WireTypes, Known, Commanded, IsCommand, Answered
  <2>2. \A c \in Credentials : dialog'[c] = "closed" => dialog[c] = "closed"
    BY <1>20 DEF LinkBreaks
  <2>3. queue' = queue \/ queue' = <<>>
    BY <1>20 DEF LinkBreaks
  <2> QED BY <2>1, <2>2, <2>3, OnceKept
<1> QED BY <1>1, <1>2, <1>3, <1>4, <1>5, <1>6, <1>7, <1>8, <1>9, <1>10, <1>11, <1>12,
       <1>13, <1>14, <1>15, <1>16, <1>17, <1>18, <1>19, <1>20
     DEF ProvisionNext, Threads, Outside

\* Nothing follows the pending command, so its answer tells of the flash as it is.
LEMMA LastStep ==
    Types /\ NvsInv /\ OnceInv /\ LastInv /\ [ProvisionNext]_provisionVars => LastInv'
<1> SUFFICES ASSUME Types, NvsInv, OnceInv, LastInv, [ProvisionNext]_provisionVars PROVE LastInv'
  OBVIOUS
<1>1. CASE Start
  BY <1>1 DEF Start, Types, WireTypes, KnobTypes, DialogTypes, LastInv, NoneAfter,
       IsCommand, Answered
<1>2. CASE Connect
  BY <1>2 DEF Connect, Types, WireTypes, KnobTypes, DialogTypes, LastInv, NoneAfter,
       IsCommand, Answered
<1>3. CASE LinkLost
  BY <1>3 DEF LinkLost, Types, WireTypes, KnobTypes, DialogTypes, LastInv, NoneAfter,
       IsCommand, Answered
<1>4. CASE Push
  BY <1>4 DEF Push, Types, WireTypes, KnobTypes, DialogTypes, LastInv, NoneAfter,
       IsCommand, Answered, SetBacklight, Commands
<1>5. CASE TakeCommand
  <2> DEFINE c == Head(queue)
  <2>1. queue # <<>> /\ c \in Credentials /\ pending' = c
    BY <1>5 DEF TakeCommand, Types, WireTypes, DialogTypes
  <2>2. ~ Known(c)
    BY <2>1, TailFrom DEF OnceInv, Types, WireTypes, DialogTypes
  <2>3. SetWifiConfig(c) \in Commands
    BY <2>1 DEF SetWifiConfig, Commands
  <2>4. \A i \in DOMAIN toKnob' :
              \/ i \in DOMAIN toKnob /\ toKnob'[i] = toKnob[i]
              \/ \A j \in DOMAIN toKnob' : j <= i
    <3>1. CASE toKnob' = toKnob
      BY <3>1
    <3>2. CASE toKnob' = Append(toKnob, SetWifiConfig(c))
      BY <2>3, <3>2, AppendTo DEF Types, WireTypes, DialogTypes
    <3> QED BY <1>5, <3>1, <3>2 DEF TakeCommand
  <2>5. \A i \in DOMAIN toKnob' : IsCommand(i)' /\ toKnob'[i].creds = c => NoneAfter(i)'
    <3> HIDE DEF c
    <3> SUFFICES ASSUME NEW i \in DOMAIN toKnob', IsCommand(i)', toKnob'[i].creds = c
                 PROVE  NoneAfter(i)'
      OBVIOUS
    <3>1. ~ (i \in DOMAIN toKnob /\ toKnob'[i] = toKnob[i])
      BY <2>2 DEF Known, Commanded, IsCommand
    <3>2. \A j \in DOMAIN toKnob' : j <= i /\ j \in Int /\ i \in Int
      BY <2>3, <2>4, <3>1, <1>5 DEF TakeCommand, Types, WireTypes, DialogTypes
    <3> QED BY <3>2 DEF NoneAfter
  <2>6. saving' # c /\ ~ (asked' /\ radio' = c) /\ \A i \in DOMAIN toHost' : toHost'[i].of # c
    BY <1>5, <2>2 DEF TakeCommand, Known, Answered
  <2> HIDE DEF c
  <2> QED BY <2>1, <2>5, <2>6 DEF LastInv, Answered
<1>6. CASE Expire
  BY <1>6 DEF Expire, Types, WireTypes, KnobTypes, DialogTypes, LastInv, NoneAfter,
       IsCommand, Answered
<1>7. CASE ReadStatus
  BY <1>7 DEF ReadStatus, Types, WireTypes, KnobTypes, DialogTypes, LastInv, NoneAfter,
       IsCommand, Answered, Statuses
<1>8. CASE DropStatus
  BY <1>8 DEF DropStatus, Types, WireTypes, KnobTypes, DialogTypes, LastInv, NoneAfter,
       IsCommand, Answered, Statuses
<1>9. CASE WorkerWrites
  BY <1>9 DEF WorkerWrites, Types, WireTypes, KnobTypes, DialogTypes, LastInv,
       NoneAfter, IsCommand, Answered
<1>10. CASE Exit
  BY <1>10 DEF Exit, Types, WireTypes, KnobTypes, DialogTypes, LastInv, NoneAfter,
       IsCommand, Answered
<1>11. CASE PowerCycle
  BY <1>11 DEF PowerCycle, Types, WireTypes, KnobTypes, DialogTypes, LastInv,
       NoneAfter, IsCommand, Answered
<1>12. CASE Lease
  <2> DEFINE of == IF asked THEN radio ELSE NoCredentials
  <2>1. Connected(of) \in Statuses /\ Connected(of).of = of
    BY <1>12 DEF Lease, Connected, Statuses
  <2>2. \A i \in DOMAIN toHost' :
           (i \in DOMAIN toHost /\ toHost'[i] = toHost[i]) \/ toHost'[i].of = of
    <3>1. CASE ToHost(Connected(of))
      <4> HIDE DEF of
      <4> QED BY <2>1, <3>1, ToHostAdds DEF Types, WireTypes
    <3>2. CASE toHost' = toHost
      BY <3>2
    <3> QED BY <1>12, <3>1, <3>2 DEF Lease
  <2>3. pending # NoCredentials /\ Answered(pending)' => Answered(pending)
    BY <1>12, <2>2 DEF Lease, Answered
  <2> HIDE DEF of
  <2> QED BY <1>12, <2>3 DEF Lease, LastInv, NoneAfter, IsCommand
<1>13. CASE KnobReceives
  BY <1>13 DEF KnobReceives, Types, WireTypes, KnobTypes, DialogTypes, LastInv,
       NoneAfter, IsCommand, Answered, BeginSave, Commands
<1>14. CASE KnobSaves
  BY <1>14 DEF KnobSaves, Types, WireTypes, KnobTypes, DialogTypes, LastInv, NoneAfter,
       IsCommand, Answered, Erase, Write
<1>15. CASE KnobSaved
  <2>1. /\ saving \in Credentials /\ saving' = NoCredentials /\ UNCHANGED <<flash, toKnob, pending>>
        /\ Reboot(saving) \in Statuses /\ Reboot(saving).of = saving
    BY <1>15 DEF KnobSaved, EndSave, Types, KnobTypes, Reboot, Statuses
  <2>2. flash = RecordOf(saving)
    BY <1>15, <2>1, RecordIsTorn, Lengths DEF KnobSaved, EndSave, NvsInv
  <2>3. \A i \in DOMAIN toHost' :
           (i \in DOMAIN toHost /\ toHost'[i] = toHost[i]) \/ toHost'[i].of = saving
    <3>1. CASE ToHost(Reboot(saving))
      BY <2>1, <3>1, ToHostAdds DEF Types, WireTypes
    <3>2. CASE toHost' = toHost
      BY <3>2
    <3> QED BY <1>15, <3>1, <3>2 DEF KnobSaved, ApplySaved
  <2>4. pending # NoCredentials /\ Answered(pending)' => Answered(pending) \/ pending = saving
    BY <1>15, <2>1, <2>3, RadioAssumption DEF Networks, KnobSaved, ApplySaved, Answered, Types,
         KnobTypes, DialogTypes
  <2> QED BY <2>1, <2>2, <2>4, NotCredentials DEF LastInv, NoneAfter, IsCommand, Types, KnobTypes, DialogTypes
<1>16. CASE KnobSaveFails
  BY <1>16 DEF KnobSaveFails, Types, WireTypes, KnobTypes, DialogTypes, LastInv,
       NoneAfter, IsCommand, Answered, StopSave
<1>17. CASE Mark \/ TrayTruncates \/ TrayWrites \/ Swap \/ Snapshot \/ WorkerLoads
            \/ WorkerTruncates \/ (\E pct \in Percents : SetPct(pct))
            \/ (\E mode \in Modes : SetMode(mode))
            \/ (\E c \in Credentials : EnterCredentials(c))
            \/ (\E c \in Credentials : GiveUp(c)) \/ UNCHANGED provisionVars
  BY <1>17 DEF SetPct, Mark, SetMode, TrayTruncates, TrayWrites, EnterCredentials,
       GiveUp, Swap, Snapshot, WorkerLoads, WorkerTruncates, LastInv, NoneAfter,
       IsCommand, Answered
<1>18. CASE LinkBreaks
  <2>1. /\ \A i \in DOMAIN toKnob' : i \in DOMAIN toKnob /\ toKnob'[i] = toKnob[i]
        /\ \A i \in DOMAIN toHost' : i \in DOMAIN toHost /\ toHost'[i] = toHost[i]
        /\ UNCHANGED <<pending, saving, asked, radio, flash>>
    BY <1>18, FirstPart DEF LinkBreaks, Types, WireTypes
  <2> QED BY <2>1 DEF LastInv, NoneAfter, IsCommand, Answered
<1> QED BY <1>1, <1>2, <1>3, <1>4, <1>5, <1>6, <1>7, <1>8, <1>9, <1>10, <1>11, <1>12,
       <1>13, <1>14, <1>15, <1>16, <1>17, <1>18
     DEF ProvisionNext, Threads, Outside

-----------------------------------------------------------------------------
(* The theorems                                                            *)

\* Both beginnings.
LEMMA InitInv == ProvisionInit => ProvisionInv
<1> SUFFICES ASSUME ProvisionInit PROVE ProvisionInv
  OBVIOUS
<1>1. NvsInv
  BY NvsInitInv DEF ProvisionInit
<1>2. DefaultPct \in Percents /\ Wifi \in Modes /\ Defaults \in Configs
  BY ConfigAssumption DEF Configs, Defaults
<1>3. FileTypes /\ WorkerTypes
  BY <1>2 DEF ProvisionInit, FileTypes, WorkerTypes, Configs
<1>4. DialogTypes /\ WireTypes
  BY EmptySeq DEF ProvisionInit, DialogTypes, WireTypes
<1>5. KnobTypes
  BY <1>1, <1>2, LoadTyped DEF ProvisionInit, NvsInit, KnobTypes
<1>6. FileInv /\ PushInv
  BY DEF ProvisionInit, FileInv, PushInv, Running, InLoop, At
<1>7. OnceInv /\ LastInv
  BY NotCredentials
     DEF ProvisionInit, NvsInit, OnceInv, LastInv, Known, Commanded, Answered
<1> QED BY <1>1, <1>3, <1>4, <1>5, <1>6, <1>7 DEF ProvisionInv, Types

\* Every step.
LEMMA NextInv == ProvisionInv /\ [ProvisionNext]_provisionVars => ProvisionInv'
<1> SUFFICES ASSUME ProvisionInv, [ProvisionNext]_provisionVars PROVE ProvisionInv'
  OBVIOUS
<1>1. NvsInv'
  BY FlashStep, NvsNextInv DEF ProvisionInv
<1>2. Types'
  BY FileTypesStep, WorkerTypesStep, DialogTypesStep, WireTypesStep, KnobTypesStep
     DEF ProvisionInv, Types
<1>3. FileInv' /\ PushInv'
  BY FileStep, PushStep DEF ProvisionInv
<1>4. OnceInv' /\ LastInv'
  BY OnceStep, LastStep DEF ProvisionInv
<1> QED BY <1>1, <1>2, <1>3, <1>4 DEF ProvisionInv

\* The invariant of settings, commands and flash together.
THEOREM ProvisionInvariance == ProvisionSpec => []ProvisionInv
  BY InitInv, NextInv, PTL DEF ProvisionSpec

\* Every variable of tray, file, worker, wires and knob keeps its type
\* (tray_app.rs, config.rs, worker.rs run_inner, main.rs SetWifiConfig).
THEOREM ProvisionTyping == ProvisionSpec => []ProvisionTypeOK
<1>1. ProvisionInv => ProvisionTypeOK
  <2> SUFFICES ASSUME ProvisionInv PROVE ProvisionTypeOK
    OBVIOUS
  <2>1. NvsTypeOK
    BY NvsInvTypes DEF ProvisionInv
  <2>2. ToSet(queue) \subseteq Credentials
    BY DEF ProvisionInv, Types, DialogTypes, ToSet
  <2>3. \A i \in DOMAIN toHost : toHost[i].of \in Credentials \cup {NoCredentials}
    <3>1. toHost \in Seq(Statuses)
      BY DEF ProvisionInv, Types, WireTypes
    <3>2. \A i \in DOMAIN toHost : toHost[i] \in Statuses
      BY <3>1
    <3> QED BY <3>2 DEF Statuses
  <2> QED BY <2>1, <2>2, <2>3
          DEF ProvisionInv, Types, FileTypes, WorkerTypes, DialogTypes, KnobTypes, ProvisionTypeOK
<1> QED BY <1>1, ProvisionInvariance, PTL

\* Unless the two threads' accesses to the file overlap, it holds what the menu
\* shows, wherever the companion was ended before (tray_app.rs setters,
\* config.rs save_wifi_ip).
THEOREM SavedSafety == ProvisionSpec => []SettingsAreSaved
<1>1. ProvisionInv => SettingsAreSaved
  BY DEF ProvisionInv, FileInv, SettingsAreSaved, TrayRests, Matches
<1> QED BY <1>1, ProvisionInvariance, PTL

\* At rest the knob has the settings of the menu, for any number of changes at
\* any moment and wherever the link breaks (worker.rs dirty.swap, snapshot, send),
\* once the worker has pushed to this knob over this link: the code does not push
\* again by itself when it connects again, although worker.rs:46 says that it does.
THEOREM PushedSafety == ProvisionSpec => []SettingsOnKnob
<1>1. ProvisionInv => SettingsOnKnob
  BY DEF ProvisionInv, Types, WireTypes, PushInv, SettingsOnKnob, InSession, InLoop,
         TrayRests, Pending, Arriving, IsLatest, At
<1> QED BY <1>1, ProvisionInvariance, PTL

\* A dialog that gets its own command's answer has its record in flash as a whole,
\* whatever else was commanded, lost or cut, and its credentials are what the next
\* boot reads if and, by AsciiReadsBack, only if they are ASCII (worker.rs
\* WifiStatus, main.rs SetWifiConfig, nvs_config.rs load).
THEOREM AnswerSafety == ProvisionSpec => AnswerIsStored
<1> DEFINE Good ==
             \A c \in Credentials :
                /\ ReadStatus
                /\ pending = c
                /\ Head(toHost).of = c
                => /\ flash = RecordOf(c)
                   /\ IsAscii(c) <=> Load(flash) = c
<1>1. ProvisionInv => Good
  <2> SUFFICES ASSUME ProvisionInv, NEW c \in Credentials,
                      ReadStatus, pending = c, Head(toHost).of = c
               PROVE  flash = RecordOf(c) /\ (IsAscii(c) <=> Load(flash) = c)
    OBVIOUS
  <2>1. Answered(c)
    BY TailFrom DEF ReadStatus, ProvisionInv, Types, WireTypes, Answered
  <2>2. flash = RecordOf(c)
    BY <2>1, NotCredentials DEF ProvisionInv, LastInv
  <2> QED BY <2>2, AsciiReadsBack
<1>2. ProvisionInv /\ [ProvisionNext]_provisionVars => [Good]_provisionVars
  BY <1>1
<1> QED BY <1>2, ProvisionInvariance, PTL DEF ProvisionSpec, AnswerIsStored

\* The flash of a knob that is provisioned, restarted and cut off by this host
\* behaves as a store of whole records (main.rs SetWifiConfig, nvs_config.rs).
THEOREM ProvisionRefinement == ProvisionSpec => ImplementsStore
<1>1. ProvisionInit => Store!StoreInit
  BY InitRefines DEF ProvisionInit
<1>2. ProvisionInv /\ [ProvisionNext]_provisionVars => [Store!StoreNext]_Store!storeVars
  BY FlashStep, NextRefines DEF ProvisionInv
<1> QED BY <1>1, <1>2, ProvisionInvariance, PTL DEF ProvisionSpec, ImplementsStore, Store!StoreSpec
=============================================================================
