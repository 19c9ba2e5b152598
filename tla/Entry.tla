-------------------------------- MODULE Entry --------------------------------
(***************************************************************************)
(* A config entry from set-up to unload: async_setup_entry and             *)
(* async_unload_entry (__init__.py), the coordinator that turns packets    *)
(* into entity state and probes the devices periodically (coordinator.py), *)
(* and the alarm entity of the panel's section (alarm_control_panel.py).   *)
(*                                                                         *)
(* The panel's section states are a version number that grows with every   *)
(* change.  The authenticated calls are taken by their outcome, as module  *)
(* Sessions has them; the reader thread by what it reads and loses.        *)
(***************************************************************************)
EXTENDS Integers, Sequences

CONSTANTS
  MaxChanges,  \* bound: how often the section states change
  MaxBreaks,   \* bound: how often the link breaks
  MaxProbes    \* bound: periodic probes

ASSUME EntryAssumption ==
  MaxChanges \in Nat /\ MaxBreaks \in Nat /\ MaxProbes \in Nat

Versions == 0..MaxChanges
Nothing == -1     \* no sections yet, no entity, no device infos

VARIABLES
  setup,      \* where the set-up coroutine is
  pin,        \* the configured service PIN
  volume,     \* the panel's FLEXI_CFG volume is found and readable
  link,       \* "up", "broken" (not noticed yet), "closed"
  reader,     \* reader thread: "off", "startup" queries to send, "run"
  wired,      \* client.on_packets is set
  panel,      \* panel: version of its section states
  asked,      \* startup queries the panel has not answered yet
  toRead,     \* packets of the panel not yet read
  posted,     \* packets queued on the event loop
  sections,   \* coordinator.data.sections
  model,      \* coordinator.data.system_info has the model
  ready,      \* _initial_data_ready
  devices,    \* coordinator.panel_config lists devices
  infos,      \* number of the probe that coordinator.data.device_infos is from
  entity,     \* _attr_alarm_state of the section's alarm entity
  listening,  \* the entity is registered with the coordinator
  updateOk,   \* coordinator.last_update_success: the entities are available
  refresh,    \* periodic update: "idle", "probing", "refused" (not connected)
  missed,     \* history: an answer was read too early or came too late for the set-up
  probes, breaks

setupVars == <<setup, pin, volume>>
clientVars == <<link, reader, wired>>
panelVars == <<panel, asked, toRead>>
dataVars == <<sections, model, ready>>
configVars == <<devices, infos>>
entityVars == <<entity, listening>>
refreshVars == <<updateOk, refresh, probes>>
historyVars == <<missed, breaks>>
vars == <<setupVars, clientVars, panelVars, posted, dataVars, configVars,
          entityVars, refreshVars, historyVars>>

Packets == [type : {"SECTIONS"}, version : Versions] \cup [type : {"MODEL"}]

FlagTypes ==
  /\ volume \in BOOLEAN /\ wired \in BOOLEAN /\ asked \in BOOLEAN /\ model \in BOOLEAN
  /\ ready \in BOOLEAN /\ devices \in BOOLEAN /\ listening \in BOOLEAN
  /\ updateOk \in BOOLEAN /\ missed \in BOOLEAN

PlaceTypes ==
  /\ setup \in {"connect", "construct", "wait", "export", "probe", "forward",
                "loaded", "retry", "failed", "unloading", "unloaded"}
  /\ pin \in {"none", "valid", "wrong", "malformed"}
  /\ link \in {"up", "broken", "closed"}
  /\ reader \in {"off", "startup", "run"}
  /\ refresh \in {"idle", "probing", "refused"}

VersionTypes ==
  /\ panel \in Versions
  /\ toRead \in Seq(Packets) /\ posted \in Seq(Packets)
  /\ sections \in Versions \cup {Nothing}
  /\ entity \in Versions \cup {Nothing}

CountTypes ==
  /\ probes \in 0..MaxProbes /\ infos \in 0..MaxProbes /\ breaks \in 0..MaxBreaks

\* The set-up, the reader, the coordinator's data and the entity stay within the
\* values the code gives them; a probe is counted once.
TypeOK == FlagTypes /\ PlaceTypes /\ VersionTypes /\ CountTypes

Init ==
  /\ setup = "connect"
  /\ pin \in {"none", "valid", "wrong", "malformed"}
  /\ volume \in BOOLEAN
  /\ link = "closed" /\ reader = "off" /\ wired = FALSE
  /\ panel = 0 /\ asked = FALSE /\ toRead = <<>> /\ posted = <<>>
  /\ sections = Nothing /\ model = FALSE /\ ready = FALSE
  /\ devices = FALSE /\ infos = 0
  /\ entity = Nothing /\ listening = FALSE
  /\ updateOk = TRUE /\ refresh = "idle"
  /\ probes = 0 /\ breaks = 0 /\ missed = FALSE

-----------------------------------------------------------------------------
(***************************************************************************)
(* async_setup_entry.                                                      *)
(***************************************************************************)
SetupGoes(from, to) == setup = from /\ setup' = to /\ UNCHANGED <<pin, volume>>

\* client.connect: the device is open and the reader thread runs, or
\* ConfigEntryNotReady.
Connect ==
  /\ \/ SetupGoes("connect", "construct") /\ link' = "up" /\ reader' = "startup"
     \/ SetupGoes("connect", "retry") /\ UNCHANGED <<link, reader>>
  /\ UNCHANGED <<wired, panelVars, posted, dataVars, configVars, entityVars,
                 refreshVars, historyVars>>

\* The coordinator is made, wires the callbacks and does its first refresh,
\* which probes nothing because there is no panel config yet.
Construct ==
  /\ SetupGoes("construct", "wait")
  /\ wired' = TRUE
  /\ UNCHANGED <<link, reader, panelVars, posted, dataVars, configVars,
                 entityVars, refreshVars, historyVars>>

\* Nothing the initial wait waits for is still on its way.
NothingComing ==
  ~asked /\ toRead = <<>> /\ posted = <<>> /\ (link = "up" => reader # "startup")

\* Mutant: the wait has no timeout.
WaitForever ==
  /\ SetupGoes("wait", IF pin = "none" THEN "forward" ELSE "export")
  /\ ready
  /\ UNCHANGED <<clientVars, panelVars, posted, dataVars, configVars, entityVars,
                 refreshVars, historyVars>>

\* async_wait_for_initial_data: at most two seconds, then go on regardless.
WaitForInitialData ==
  /\ SetupGoes("wait", IF pin = "none" THEN "forward" ELSE "export")
  /\ missed' = (missed \/ ~(ready \/ NothingComing))
  /\ UNCHANGED <<clientVars, panelVars, posted, dataVars, configVars, entityVars,
                 refreshVars, breaks>>

\* What an authenticated call may raise past its callers in set-up: the
\* ConnectionError of its check, the OSError of a write, the CodeError of a
\* PIN of the wrong length.
Raises == link # "up" \/ pin = "malformed"

\* _export_and_read_config.  Without the volume nothing is sent.  A refused
\* PIN, a timeout or an unreadable volume leaves panel_config at None.
ExportConfig ==
  /\ \/ /\ SetupGoes("export", "forward")
        /\ volume => pin # "malformed"
        /\ devices' = FALSE
     \/ /\ SetupGoes("export", "probe")
        /\ volume /\ pin = "valid" /\ link = "up"
        /\ devices' = TRUE
     \/ /\ SetupGoes("export", "failed")
        /\ volume /\ Raises
        /\ devices' = FALSE
  /\ UNCHANGED <<clientVars, panelVars, posted, dataVars, infos, entityVars,
                 refreshVars, historyVars>>

\* _probe_device_status: the first device infos.
ProbeStatus ==
  /\ \/ SetupGoes("probe", "forward")
     \/ SetupGoes("probe", "failed") /\ Raises
  /\ UNCHANGED <<clientVars, panelVars, posted, dataVars, configVars, entityVars,
                 refreshVars, historyVars>>

\* Forward to the platforms: an alarm entity per section known by now.
ForwardPlatforms ==
  /\ SetupGoes("forward", "loaded")
  /\ entity' = sections /\ listening' = (sections # Nothing)
  /\ UNCHANGED <<clientVars, panelVars, posted, dataVars, configVars,
                 refreshVars, historyVars>>

\* async_unload_entry: the platforms first, then disconnect.
UnloadPlatforms ==
  /\ SetupGoes("loaded", "unloading")
  /\ entity' = Nothing /\ listening' = FALSE
  /\ UNCHANGED <<clientVars, panelVars, posted, dataVars, configVars,
                 refreshVars, historyVars>>

Disconnect ==
  /\ SetupGoes("unloading", "unloaded")
  /\ link' = "closed" /\ reader' = "off"
  /\ toRead' = <<>> /\ asked' = FALSE
  /\ UNCHANGED <<wired, panel, posted, dataVars, configVars, entityVars,
                 refreshVars, historyVars>>

SetupStep ==
  Connect \/ Construct \/ WaitForInitialData \/ ExportConfig \/ ProbeStatus
    \/ ForwardPlatforms

UnloadStep == UnloadPlatforms \/ Disconnect

-----------------------------------------------------------------------------
(***************************************************************************)
(* The reader thread.                                                      *)
(***************************************************************************)
\* _send_startup; on a broken link the writes fail and nobody minds.
SendStartup ==
  /\ reader = "startup" /\ reader' = "run"
  /\ asked' = (asked \/ link = "up")
  /\ UNCHANGED <<setupVars, link, wired, panel, toRead, posted, dataVars,
                 configVars, entityVars, refreshVars, historyVars>>

\* Mutant: the newest packets overtake the ones still queued.
ReadPacketFirst ==
  /\ reader = "run" /\ link = "up" /\ toRead # <<>>
  /\ toRead' = Tail(toRead)
  /\ posted' = IF wired THEN <<Head(toRead)>> \o posted ELSE posted
  /\ UNCHANGED <<setupVars, clientVars, panel, asked, dataVars, configVars,
                 entityVars, refreshVars, historyVars>>

\* A report is decoded and handed to on_packets, if there is one.
ReadPacket ==
  /\ reader = "run" /\ link = "up" /\ toRead # <<>>
  /\ toRead' = Tail(toRead)
  /\ posted' = IF wired THEN Append(posted, Head(toRead)) ELSE posted
  /\ missed' = (missed \/ ~wired)
  /\ UNCHANGED <<setupVars, clientVars, panel, asked, dataVars, configVars,
                 entityVars, refreshVars, breaks>>

NoticeBreak ==
  /\ reader = "run" /\ link = "broken"
  /\ link' = "closed"
  /\ UNCHANGED <<setupVars, reader, wired, panelVars, posted, dataVars,
                 configVars, entityVars, refreshVars, historyVars>>

\* Mutant: no startup queries after a reconnect.
ReconnectSilently ==
  /\ reader = "run" /\ link = "closed"
  /\ link' = "up"
  /\ UNCHANGED <<setupVars, reader, wired, panelVars, posted, dataVars,
                 configVars, entityVars, refreshVars, historyVars>>

\* _reconnect succeeds and sends the startup queries again.
Reconnect ==
  /\ reader = "run" /\ link = "closed"
  /\ link' = "up" /\ reader' = "startup"
  /\ UNCHANGED <<setupVars, wired, panelVars, posted, dataVars, configVars,
                 entityVars, refreshVars, historyVars>>

ReaderStep == SendStartup \/ ReadPacket \/ NoticeBreak \/ Reconnect

-----------------------------------------------------------------------------
(***************************************************************************)
(* The coordinator on the event loop.                                      *)
(***************************************************************************)
\* async_update_listeners: a listening entity takes the current sections.
NotifyListeners(current) == entity' = IF listening THEN current ELSE entity

\* Mutant: the listeners are not told of a change.
StoreSections ==
  /\ posted # <<>> /\ Head(posted).type = "SECTIONS"
  /\ posted' = Tail(posted)
  /\ sections' = Head(posted).version
  /\ ready' = (ready \/ model)
  /\ UNCHANGED <<setupVars, clientVars, panelVars, model, configVars, entityVars,
                 refreshVars, historyVars>>

\* _process_packets for a SECTIONS packet: listeners hear of a change only.
ProcessSections ==
  /\ posted # <<>> /\ Head(posted).type = "SECTIONS"
  /\ posted' = Tail(posted)
  /\ sections' = Head(posted).version
  /\ IF sections' # sections THEN NotifyListeners(sections') ELSE UNCHANGED entity
  /\ ready' = (ready \/ model)
  /\ UNCHANGED <<setupVars, clientVars, panelVars, model, configVars, listening,
                 refreshVars, historyVars>>

\* Mutant: the model alone makes the initial data complete.
ProcessModelAlone ==
  /\ posted # <<>> /\ Head(posted).type = "MODEL"
  /\ posted' = Tail(posted)
  /\ model' = TRUE /\ ready' = TRUE
  /\ UNCHANGED <<setupVars, clientVars, panelVars, sections, configVars,
                 entityVars, refreshVars, historyVars>>

\* _process_packets for a SYS_INFO packet with the model.
ProcessModel ==
  /\ posted # <<>> /\ Head(posted).type = "MODEL"
  /\ posted' = Tail(posted)
  /\ model' = TRUE
  /\ ready' = (ready \/ sections # Nothing)
  /\ UNCHANGED <<setupVars, clientVars, panelVars, sections, configVars,
                 entityVars, refreshVars, historyVars>>

\* _async_update_data, every probe interval.  probe_all_devices refuses at
\* once when the client is not connected.
BeginRefresh ==
  /\ setup = "loaded" /\ devices
  /\ refresh = "idle" /\ probes < MaxProbes
  /\ probes' = probes + 1
  /\ refresh' = IF link = "closed" THEN "refused" ELSE "probing"
  /\ UNCHANGED <<setupVars, clientVars, panelVars, posted, dataVars, configVars,
                 entityVars, updateOk, historyVars>>

\* Mutant: the probe is counted twice.
FinishRefreshTwice ==
  /\ refresh = "probing" /\ refresh' = "idle"
  /\ infos' = probes + 1
  /\ updateOk' = TRUE
  /\ NotifyListeners(sections)
  /\ UNCHANGED <<setupVars, clientVars, panelVars, posted, dataVars, devices,
                 listening, probes, historyVars>>

\* The probe is back: new infos, or none after a caught failure.  self.data
\* is the object the packets were written to all the while.
FinishRefresh ==
  /\ refresh = "probing" /\ refresh' = "idle"
  /\ infos' \in {infos, probes}
  /\ updateOk' = TRUE
  /\ NotifyListeners(sections)
  /\ UNCHANGED <<setupVars, clientVars, panelVars, posted, dataVars, devices,
                 listening, probes, historyVars>>

\* JablotronConnectionError is not among the caught ones: the update fails.
FailRefresh ==
  /\ refresh = "refused" /\ refresh' = "idle"
  /\ updateOk' = FALSE
  /\ NotifyListeners(sections)
  /\ UNCHANGED <<setupVars, clientVars, panelVars, posted, dataVars, configVars,
                 listening, probes, historyVars>>

LoopStep == ProcessSections \/ ProcessModel \/ FinishRefresh \/ FailRefresh

-----------------------------------------------------------------------------
(***************************************************************************)
(* The panel and the link (external).                                      *)
(***************************************************************************)
AnswerStartup ==
  /\ asked /\ asked' = FALSE
  /\ toRead' = toRead \o <<[type |-> "MODEL"], [type |-> "SECTIONS", version |-> panel]>>
  /\ UNCHANGED <<setupVars, clientVars, panel, posted, dataVars, configVars,
                 entityVars, refreshVars, historyVars>>

\* A section changes; the panel pushes it to an open link.
ChangeSections ==
  /\ panel < MaxChanges
  /\ panel' = panel + 1
  /\ toRead' = IF link = "up"
               THEN Append(toRead, [type |-> "SECTIONS", version |-> panel'])
               ELSE toRead
  /\ UNCHANGED <<setupVars, clientVars, asked, posted, dataVars, configVars,
                 entityVars, refreshVars, historyVars>>

BreakLink ==
  /\ link = "up" /\ breaks < MaxBreaks
  /\ link' = "broken" /\ breaks' = breaks + 1
  /\ toRead' = <<>> /\ asked' = FALSE
  /\ UNCHANGED <<setupVars, reader, wired, panel, posted, dataVars, configVars,
                 entityVars, refreshVars, missed>>

-----------------------------------------------------------------------------
\* The set-up has come to an end and nothing is on its way.
Quiescent ==
  /\ setup \in {"loaded", "retry", "failed", "unloaded"}
  /\ NothingComing /\ refresh = "idle"
  /\ UNCHANGED vars

Next ==
  \/ SetupStep \/ UnloadStep \/ ReaderStep \/ LoopStep \/ BeginRefresh
  \/ AnswerStartup \/ ChangeSections \/ BreakLink
  \/ Quiescent

Spec == Init /\ [][Next]_vars

Fairness ==
  /\ WF_vars(SetupStep) /\ WF_vars(Disconnect) /\ WF_vars(ReaderStep)
  /\ WF_vars(LoopStep) /\ WF_vars(AnswerStartup)

FairSpec == Spec /\ Fairness

-----------------------------------------------------------------------------
(***************************************************************************)
(* Properties.                                                             *)
(***************************************************************************)
\* When nothing is on its way any more, the alarm entity shows the state the
\* panel is in: no push is lost behind a probe, a reconnect or the set-up.
EntityShowsPanel ==
  listening /\ link = "up" /\ NothingComing => entity = panel

\* The entity never falls back to a state older than one it has shown.
EntityNeverRegresses ==
  [][listening /\ listening' => entity' >= entity]_vars

\* The set-up ends, with or without answers of the panel.
SetupEnds == <>(setup \in {"loaded", "retry", "failed", "unloading", "unloaded"})

\* An entity follows the panel: a panel that stays at its last state on a
\* link that stays up is shown by the entity in the end.
EntityCatchesUp ==
  <>[](listening /\ link = "up") => <>[](entity = panel)

\* coordinator.py:165-168, __init__.py:86-88: a set-up with a panel that answers
\* within the wait creates the section's alarm entity, whatever PIN and volume
\* it finds.  Answers read before the coordinator is wired to the client are an
\* exception: they are dropped and not asked for again.
LoadedHasEntity ==
  setup = "loaded" /\ breaks = 0 /\ ~missed => listening

\* __init__.py:136 and :192: exporting the config and probing are non-fatal, so
\* the set-up does not end with an exception of theirs.
SetupIsNotFailed == setup # "failed"

\* README.md:89: state monitoring needs no authentication, so a failed periodic
\* probe does not make the entities unavailable on a link that is up.
PushesKeepEntitiesAvailable ==
  setup = "loaded" /\ link = "up" /\ NothingComing /\ refresh = "idle" => updateOk
=============================================================================
