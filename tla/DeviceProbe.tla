----------------------------- MODULE DeviceProbe -----------------------------
(***************************************************************************)
(* The device loop of JablotronClient.probe_all_devices (client.py), once  *)
(* logged in: _query_single_device and _query_bus_device_diagnostics in    *)
(* the probing thread, _check_command_responses in the reader thread, and  *)
(* the panel's answers between them.                                       *)
(*                                                                         *)
(* The thread waits for "an answer": nothing in the waiting looks at which *)
(* device the answer is from.  A device is a number of the panel; what the *)
(* answers say about it is left out, only whose they are is kept.          *)
(***************************************************************************)
EXTENDS Integers, Sequences, FiniteSets

CONSTANTS
  NumDevices,  \* how many devices the panel config lists
  Bus,         \* those that are wired to the bus and have diagnostics
  MaxBreaks    \* bound: how often the USB link may break

ASSUME ProbeAssumption ==
  NumDevices \in Nat /\ Bus \subseteq 1..NumDevices /\ MaxBreaks \in Nat

Devices == 1..NumDevices
None == 0

VARIABLES
  pc,              \* the step the probing thread is about to take
  at,              \* the device of the loop's current round
  status,          \* what _query_single_device returned: whose status
  diagnostic,      \* what _query_bus_device_diagnostics returned
  results,         \* the list built so far
  statusEvent,     \* _cmd_device_status_event
  statusResponse,  \* _cmd_device_status_response: whose, or None
  diagEvent,       \* _cmd_diagnostic_event
  diagResponse,    \* _cmd_diagnostic_response: whose, or None
  rejected,        \* service_pin_rejected
  reader,          \* the answer the reader thread stored but did not signal yet
  link,            \* "up", "broken" (not noticed yet), "closed"
  toPanel,         \* commands written, not yet handled by the panel
  fromPanel,       \* answers of the panel, not yet read
  session,         \* panel: the authenticated session is open
  diagnosing,      \* panel: devices in diagnostics mode
  answered,        \* history: devices whose status the panel has sent
  hurried,         \* history: a wait expired with an answer still on its way
  breaks           \* link breaks so far

threadVars == <<pc, at, status, diagnostic, results>>
eventVars == <<statusEvent, statusResponse, diagEvent, diagResponse>>
panelVars == <<session, diagnosing, answered>>
historyVars == <<hurried, breaks>>
vars == <<threadVars, eventVars, rejected, reader, link, toPanel, fromPanel,
          panelVars, historyVars>>

Points == {"loop", "clearStatus", "dropStatus", "query", "awaitStatus",
           "takeStatus", "clearDiag", "dropDiag", "start", "force", "awaitDiag",
           "stop", "stopAnyway", "takeDiag", "keep", "logout", "done"}

Answers == [type : {"STATUS", "DIAG"}, of : Devices]
NoAnswer == [type |-> "none", of |-> None]

Commands == [type : {"QUERY", "START", "FORCE", "STOP"}, of : Devices]
              \cup [type : {"END"}, of : {None}]

Infos == [position : Devices, device : Devices, diagnostic : 0..NumDevices]

ThreadTypes ==
  /\ pc \in Points /\ at \in 0..NumDevices
  /\ status \in 0..NumDevices /\ diagnostic \in 0..NumDevices
  /\ results \in Seq(Infos)

EventTypes ==
  /\ statusEvent \in BOOLEAN /\ statusResponse \in 0..NumDevices
  /\ diagEvent \in BOOLEAN /\ diagResponse \in 0..NumDevices
  /\ rejected \in BOOLEAN
  /\ reader \in Answers \cup {NoAnswer}

WireTypes ==
  /\ link \in {"up", "broken", "closed"}
  /\ toPanel \in Seq(Commands) /\ fromPanel \in Seq(Answers)
  /\ breaks \in 0..MaxBreaks

PanelTypes ==
  /\ session \in BOOLEAN /\ diagnosing \subseteq Devices /\ answered \subseteq Devices
  /\ hurried \in BOOLEAN

\* Every variable of the probing thread, the reader and the panel has its type;
\* the loop never leaves the list of devices.
TypeOK == ThreadTypes /\ EventTypes /\ WireTypes /\ PanelTypes

Init ==
  /\ pc = "loop" /\ at = 0
  /\ status = None /\ diagnostic = None /\ results = <<>>
  /\ statusEvent = FALSE /\ statusResponse = None
  /\ diagEvent = FALSE /\ diagResponse = None
  /\ rejected = FALSE
  /\ reader = NoAnswer
  /\ link = "up" /\ toPanel = <<>> /\ fromPanel = <<>>
  /\ session = TRUE /\ diagnosing = {} /\ answered = {}
  /\ hurried = FALSE /\ breaks = 0

-----------------------------------------------------------------------------
(***************************************************************************)
(* Helpers of the probing thread.                                          *)
(***************************************************************************)
Goto(from, to) == pc = from /\ pc' = to

\* _write_report: sent, or an OSError.
Write(type, d) == link = "up" /\ toPanel' = Append(toPanel, [type |-> type, of |-> d])
WriteFails == link # "up" /\ UNCHANGED toPanel

\* A write whose OSError ends the probe, by way of the log-out.
WriteStep(from, type, to) ==
  /\ \/ Goto(from, to) /\ Write(type, at)
     \/ Goto(from, "logout") /\ WriteFails
  /\ UNCHANGED <<at, status, diagnostic, results, eventVars, rejected, reader, link,
                 fromPanel, panelVars, historyVars>>

\* Nothing is under way that could still set an event.
Quiet == toPanel = <<>> /\ fromPanel = <<>> /\ reader = NoAnswer

\* Event.wait(DEVICE_STATUS_TIMEOUT) is over, by the event or without it.
Expires(event) == ~event /\ hurried' = (hurried \/ ~Quiet)
IsSet(event) == event /\ UNCHANGED hurried

-----------------------------------------------------------------------------
(***************************************************************************)
(* The probing thread.                                                     *)
(***************************************************************************)
\* Mutant: the diagnostic of the previous round is kept.
NextDeviceKeepsDiagnostic ==
  /\ Goto("loop", "clearStatus")
  /\ at < NumDevices /\ ~rejected
  /\ at' = at + 1
  /\ UNCHANGED <<status, diagnostic, results, eventVars, rejected, reader, link,
                 toPanel, fromPanel, panelVars, historyVars>>

\* Mutant: one round too many.
NextDevicePastEnd ==
  /\ Goto("loop", "clearStatus")
  /\ at <= NumDevices /\ ~rejected
  /\ at' = at + 1
  /\ diagnostic' = None
  /\ UNCHANGED <<status, results, eventVars, rejected, reader, link, toPanel,
                 fromPanel, panelVars, historyVars>>

NextDevice ==
  /\ Goto("loop", "clearStatus")
  /\ at < NumDevices /\ ~rejected
  /\ at' = at + 1
  /\ diagnostic' = None
  /\ UNCHANGED <<status, results, eventVars, rejected, reader, link, toPanel,
                 fromPanel, panelVars, historyVars>>

LoopEnds ==
  /\ Goto("loop", "logout")
  /\ at = NumDevices \/ rejected
  /\ UNCHANGED <<at, status, diagnostic, results, eventVars, rejected, reader, link,
                 toPanel, fromPanel, panelVars, historyVars>>

\* Mutant: the event of the previous answer stays set.
KeepStatusEvent ==
  /\ Goto("clearStatus", "dropStatus")
  /\ UNCHANGED <<at, status, diagnostic, results, eventVars, rejected, reader, link,
                 toPanel, fromPanel, panelVars, historyVars>>

\* _query_single_device.
ClearStatus ==
  /\ Goto("clearStatus", "dropStatus")
  /\ statusEvent' = FALSE
  /\ UNCHANGED <<at, status, diagnostic, results, statusResponse, diagEvent,
                 diagResponse, rejected, reader, link, toPanel, fromPanel,
                 panelVars, historyVars>>

\* Mutant: the previous response is kept.
KeepStatus ==
  /\ Goto("dropStatus", "query")
  /\ UNCHANGED <<at, status, diagnostic, results, eventVars, rejected, reader, link,
                 toPanel, fromPanel, panelVars, historyVars>>

DropStatus ==
  /\ Goto("dropStatus", "query")
  /\ statusResponse' = None
  /\ UNCHANGED <<at, status, diagnostic, results, statusEvent, diagEvent,
                 diagResponse, rejected, reader, link, toPanel, fromPanel,
                 panelVars, historyVars>>

QueryStatus == WriteStep("query", "QUERY", "awaitStatus")

AfterStatus == IF at \in Bus THEN "clearDiag" ELSE "keep"

\* Mutant: the wait for a status has no timeout.
AwaitStatusForever ==
  /\ statusEvent /\ Goto("awaitStatus", "takeStatus")
  /\ UNCHANGED <<at, status, diagnostic, results, eventVars, rejected, reader, link,
                 toPanel, fromPanel, panelVars, historyVars>>

AwaitStatus ==
  /\ \/ IsSet(statusEvent) /\ Goto("awaitStatus", "takeStatus") /\ UNCHANGED status
     \/ Expires(statusEvent) /\ Goto("awaitStatus", AfterStatus) /\ status' = None
  /\ UNCHANGED <<at, diagnostic, results, eventVars, rejected, reader, link, toPanel,
                 fromPanel, panelVars, breaks>>

TakeStatus ==
  /\ Goto("takeStatus", AfterStatus)
  /\ status' = statusResponse
  /\ UNCHANGED <<at, diagnostic, results, eventVars, rejected, reader, link, toPanel,
                 fromPanel, panelVars, historyVars>>

\* _query_bus_device_diagnostics.
ClearDiag ==
  /\ Goto("clearDiag", "dropDiag")
  /\ diagEvent' = FALSE
  /\ UNCHANGED <<at, status, diagnostic, results, statusEvent, statusResponse,
                 diagResponse, rejected, reader, link, toPanel, fromPanel,
                 panelVars, historyVars>>

DropDiag ==
  /\ Goto("dropDiag", "start")
  /\ diagResponse' = None
  /\ UNCHANGED <<at, status, diagnostic, results, statusEvent, statusResponse,
                 diagEvent, rejected, reader, link, toPanel, fromPanel,
                 panelVars, historyVars>>

StartDiagnostics == WriteStep("start", "START", "force")
ForceInfo == WriteStep("force", "FORCE", "awaitDiag")

AwaitDiagnostic ==
  /\ \/ IsSet(diagEvent) /\ Goto("awaitDiag", "stop")
     \/ Expires(diagEvent) /\ Goto("awaitDiag", "stopAnyway")
  /\ UNCHANGED <<at, status, diagnostic, results, eventVars, rejected, reader, link,
                 toPanel, fromPanel, panelVars, breaks>>

\* The stop after an answer; its OSError is not suppressed.
StopDiagnostics == WriteStep("stop", "STOP", "takeDiag")

\* Mutant: diagnostics are not stopped after a timeout.
SkipStop ==
  /\ Goto("stopAnyway", "keep")
  /\ UNCHANGED <<at, status, diagnostic, results, eventVars, rejected, reader, link,
                 toPanel, fromPanel, panelVars, historyVars>>

\* The stop after a timeout; an OSError is suppressed and the probe goes on.
StopAnyway ==
  /\ Goto("stopAnyway", "keep")
  /\ Write("STOP", at) \/ WriteFails
  /\ UNCHANGED <<at, status, diagnostic, results, eventVars, rejected, reader, link,
                 fromPanel, panelVars, historyVars>>

\* The response is read after the stop was written.
TakeDiagnostic ==
  /\ Goto("takeDiag", "keep")
  /\ diagnostic' = diagResponse
  /\ UNCHANGED <<at, status, results, eventVars, rejected, reader, link, toPanel,
                 fromPanel, panelVars, historyVars>>

\* One DeviceInfo, numbered as the status says, with the diagnostic's values.
KeepResult ==
  /\ Goto("keep", "loop")
  /\ results' = IF status = None THEN results
                ELSE Append(results, [position |-> at, device |-> status,
                                      diagnostic |-> diagnostic])
  /\ UNCHANGED <<at, status, diagnostic, eventVars, rejected, reader, link, toPanel,
                 fromPanel, panelVars, historyVars>>

Logout ==
  /\ Goto("logout", "done")
  /\ Write("END", None) \/ WriteFails
  /\ UNCHANGED <<at, status, diagnostic, results, eventVars, rejected, reader, link,
                 fromPanel, panelVars, historyVars>>

ThreadStep ==
  \/ NextDevice \/ LoopEnds \/ ClearStatus \/ DropStatus \/ QueryStatus
  \/ AwaitStatus \/ TakeStatus
  \/ ClearDiag \/ DropDiag \/ StartDiagnostics \/ ForceInfo \/ AwaitDiagnostic
  \/ StopDiagnostics \/ StopAnyway \/ TakeDiagnostic
  \/ KeepResult \/ Logout

-----------------------------------------------------------------------------
(***************************************************************************)
(* The reader thread: the response is stored, then the event is set.       *)
(***************************************************************************)
StoreResponse ==
  /\ reader = NoAnswer /\ link = "up" /\ fromPanel # <<>>
  /\ reader' = Head(fromPanel) /\ fromPanel' = Tail(fromPanel)
  /\ \/ /\ reader'.type = "STATUS" /\ statusResponse' = reader'.of
        /\ UNCHANGED diagResponse
     \/ /\ reader'.type = "DIAG" /\ diagResponse' = reader'.of
        /\ UNCHANGED statusResponse
  /\ UNCHANGED <<threadVars, statusEvent, diagEvent, rejected, link, toPanel,
                 panelVars, historyVars>>

SignalResponse ==
  /\ reader # NoAnswer /\ reader' = NoAnswer
  /\ statusEvent' = (statusEvent \/ reader.type = "STATUS")
  /\ diagEvent' = (diagEvent \/ reader.type = "DIAG")
  /\ UNCHANGED <<threadVars, statusResponse, diagResponse, rejected, link, toPanel,
                 fromPanel, panelVars, historyVars>>

NoticeBreak ==
  /\ reader = NoAnswer /\ link = "broken" /\ link' = "closed"
  /\ UNCHANGED <<threadVars, eventVars, rejected, reader, toPanel, fromPanel,
                 panelVars, historyVars>>

Reopen ==
  /\ reader = NoAnswer /\ link = "closed" /\ link' = "up"
  /\ UNCHANGED <<threadVars, eventVars, rejected, reader, toPanel, fromPanel,
                 panelVars, historyVars>>

ReaderStep == StoreResponse \/ SignalResponse \/ NoticeBreak \/ Reopen

\* The coordinator, on the loop: a WRONG_CODE it holds against the service PIN.
RejectPin ==
  /\ ~rejected /\ pc # "done" /\ rejected' = TRUE
  /\ UNCHANGED <<threadVars, eventVars, reader, link, toPanel, fromPanel,
                 panelVars, historyVars>>

-----------------------------------------------------------------------------
(***************************************************************************)
(* The panel and the link (external).  A device may stay silent.           *)
(***************************************************************************)
PanelTakes(type) ==
  toPanel # <<>> /\ Head(toPanel).type = type /\ toPanel' = Tail(toPanel)

Answer(type) == fromPanel' = Append(fromPanel, [type |-> type, of |-> Head(toPanel).of])

PanelStatus ==
  /\ PanelTakes("QUERY")
  /\ \/ session /\ Answer("STATUS") /\ answered' = answered \cup {Head(toPanel).of}
     \/ UNCHANGED <<fromPanel, answered>>
  /\ UNCHANGED <<session, diagnosing>>

PanelStart ==
  /\ PanelTakes("START")
  /\ diagnosing' = IF session THEN diagnosing \cup {Head(toPanel).of} ELSE diagnosing
  /\ UNCHANGED <<fromPanel, session, answered>>

PanelForce ==
  /\ PanelTakes("FORCE")
  /\ (Head(toPanel).of \in diagnosing /\ Answer("DIAG")) \/ UNCHANGED fromPanel
  /\ UNCHANGED panelVars

PanelStop ==
  /\ PanelTakes("STOP")
  /\ diagnosing' = diagnosing \ {Head(toPanel).of}
  /\ UNCHANGED <<fromPanel, session, answered>>

PanelEnd ==
  /\ PanelTakes("END") /\ session' = FALSE
  /\ UNCHANGED <<fromPanel, diagnosing, answered>>

PanelStep ==
  /\ PanelStatus \/ PanelStart \/ PanelForce \/ PanelStop \/ PanelEnd
  /\ UNCHANGED <<threadVars, eventVars, rejected, reader, link, historyVars>>

\* What is in flight is lost; the panel may keep the session.
LinkBreak ==
  /\ link = "up" /\ breaks < MaxBreaks
  /\ link' = "broken" /\ breaks' = breaks + 1
  /\ toPanel' = <<>> /\ fromPanel' = <<>>
  /\ session' \in {session, FALSE}
  /\ UNCHANGED <<threadVars, eventVars, rejected, reader, diagnosing, answered, hurried>>

-----------------------------------------------------------------------------
Done == pc = "done" /\ Quiet /\ UNCHANGED vars

Next == ThreadStep \/ ReaderStep \/ RejectPin \/ PanelStep \/ LinkBreak \/ Done

Spec == Init /\ [][Next]_vars

\* The two threads run and the panel handles what it is sent.
Fairness == WF_vars(ThreadStep) /\ WF_vars(ReaderStep) /\ WF_vars(PanelStep)

FairSpec == Spec /\ Fairness

-----------------------------------------------------------------------------
(***************************************************************************)
(* Properties.                                                             *)
(***************************************************************************)
\* client.py:597, unless an answer came too late: the finished probe has an
\* entry for each device that responded, and for no other.
RespondersAreReported ==
  pc = "done" /\ breaks = 0 /\ ~hurried =>
    {results[i].device : i \in DOMAIN results} = answered

\* However late the answers come, a probe's list holds each device once and
\* in order, and no device that has not been queried yet: no response is
\* ever used twice, although all go through one shared field.
LateAnswersOnlyLag ==
  /\ \A i \in DOMAIN results : results[i].device <= results[i].position
  /\ \A i, j \in DOMAIN results : i < j => results[i].device < results[j].device

\* However the probe ends, every device it has put into diagnostics mode is
\* taken out of it again, unless a broken link swallowed the command.
DiagnosticsAreStopped ==
  pc = "done" /\ toPanel = <<>> => Cardinality(diagnosing) <= breaks

\* client.py:590, unless an answer came too late: the signal, battery and
\* voltage of a DeviceInfo are those of the device it is numbered for.
InfoIsOfOneDevice ==
  ~hurried => \A i \in DOMAIN results : results[i].diagnostic \in {None, results[i].device}

\* The probe gets to its end with any device silent and any link break.
ProbeEnds == <>(pc = "done")
=============================================================================
