------------------------------ MODULE PanelData ------------------------------
(***************************************************************************)
(* What the panel is and what Home Assistant shows of it: section states,  *)
(* device activity, system info and device answers, encoded by the panel   *)
(* into real bytes, carried by the wire of module Reports, decoded and     *)
(* stored by the coordinator and the client, shown by the entities; and    *)
(* the commands of the alarm entities on the way back.                     *)
(*                                                                         *)
(* One report is on its way at a time.  Sessions, losses and the order of  *)
(* reports are the business of the modules Sessions, Connection and Entry. *)
(***************************************************************************)
EXTENDS Reports, Payloads

CONSTANTS
  MaxChanges,       \* bound: changes of the panel's state and commands
  Sections,         \* the sections in use, the other slots are OFF
  Devices,          \* bound: the devices that become active
  AnsweringDevices  \* bound: the devices that answer a query

-----------------------------------------------------------------------------
(***************************************************************************)
(* The panel (external), as far as the captures quoted in the code and its *)
(* tests tell: 16 slots of sections and a trailer, a bitmap of devices,    *)
(* answers of wireless and wired devices, of bus devices and sirens.       *)
(***************************************************************************)
Slots == 1..16

Off == [mode |-> "OFF", flags |-> {}]
InMode(mode) == [mode |-> mode, flags |-> {}]

SectionStates ==
  {Off} \cup {InMode(mode) : mode \in {"DISARMED", "ARMED_PARTIAL", "ARMED_FULL", "SERVICE"}}
    \cup {[mode |-> "ARMED_FULL", flags |-> fs] :
            fs \in {{"arming"}, {"pending"}, {"triggered"}, {"pending", "triggered"}}}

ModeNumber ==
  [OFF |-> 7, DISARMED |-> 1, ARMED_PARTIAL |-> 2, ARMED_FULL |-> 3, SERVICE |-> 5]

StateByte(state) ==
  ModeNumber[state.mode] + (IF "arming" \in state.flags THEN 128 ELSE 0)
    + (IF "pending" \in state.flags THEN 64 ELSE 0)
    + (IF "triggered" \in state.flags THEN 24 ELSE 0)

\* What a user should see of a section.
Truth(state) ==
  CASE "triggered" \in state.flags -> "triggered"
    [] state.flags = {"pending"} -> "pending"
    [] state.flags = {"arming"} -> "arming"
    [] OTHER -> [DISARMED |-> "disarmed", SERVICE |-> "disarmed",
                 ARMED_PARTIAL |-> "armed_home", ARMED_FULL |-> "armed_away"][state.mode]

\* A text ends with a zero; a MAC may contain one.
SystemTexts == [k \in {MODEL, MAC} |-> IF k = MODEL THEN <<74, 65>> ELSE <<0, 27, 7, 0, 0, 9>>]

SysInfoPacket(k) == [type |-> SYS_INFO, data |-> <<k>> \o SystemTexts[k] \o <<0, 0>>]

SectionsPacket(state) ==
  [type |-> SECTIONS,
   data |-> [b \in 1..34 |-> CASE b <= 32 /\ b % 2 = 1 -> StateByte(state[(b + 1) \div 2])
                               [] b = 34 -> 148
                               [] OTHER -> 0]]

\* A byte of something else, then four bytes of bitmap.
ActivityPacket(active) ==
  LET bits(b) == CHOOSE byte \in Byte : \A k \in 0..7 : Bit(byte, k) <=> 8 * b + k \in active
  IN [type |-> DEVICES_STATES, data |-> <<4>> \o [b \in 1..4 |-> bits(b - 1)]]

\* A device that answers a query: what it reports of itself.  Activity is
\* <<hi, lo>>; none has a voltage but the siren; a bus device whose battery
\* byte were the siren's mark is not known.
Activity == Byte \X Byte
Levels == 0..20
Volts == 0..65535

Wireless ==
  [kind : {"wireless"}, flags : Byte, activity : Activity, level : Levels, battery : 0..15]
Wired == [kind : {"wired"}, flags : Byte, activity : Activity]
Bus ==
  [kind : {"bus"}, flags : Byte, activity : Activity, level : Levels, battery : (0..15) \ {10}]
Siren ==
  [kind : {"siren"}, flags : Byte, activity : Activity, level : Levels,
   volts : Volts \X Volts]

PossibleDevices == Wireless \cup Wired \cup Bus \cup Siren

ASSUME PanelDataAssumption ==
  /\ MaxChanges \in Nat
  /\ Sections \subseteq Slots /\ Devices \subseteq 1..31
  /\ AnsweringDevices \subseteq PossibleDevices
  /\ ReportSize >= 61  \* all the panel has to say fits a report

Number == 14

\* The bytes a device answers with.
StatusPacket(d) ==
  LET head == <<STATUS_RESPONSE, Number, d.flags, 4>> \o d.activity \o <<0>> IN
  [type |-> COMMAND,
   data |-> IF d.kind = "wireless" THEN head \o <<252, 128 + d.level, d.battery, 0>>
            ELSE head \o <<242, 0>>]

TwoBytes(n) == <<n % 256, n \div 256>>

DiagnosticPacket(d) ==
  [type |-> DEVICE_INFO,
   data |-> IF d.kind = "bus"
            THEN <<Number, 10, 7, d.battery, 128 + d.level, 131, 24, 0>>
            ELSE <<Number, 10, 10, 10, 128 + d.level, 108, 0>> \o TwoBytes(d.volts[1])
                   \o <<108, 1>> \o TwoBytes(d.volts[2])]

DeviceAnswer(d) ==
  IF d.kind \in {"bus", "siren"} THEN <<StatusPacket(d), DiagnosticPacket(d)>>
  ELSE <<StatusPacket(d)>>

\* The values the device has, and whether it is active.
DeviceTruth(d) ==
  LET has == CASE d.kind = "wired" -> {}
               [] d.kind = "siren" -> {"signal", "voltage", "voltage_current"}
               [] OTHER -> IF d.battery > 10 THEN {"signal"} ELSE {"signal", "battery"}
  IN [f \in has |-> CASE f = "signal" -> 5 * d.level
                      [] f = "battery" -> 10 * d.battery
                      [] f = "voltage" -> d.volts[1]
                      [] f = "voltage_current" -> d.volts[2]]

IsActive(d) ==
  IF d.kind = "wireless" THEN d.activity[1] \notin {0, 255} ELSE d.activity # <<0, 0>>

-----------------------------------------------------------------------------
VARIABLES
  panel,     \* panel: state of each slot
  active,    \* panel: devices that are active
  unsent,    \* panel: what is to be pushed
  device,    \* the device that has been asked about, or NoDevice
  asked,     \* the command on its way to the panel, or NoCommand
  sections,  \* coordinator.data.sections, by number
  activeDevices, systemInfo,  \* coordinator.data
  status, diagnostic,         \* client: the response fields
  alarm,     \* _attr_alarm_state of the alarm entity of a section
  setUp,     \* the platforms are set up
  lastTold,  \* history: what was last said of a slot while it was not OFF
  changes

NoDevice == [kind |-> "none"]
NoCommand == [section |-> 0]

panelVars == <<panel, active, unsent, lastTold, changes>>
dataVars == <<sections, activeDevices, systemInfo, alarm>>
responseVars == <<status, diagnostic>>
vars == <<wireVars, panelVars, device, asked, dataVars, responseVars, setUp>>

AlarmStates ==
  {"disarmed", "armed_home", "armed_away", "arming", "pending", "triggered"}

\* The wire, the panel, and what the integration keeps have their types; a
\* section is listed only under the number of one in use.
TypeOK ==
  /\ WireTypeOK
  /\ panel \in [Slots -> SectionStates] /\ lastTold \in [Slots -> SectionStates]
  /\ active \subseteq Devices
  /\ unsent \subseteq {"sysinfo", "sections", "activity"}
  /\ device = NoDevice \/ device \in AnsweringDevices
  /\ asked = NoCommand \/ asked \in [section : Sections, mode : ArmModes]
  /\ DOMAIN sections \subseteq Sections /\ DOMAIN alarm \subseteq Sections
  /\ \A n \in DOMAIN alarm : alarm[n] \in AlarmStates
  /\ activeDevices \subseteq 1..31
  /\ DOMAIN systemInfo \subseteq SysInfoTypes
  /\ setUp \in BOOLEAN /\ changes \in 0..MaxChanges

\* Reports of unknown origin: a packet of a type nobody handles, and five bytes
\* that take every role at the end of a report.
Noise ==
  {<<80, ReportSize - 7>> \o [k \in 1..(ReportSize - 7) |-> 80] \o tail :
     tail \in [1..5 -> 0..3]}

\* Packets around the size of a report.
Sizes == {<<[type |-> COMMAND, data |-> [k \in 1..a |-> 0]],
            [type |-> COMMAND, data |-> [k \in 1..b |-> 1]]>> : a \in {0, 30}, b \in 28..62}

Init ==
  /\ panel \in {[n \in Slots |-> IF n \in on THEN InMode("DISARMED") ELSE Off] :
                  on \in {Sections, Sections \ {2}}}
  /\ lastTold = [n \in Slots |-> Off]
  /\ active = {} /\ unsent = {"sysinfo", "sections", "activity"} /\ changes = 0
  /\ sections = <<>> /\ activeDevices = {} /\ systemInfo = <<>>
  /\ alarm = <<>> /\ setUp = FALSE /\ asked = NoCommand
  /\ status = Malformed /\ diagnostic = Malformed
  /\ i = 0 /\ packets = <<>>
  /\ \/ pc = "idle" /\ to = "integration" /\ sent = <<>> /\ report = <<>>
        /\ device = NoDevice
     \/ /\ pc = "decode" /\ to = "integration" /\ sent = <<>> /\ report \in Noise
        /\ device = NoDevice
     \/ /\ pc = "encode" /\ to = "panel" /\ sent \in Sizes /\ report = <<>>
        /\ device = NoDevice
     \/ /\ pc = "encode" /\ to = "integration" /\ report = <<>>
        /\ device \in AnsweringDevices /\ sent = DeviceAnswer(device)

-----------------------------------------------------------------------------
(***************************************************************************)
(* The panel's steps (external).                                           *)
(***************************************************************************)
Quiet == pc = "idle" /\ device = NoDevice

Becomes(n, state) ==
  /\ panel' = [panel EXCEPT ![n] = state]
  /\ unsent' = unsent \cup {"sections"}

\* Every change is pushed, so there is one at a time to be told of.
ChangeSection ==
  /\ Quiet /\ "sections" \notin unsent
  /\ changes < MaxChanges /\ changes' = changes + 1
  /\ \E n \in Sections, state \in SectionStates : state # panel[n] /\ Becomes(n, state)
  /\ UNCHANGED <<wireVars, active, lastTold, device, asked, dataVars, responseVars, setUp>>

ChangeDevice ==
  /\ Quiet /\ "activity" \notin unsent
  /\ changes < MaxChanges /\ changes' = changes + 1
  /\ \E d \in Devices : active' = (active \cup {d}) \ (active \cap {d})
  /\ unsent' = unsent \cup {"activity"}
  /\ UNCHANGED <<wireVars, panel, lastTold, device, asked, dataVars, responseVars, setUp>>

\* What the panel says of itself in one report.
Said(what) ==
  LET say(name, ps) == IF name \in what THEN ps ELSE <<>> IN
  say("sysinfo", <<SysInfoPacket(MODEL), SysInfoPacket(MAC)>>)
    \o say("sections", <<SectionsPacket(panel)>>) \o say("activity", <<ActivityPacket(active)>>)

\* One report with some of what is to be said.
Push ==
  /\ Quiet
  /\ \E what \in (SUBSET unsent) \ {{}} :
       /\ Send(Said(what), "integration")
       /\ unsent' = unsent \ what
       /\ lastTold' = [n \in Slots |-> IF "sections" \in what /\ panel[n] # Off
                                      THEN panel[n] ELSE lastTold[n]]
  /\ UNCHANGED <<panel, active, changes, device, asked, dataVars, responseVars, setUp>>

\* The packets of a type among those found.
Of(t) == {k \in DOMAIN packets : packets[k].type = t}

\* A MODIFY_SECTION is obeyed for a section that is not OFF; there are blocks of
\* 16 numbers for disarming and for arming fully and partially, and any other
\* number means nothing.
PanelObeys ==
  /\ pc = "done" /\ to = "panel" /\ Clear
  /\ LET byte == At(packets[Min(Of(UI_CONTROL))].data, 1)
         n == (byte % 16) + 1
         block == (byte \div 16) - 8
     IN IF Of(UI_CONTROL) # {} /\ block \in 1..3 /\ panel[n] # Off
        THEN Becomes(n, InMode(<<"DISARMED", "ARMED_FULL", "ARMED_PARTIAL">>[block]))
        ELSE UNCHANGED <<panel, unsent>>
  /\ asked' = NoCommand
  /\ UNCHANGED <<active, lastTold, changes, device, dataVars, responseVars, setUp>>

-----------------------------------------------------------------------------
(***************************************************************************)
(* The integration.                                                        *)
(***************************************************************************)
\* What Decode makes of the last packet of a type, if there is one.
LastOf(t, Decode(_), otherwise) ==
  IF Of(t) = {} THEN otherwise ELSE Decode(packets[Max(Of(t))].data)

\* The same, passing over packets it can make nothing of.
LastSound(t, Decode(_), otherwise) ==
  LET sound == {k \in Of(t) : Decode(packets[k].data) # Malformed}
  IN IF sound = {} THEN otherwise ELSE Decode(packets[Max(sound)].data)

\* _handle_coordinator_update: a section that is listed no more leaves its
\* entity as it is.
ShownAfter(current) ==
  [n \in DOMAIN alarm |-> IF n \in DOMAIN current THEN AlarmState(current[n]) ELSE alarm[n]]

\* _process_packets, the packets of one report at a time.
ProcessPackets ==
  /\ sections' = LastOf(SECTIONS, DecodeSections, sections)
  /\ activeDevices' = LastOf(DEVICES_STATES, DecodeDevicesStates, activeDevices)
  /\ systemInfo' =
       LET infos == {DecodeSystemInfo(packets[k].data) : k \in Of(SYS_INFO)} \ {Malformed}
           kinds == {info.kind : info \in infos}
       IN [k \in kinds \cup DOMAIN systemInfo |->
             IF k \in kinds THEN (CHOOSE info \in infos : info.kind = k).value
             ELSE systemInfo[k]]
  /\ alarm' = IF sections' # sections \/ activeDevices' # activeDevices
              THEN ShownAfter(sections')
              ELSE alarm

\* _check_command_responses: the two response fields.
CheckResponses ==
  /\ status' = LastSound(COMMAND, DecodeDeviceStatus, status)
  /\ diagnostic' = LastSound(DEVICE_INFO, DecodeDeviceDiagnostic, diagnostic)

\* The reader thread hands a decoded report to both.
Deliver ==
  /\ pc = "done" /\ to = "integration" /\ Clear
  /\ ProcessPackets /\ CheckResponses
  /\ UNCHANGED <<panelVars, device, asked, setUp>>

\* The next query of a device begins with empty response fields.
ForgetResponses ==
  /\ pc = "idle" /\ device # NoDevice
  /\ device' = NoDevice /\ status' = Malformed /\ diagnostic' = Malformed
  /\ UNCHANGED <<wireVars, panelVars, asked, dataVars, setUp>>

\* async_setup_entry of alarm_control_panel.py: an entity per section by now.
CreateEntities ==
  /\ Quiet /\ ~setUp /\ setUp' = TRUE
  /\ alarm' = [n \in DOMAIN sections |-> AlarmState(sections[n])]
  /\ UNCHANGED <<wireVars, panelVars, device, asked, sections, activeDevices,
                 systemInfo, responseVars>>

\* _async_command; modify_section's packets before and after this one carry no
\* section.
Command ==
  /\ Quiet /\ changes < MaxChanges /\ changes' = changes + 1
  /\ \E n \in DOMAIN alarm, mode \in ArmModes :
       /\ asked' = [section |-> n, mode |-> mode]
       /\ Send(<<ModifySection(n, mode)>>, "panel")
  /\ UNCHANGED <<panel, active, unsent, lastTold, device, dataVars, responseVars, setUp>>

\* JablotronBinarySensor.is_on.
IsOn(position) == position \in activeDevices

-----------------------------------------------------------------------------
Settled == Quiet /\ unsent = {}

Rest == Settled /\ UNCHANGED vars

WireMoves ==
  WireStep /\ UNCHANGED <<panelVars, device, asked, dataVars, responseVars, setUp>>

Next ==
  \/ ChangeSection \/ ChangeDevice \/ Push \/ PanelObeys
  \/ WireMoves \/ Deliver \/ ForgetResponses \/ CreateEntities \/ Command
  \/ Rest

Spec == Init /\ [][Next]_vars

-----------------------------------------------------------------------------
\* When the panel has said everything, each entity shows the panel's state: an
\* alarm entity that of its own section, or the last one if the section has
\* been switched off; a binary sensor that of its own device; the device page
\* the panel's own texts.
EntitiesShowThePanel ==
  Settled =>
    /\ \A n \in DOMAIN alarm : alarm[n] = Truth(lastTold[n])
    /\ DOMAIN sections = {n \in Slots : panel[n] # Off}
    /\ \A d \in 0..31 : IsOn(d) <=> d \in active
    /\ systemInfo = SystemTexts

\* An answer is read as the device meant it, with the sensors of the values it
\* has and no others; unless a byte before the marker is 0xfc, the wireless
\* marker, which is then taken for it (protocol.py:879).
AnswersAreTheDevices ==
  device # NoDevice /\ pc = "idle" /\ 252 \notin {device.flags, device.activity[1], device.activity[2]} =>
    LET info == DeviceInfo(status, diagnostic) IN
    /\ info.device_number = Number
    /\ NativeValues(info) = DeviceTruth(device)
    /\ info.active = IsActive(device)

\* A command changes the section of the entity it was given to, into the mode
\* asked for, and no other section: the byte of MODIFY_SECTION holds both.
CommandsReachTheirSection ==
  [][asked # NoCommand /\ asked' = NoCommand =>
       LET mode == [DISARM |-> "DISARMED", ARM_AWAY |-> "ARMED_FULL",
                    ARM_HOME |-> "ARMED_PARTIAL"][asked.mode]
       IN panel' = IF panel[asked.section] = Off THEN panel
                   ELSE [panel EXCEPT ![asked.section] = InMode(mode)]]_vars
=============================================================================
