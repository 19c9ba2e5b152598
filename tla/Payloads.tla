------------------------------ MODULE Payloads ------------------------------
(***************************************************************************)
(* What the bytes of a packet mean (protocol.py): the builders of packets  *)
(* that carry a number, the decoders of what the panel sends, and what the *)
(* platforms make of the result (alarm_control_panel.py, sensor.py).       *)
(*                                                                         *)
(* Data are sequences of bytes; positions are the code's, from 0, and      *)
(* At(data, k) is the byte data[k] of the code.  Everything is pure.       *)
(***************************************************************************)
EXTENDS Integers, Sequences

None == -1

At(data, k) == data[k + 1]
Bit(b, n) == (b \div 2^n) % 2 = 1
Least(a, b) == IF a < b THEN a ELSE b

-----------------------------------------------------------------------------
(***************************************************************************)
(* Packet types, and the packets that carry a number.                      *)
(***************************************************************************)
SYS_INFO == 64          \* 0x40
SECTIONS == 81          \* 0x51
COMMAND == 82           \* 0x52
UI_CONTROL == 128       \* 0x80
DEVICE_INFO == 144      \* 0x90
DEVICES_STATES == 216   \* 0xd8

MODIFY_SECTION == 13    \* UiControl, 0x0d
STATUS_RESPONSE == 168  \* Command.QUERY_DEVICE_STATUS_RESPONSE, 0xa8

MODEL == 2              \* SysInfoType, 0x02
MAC == 12               \* 0x0c
SysInfoTypes == {MODEL, MAC} \cup 8..11

\* ARM_NIGHT is an alias of ARM_HOME: an IntEnum with one value twice.
ArmModes == {"DISARM", "ARM_AWAY", "ARM_HOME"}

ModeBase(mode) == CASE mode = "DISARM" -> 143    \* 0x8f
                    [] mode = "ARM_AWAY" -> 159  \* 0x9f
                    [] mode = "ARM_HOME" -> 175  \* 0xaf

\* Mutant: sections counted from 0.
ModifyFromZero(section, mode) ==
  [type |-> UI_CONTROL, data |-> <<MODIFY_SECTION, ModeBase(mode) + section - 1>>]

\* ui_modify_section.
ModifySection(section, mode) ==
  [type |-> UI_CONTROL, data |-> <<MODIFY_SECTION, ModeBase(mode) + section>>]

-----------------------------------------------------------------------------
(***************************************************************************)
(* Section states and device activity.                                     *)
(***************************************************************************)
PrimaryState(b) ==
  <<"UNSET", "DISARMED", "ARMED_PARTIAL", "ARMED_FULL",
    "MAINTENANCE", "SERVICE", "BLOCKED", "OFF">>[(b % 8) + 1]

\* The first flag of _SECONDARY_FLAGS that is up.
SecondaryState(b) ==
  CASE Bit(b, 4) \/ Bit(b, 3) -> "TRIGGERED"
    [] ~(Bit(b, 4) \/ Bit(b, 3)) /\ Bit(b, 6) -> "PENDING"
    [] ~(Bit(b, 4) \/ Bit(b, 3) \/ Bit(b, 6)) /\ Bit(b, 7) -> "ARMING"
    [] OTHER -> "NORMAL"

\* Mutant: the active sections are numbered one after the other.
DecodeDense(data) ==
  LET active == {k \in 0..(Len(data) \div 2 - 1) :
                   PrimaryState(At(data, 2 * k)) \notin {"UNSET", "OFF"}}
      before(k) == {j \in active : j < k}
      number(k) == 1 + Len(SelectSeq([j \in 1..k |-> j - 1], LAMBDA j : j \in before(k)))
  IN [n \in {number(k) : k \in active} |->
        LET k == CHOOSE j \in active : number(j) = n
        IN [primary |-> PrimaryState(At(data, 2 * k)),
            secondary |-> SecondaryState(At(data, 2 * k)), flags |-> At(data, 2 * k + 1)]]

\* decode_sections, the list as a function of the section numbers in it: slot
\* k holds section k + 1; a trailing pair of bytes counts as a slot as well.
DecodeSections(data) ==
  LET slots == {k \in 0..(Len(data) \div 2 - 1) :
                  PrimaryState(At(data, 2 * k)) \notin {"UNSET", "OFF"}}
  IN [n \in {k + 1 : k \in slots} |->
        [primary |-> PrimaryState(At(data, 2 * n - 2)),
         secondary |-> SecondaryState(At(data, 2 * n - 2)),
         flags |-> At(data, 2 * n - 1)]]

\* _map_alarm_state of an active section.
AlarmState(section) ==
  CASE section.secondary = "TRIGGERED" -> "triggered"
    [] section.secondary = "PENDING" -> "pending"
    [] section.secondary = "ARMING" -> "arming"
    [] OTHER -> CASE section.primary = "ARMED_PARTIAL" -> "armed_home"
                  [] section.primary = "ARMED_FULL" -> "armed_away"
                  [] OTHER -> "disarmed"

\* decode_devices_states: behind a skipped byte, bit n of the bitmap is device
\* n's; bit 0 is not looked at.
DecodeDevicesStates(data) ==
  IF Len(data) < 2 THEN {}
  ELSE {n \in 1..(8 * (Len(data) - 1) - 1) : Bit(At(data, 1 + n \div 8), n % 8)}

\* The code's None for data it cannot decode.
Malformed == [device |-> None]

\* decode_system_info: a MAC is six bytes, any other text ends before its zero.
DecodeSystemInfo(data) ==
  LET text == Tail(data)
      size == CHOOSE n \in 0..Len(text) : /\ n = Len(text) \/ text[n + 1] = 0
                                          /\ \A k \in 1..n : text[k] # 0
  IN IF data = <<>> \/ data[1] \notin SysInfoTypes THEN Malformed
     ELSE [kind |-> data[1],
           value |-> SubSeq(text, 1, IF data[1] = MAC THEN Least(6, Len(text)) ELSE size)]

-----------------------------------------------------------------------------
(***************************************************************************)
(* Device status, a8 <dev> <flags> <b2> <act_hi> <act_lo> ...              *)
(***************************************************************************)
\* bytes.find from position 2 on.
Find(data, marker) ==
  LET places == {k \in 2..(Len(data) - 1) : At(data, k) = marker}
  IN IF places = {} THEN None ELSE CHOOSE k \in places : \A j \in places : k <= j

\* _decode_signal and _decode_battery: percentages.
Signal(b) == Least((b % 32) * 5, 100)
Battery(b) == IF b >= 11 THEN None ELSE Least((b % 16) * 10, 100)

Status(data, signal, battery, active) ==
  [device |-> At(data, 1), signal |-> signal, battery |-> battery, active |-> active]

\* Mutant: the battery byte is taken to come first.
DecodeStatusSwapped(data) ==
  LET fc == Find(data, 252) IN
  IF fc > 0 /\ Len(data) > fc + 2
  THEN Status(data, Signal(At(data, fc + 2)), Battery(At(data, fc + 1)), FALSE)
  ELSE Status(data, None, None, FALSE)

\* decode_device_status: fc marks a wireless device, f2 a wired one; wherever
\* behind the device number they are first met.
DecodeDeviceStatus(data) ==
  LET fc == Find(data, 252)
      wireless == fc > 0 /\ Len(data) > fc + 2
      wired == ~wireless /\ Find(data, 242) > 0
  IN IF Len(data) < 3 \/ At(data, 0) # STATUS_RESPONSE THEN Malformed
     ELSE CASE wireless -> Status(data, Signal(At(data, fc + 1)), Battery(At(data, fc + 2)),
                                  At(data, 4) \notin {0, 255})
            [] wired -> Status(data, None, None,
                               Len(data) > 5 /\ (At(data, 4) # 0 \/ At(data, 5) # 0))
            [] OTHER -> Status(data, None, None, FALSE)

-----------------------------------------------------------------------------
(***************************************************************************)
(* Bus diagnostics, <dev> 0a <len> <flags> <signal> ...                    *)
(***************************************************************************)
NoVoltage == [voltage |-> None, voltage_current |-> None]

\* Mutant: the search goes on one byte behind a marker, not behind its value.
VoltagesByteWise(rest) ==
  LET from[k \in 0..Len(rest)] ==
        IF k >= Len(rest) - 3 THEN NoVoltage
        ELSE LET later == from[k + 1]
                 cv == At(rest, k + 2) + 256 * At(rest, k + 3)
             IN IF At(rest, k) # 108 \/ At(rest, k + 1) \notin {0, 1} THEN later
                ELSE IF At(rest, k + 1) = 0
                     THEN [later EXCEPT !.voltage = IF @ = None THEN cv ELSE @]
                     ELSE [later EXCEPT !.voltage_current = IF @ = None THEN cv ELSE @]
  IN from[0]

\* The value behind the 6c at k, unless there is a later one of its kind.
VoltageAt(rest, k, later) ==
  LET cv == At(rest, k + 2) + 256 * At(rest, k + 3)
      unless(v) == IF v = None THEN cv ELSE v
  IN CASE At(rest, k + 1) = 0 -> [later EXCEPT !.voltage = unless(@)]
       [] At(rest, k + 1) = 1 -> [later EXCEPT !.voltage_current = unless(@)]
       [] OTHER -> later

\* _parse_siren_voltages, in centivolts: a 6c starts a value of four bytes, any
\* other byte is passed over; of several values of a kind the last one counts.
SirenVoltages(rest) ==
  LET from[k \in 0..Len(rest)] ==
        IF k >= Len(rest) - 3 THEN NoVoltage
        ELSE IF At(rest, k) # 108 THEN from[k + 1]
        ELSE VoltageAt(rest, k, from[k + 4])
  IN from[0]

\* decode_device_diagnostic: the flags byte is the siren's mark, a battery
\* level, or neither.
DecodeDeviceDiagnostic(data) ==
  IF Len(data) < 5 \/ At(data, 1) # 10 THEN Malformed
  ELSE LET flags == At(data, 3)
           volts == IF flags = 10 THEN SirenVoltages(SubSeq(data, 6, Len(data))) ELSE NoVoltage
       IN [device |-> At(data, 0), signal |-> Signal(At(data, 4)),
           battery |-> IF flags < 10 THEN flags * 10 ELSE None,
           voltage |-> volts.voltage, voltage_current |-> volts.voltage_current]

-----------------------------------------------------------------------------
\* The DeviceInfo of probe_all_devices: a bus device's values come from its
\* diagnostic, another one's from its status.
DeviceInfo(status, diagnostic) ==
  LET from == IF diagnostic # Malformed THEN diagnostic ELSE status IN
  [device_number |-> status.device, signal |-> from.signal, battery |-> from.battery,
   voltage |-> IF diagnostic # Malformed THEN diagnostic.voltage ELSE None,
   voltage_current |-> IF diagnostic # Malformed THEN diagnostic.voltage_current ELSE None,
   active |-> status.active]

\* sensor.py: at set-up a device gets a sensor for each value it has; a sensor
\* shows its field of the info.
SensorsFor(info) ==
  {field \in {"signal", "battery", "voltage", "voltage_current"} : info[field] # None}

NativeValues(info) == [field \in SensorsFor(info) |-> info[field]]
=============================================================================
