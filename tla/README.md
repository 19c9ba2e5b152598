# Verification of jablotron_local

TLA+ models of the Home Assistant integration in `src/custom_components/jablotron_local`
(JA-100+ alarm panels over USB HID), checked with TLC, and theorems about them
proved with TLAPS. Paths below are relative to that directory unless they begin
with `src/`.

## 1. Inventory

The integration runs in one Python process. Three kinds of threads meet in it:
the **event loop** (coordinator, entities, set-up, config flow), the **reader
thread** of each client, and **executor threads** that run the client's blocking
calls. They share the client's fields without a common lock.

| Component | State it keeps | Operations | Talks to |
|---|---|---|---|
| `JablotronClient`, command path (`client.py` 444-661, 739-833) | `_session_lock`; `_cmd_login_event`, `_cmd_ack_event`, `_cmd_export_done_event`, `_cmd_auth_error`; `user_initiated_action`, `service_pin_rejected` | `modify_section`, `export_config` + `end_session`, `probe_all_devices`; reader side `_check_command_responses` | panel through `_write_report`; reader thread through events; loop through the two flags |
| `JablotronClient`, device probe (626-737, 788-811) | status and diagnostic events and response fields | `_query_single_device`, `_query_bus_device_diagnostics` | panel, reader thread |
| `JablotronClient`, connection (239-438) | `_fd`, `_connected`, `_stop_event`, `_write_lock`, reader thread | `connect`, `disconnect`, `_reader_loop`, `_reconnect`, `_close`, `_write_report` | kernel; coordinator by callback |
| Set-up (`__init__.py`) | the entry's runtime data | `async_setup_entry`, `async_unload_entry` | client, coordinator, volume, platforms |
| Coordinator (`coordinator.py`) | `PanelState`, `_initial_data_ready`, `panel_config` | `_process_packets`, `_handle_ui_control`, `_process_connection_change`, `_async_update_data` | reader (`call_soon_threadsafe`), client, entities |
| Alarm entity (`alarm_control_panel.py`) | `_attr_alarm_state` | creation, `_handle_coordinator_update`, `_async_command` | coordinator, client |
| Report framing (`protocol.py` 418-485) | none | `encode_report`, `decode_report` | client, both ways |
| Payloads (`protocol.py`, rest) | none | builders and decoders | client, coordinator, entities |
| Configuration parser (`config_reader.py` 221-451) | none | `read_panel_config` and its scans | FLEXI_CFG volume |
| Volume and hidraw discovery (`config_reader.py` 125-218, 454-515, `hidraw.py`) | none | sysfs walks, open test | kernel |
| Config flow (`config_flow.py`) | flows in progress, the stored entry | steps usb, user, confirm, reconfigure, reauth | Home Assistant, set-up by reload |
| Sensors, binary sensors (`sensor.py`, `binary_sensor.py`) | none of their own | which entities a device gets, what they show | coordinator |
| Diagnostics (`diagnostics.py`) | none | a redacted dump | coordinator |

**What is hard here.** Requests are answered by another thread through events
that carry no identity: an event cleared a moment too late loses an answer, one
left set answers the wrong request. A `WRONG_CODE` takes two ways, directly to
the waiting call and through the loop to the coordinator, and the second one
consults a flag that the first one ends. `_session_lock` is taken in one method
and given back in another. The handle is closed by two threads and written by a
third. The reader runs before anybody listens. Late answers of a device fall
into the next device's query. An entry means a panel but opens a path, and the
two part when panels are replugged, reconfigured or reloaded in the middle of a
set-up. The parser and the decoders recognise records by bytes that may also be
data. `PROJECT.json` lists each of these at its line under `hazards`.

**What makes each component correct.** *Command path*: a command runs only in
the session its own PIN opened; success means it was carried out; an
authentication error means that PIN was refused; every call returns and leaves
the panel logged out; the service PIN is blamed only for its own refusals.
*Device probe*: a device info is of one device; every device leaves diagnostics
mode; the probe ends. *Connection*: one handle at a time, none forgotten; after
`disconnect` nothing is open; a panel that stays comes back; changes are
delivered in order. *Set-up, coordinator, entity*: set-up ends; the entity shows
the panel's last state, never an older one than before. *Framing and payloads*:
decoding undoes encoding, whatever follows the packets; each entity shows its
own section or device; a command reaches its section. *Config flow*: a loaded
entry is on its panel, with the data stored last; no client is left behind.
*Parser*: entries are the records.

## 2. Modules

| Module | Models | How state and actions correspond |
|---|---|---|
| `Sessions` | command path, reader and loop as far as they touch it, panel and link | `pc[c]` is the line a call's thread is at; one action per access to shared state, in the code's order; `lock`, the events and the flags are the fields of the same name; `posted` is the loop's callback queue. Actions of the panel and of the link are external |
| `CommandService` | nothing of the code: what the path promises | calls admitted one at a time, carried out in their own session, successful only if carried out |
| `MCSessions` | | the refinement mapping `Sessions` → `CommandService` |
| `SessionsProof` | | theorems about `Sessions`: first whatever the panel's timing, then the refinement and what else needs answers in time |
| `DeviceProbe` | device loop of `probe_all_devices` after the login | response fields and events of `client.py`; a response is reduced to whose it is; `StoreResponse` and `SignalResponse` are the two assignments of `_check_command_responses` |
| `Connection` | the handle's life | `table` is the kernel's descriptor table; `_close` (close, forget, flag) and `_set_connected` (check, assign, callback) are three steps each for either of the two threads that run them; a read or write may raise on a panel that is there (`RaisesOSError`); `LoadFd`/`WriteFd` are the two halves of `os.write(self._fd, …)` |
| `Entry` | set-up, unload, coordinator, alarm entity | the section states are a version number; packets go panel → `toRead` → `posted` → `sections` → `entity`; authenticated calls appear by outcome only |
| `Payloads` | the decoders and builders that read or write numbers, and what the platforms make of the result | pure operators over sequences of bytes, `At(data, k)` being the code's `data[k]` |
| `Reports` | TLV framing, as a wire that carries one report | one step per iteration of `decode_report` |
| `PanelData` | `Reports` and `Payloads` between a panel and the entities | `sections`, `activeDevices`, `systemInfo` are `PanelState`; `status`, `diagnostic` the client's response fields; `alarm` the entities' `_attr_alarm_state`. The panel, which builds the bytes, is external and follows the captures quoted in code and tests |
| `ConfigFlow` | discovery, flows, reconfiguration, reauthentication, with the set-ups, reloads and clients that follow | `adding` are flows in `async_step_confirm` with their `_discovered_panel`; `using` is what a set-up has read of `entry.data`; `clients` are all clients ever made. Home Assistant's part (one entry, one flow per unique id, set-up lock, retries) is external |
| `ConfigParser` | `read_panel_config` | one step per iteration of the two scans over real bytes; the volume's layout is external, taken from the parser's comments and the records of the tests: a device record is marker, RF byte, address ([b1] [b2] and what follows), `02 section 03 type 04`, extra bytes, and the name |
| `MCPanelData`, `MCConfigParser` | | TLC's values of the constants of `PanelData` and `ConfigParser` |
| `ConnectionProof`, `EntryProof`, `DeviceProbeProof`, `ConfigFlowProof` | | theorems about the module each is named after |
| `PanelDataProof` | | theorems about `PanelData` and the modules it is built from, `Reports` and `Payloads` |
| `ConfigParserProof` | | theorems about `ConfigParser`, with the geography of a volume they rest on |
| `SequenceLemmas` | | what the proofs need to know of finite sets of numbers (least and greatest element, induction), of `\o` and of `FlattenSeq` |

`Sessions` and `DeviceProbe` meet at `probe_all_devices`: the first has the call
with its lock, login and number of queries, the second what goes on between
them. `Entry` uses both by outcome, `ConfigFlow` uses `Entry` by outcome.
`Connection` refines the `link` variable of the other modules. `PanelData` says
what the version numbers of `Entry` and the answers of `DeviceProbe` look like in
bytes.

Definitions called "Mutant: …" in the modules are no part of any
specification. Each is a plausible mistake in one mapped definition, and
replacing that definition by it breaks the property `PROJECT.json` names.

## 3. What the runs check

Runs are named after their `.cfg`.

**`sessions`** (command path): one user call and one service call, of every kind
and with every PIN, over a link that may break twice. `LoggedOutWhenFree`,
`UserFlagMeansUserHoldsLock` and `NoForeignExecution`; `OkMeansApplied`:
success means carried out, once; `AuthErrorMeansRefused`: a user is told of a wrong PIN only for that PIN;
`ImplementsCommandService`: the whole refines the one-at-a-time service;
`EveryCallReturns`. All but the last are proved for any number of calls.

**`connection`**: two unplugs, two system calls that fail although the panel is
there, one file opened elsewhere in the process, `disconnect` at any moment, a
join that succeeds or gives up. `NoHandleForgotten`: at most one handle through
all reconnects, and none forgotten; `DisconnectCloses`: nothing left open after
`disconnect`; `FdNamesThePanel`: no closed number stays in `self._fd`;
`ForeignFilesStayOpen`: no foreign file is closed by a second `os.close` of the
same number; `ChangesArriveInOrder`: the coordinator is wrong about the
connection only for as long as a change is queued or about to be; all these
unless the join gave up. `Reconnects`: a panel that stays, and fails finitely
often, is connected again for good; `DisconnectReturns`, even though the reader
may be in a backoff.

**`entry`** (set-up, coordinator, entity): two changes of the panel, two breaks, a
periodic probe. The set-up ends, creates the entity, and the entity catches up
with the panel without ever going back.

**`probe`**: three devices, two on the bus, any of them silent, one break, the
service PIN rejected at any time, answers in time or later. Late answers only
lag: a list never names a device twice, out of order or before it was asked
about. When none is late, the responders are reported, each with its own
diagnostics. Diagnostics are stopped and the probe ends.

**`panel_data`** (framing, payloads, coordinator, platforms): reports of 64 real
bytes. A panel with sections in the first, second and last slot changes twice
and says so in one report or in several, before, between and after the set-up
of the platforms; commands go the other way; answers of wireless, wired and bus
devices and of sirens are decoded; packets that just fit, just do not fit or are
cut off by the end of the report are on the wire. `DecodesTheReport`: what fits
a report comes out of it, in order, with whatever padding follows;
`EntitiesShowThePanel`: once the panel has said everything, every entity shows
its own section or device; `AnswersAreTheDevices`: an answer is read as the
device meant it; `CommandsReachTheirSection`. All are proved for any sections,
devices and answers.

**`config_flow`**: a panel with a serial and one without on three paths, plugged and
unplugged at any moment, while the user adds, reconfigures, reauthenticates or
removes the entry, platforms fail to unload and Home Assistant restarts. `RightPanel`: a loaded entry is on
the panel it was made for; `EntryInEffect`: with the data stored last;
`ClientsAccounted`: nobody else holds the device; `SetupRecovers`: a panel that
comes back for good is set up without the user. `StartReauth` is as wide as the
code: any open client of the entry may hear a WRONG_CODE, during a set-up, without
a stored PIN, or left behind by a set-up that raised.

**`config_parser`**: every volume of up to two section and two device records,
with empty, too long, letterless and non-text names, with section numbers that
equal tags, and with device records whose RF byte, address, type byte and extra
bytes contain tags. `NamesAreTheSections`: a name reaches its own section and no
other; `EntriesAreTheRecords`: the entries are the nameable records in their
order, each with its own section and RF byte, if every device record is
`Unambiguous`: nothing before its name reads as a complete name (06, a length,
and 07 where that length ends), nothing behind its marker as another marker, and
nothing behind its section tag as another `02 s 03 t 04`. Single bytes that equal
tags are harmless; a record that is ambiguous is among those enumerated, and is
the property's exception. Both are proved for any number of records with any
names, numbers and other bytes.

### Where the program does not do what it says

Each of these runs ends in a counterexample; the text it contradicts is quoted in
`PROJECT.json` under `findings`.

| Run | What happens |
|---|---|
| `sessions_reauth` | the loop handles a user's `WRONG_CODE` after `modify_section` has dropped `user_initiated_action`: the service PIN is marked as rejected |
| `sessions_blocked_login` | `service_pin_rejected` is read before waiting for the lock and not after |
| `entry_failed` | exceptions of `export_config` / `probe_all_devices` that the "non-fatal" helpers do not catch, a PIN of the wrong length among them |
| `entry_unavailable` | a probe while not connected fails the coordinator's update, and entities fed by pushes become unavailable |
| `config_positions` | an entry without a letter in its name shifts all later numbers |

### Exceptions the models show

The passing properties are as strong as the code allows; their exceptions are
behaviours of the code a reader should know of:

- the mirror image of `sessions_reauth`: the service PIN's own `WRONG_CODE`,
  handled while a user's call has the flag up, is ignored and the PIN sent again;
- `_cmd_auth_error` reset between the reader's two assignments: a refused call
  goes on to send its command. The panel, logged out by the leading `AUTH_END`,
  ignores it (`NoForeignExecution`), and the call times out;
- an answer that precedes `Event.clear()` is lost, and the call times out;
- `~gaveUp`: after a join that timed out, the reader may leave the device open,
  a number may be closed twice, and the two threads may assign `_connected` in
  one order and post the changes in the other, so that the coordinator of an
  entry being unloaded ends connected while the client is not;
- `_close` does not take `_write_lock`, though `client.py` 307 calls
  `_write_report` thread-safe: when an I/O error, an unplug or a disconnect comes
  between the load of `self._fd` and the write, the report may reach a file that
  was given the number. `WritesStayOnPanel` in `Connection` says it does not; it
  is no property of a run, since it does not hold, and no weaker one would be
  about this race. (As an invariant of `connection` it is violated after a few
  steps, without any unplug.)
- `~missed` in `LoadedHasEntity`: answers read before `on_packets` is set are
  dropped, and an entry without alarm entity is loaded;
- `~hurried` in `DeviceProbe`: a late status is joined with the diagnostic of the
  device asked about next;
- `stale` in `Sessions`: a session the panel keeps over a broken link, if it does,
  may serve the next call when that call's `AUTH_END` is lost as well;
- `known` in `ChangesArriveInOrder`: `connect` announces `True` before the
  coordinator's callback is set (`__init__.py` 73-85), so the coordinator takes a
  connected panel for unconnected until the first reconnect;
- `252 \notin …` in `AnswersAreTheDevices`: `decode_device_status` looks for the
  wireless marker 0xfc from byte 2 on and takes the first one, which may be a
  flags or an activity byte (the tests show activity bytes 0x9d and 0xfd). A
  device without marker is wired, and a wired one is never found to have gone
  without communicating, as activity 0xffff means for a wireless one;
- bus flags 0x0a mark a siren. A bus device with a full battery reports ten
  there, is taken for a siren without battery, and shows none;
- bit 0 of the device bitmap is never read (`decode_devices_states` begins with
  bit 1), but the first entry of the volume has position 0
  (`config_reader.py` 359), and `binary_sensor.py` 50-53 makes a binary sensor for
  it: this sensor can never turn on. Device 0 is outside the `Devices` of
  `PanelData`;
- the trailer of a `SECTIONS` packet is decoded as a 17th slot
  and is skipped only because its first byte, 0, reads as UNSET. A section 17 would share its
  command bytes with section 1 in the next mode (`SeventeenIsOne`);
- a section that appears after the set-up gets no entity; one that is switched
  off leaves its entity with the last state (`lastTold` in
  `EntitiesShowThePanel`);
- `~reused` in `RightPanel`: a client opens a path. If the kernel gives the path
  of the entry's panel to another one, that one is monitored; its serial is
  compared in the flows only;
- `~Unambiguous` in `EntriesAreTheRecords`: the parser cannot tell an address, or
  the bytes between 04 and the name, from tags they happen to spell;
- with an entry, Home Assistant ends the usb and user flows before their first
  step (`single_config_entry` in `manifest.json`, `src/tests/test_config_flow.py`
  110): the refresh of a changed device path that `config_flow.py` 6-8 describes
  and 88-113 carry out is never reached, and a panel whose path has changed is
  found again by reconfiguring. One without serial has the path as its unique
  id, and a reconfiguration to its new path is refused as another panel
  (`_abort_if_unique_id_mismatch`), although `config_flow.py` 12-13 has
  reconfiguring choose another panel;
- `failed` in `ClientsAccounted`: each set-up that raises after `connect` leaves
  an open client with its reader thread behind, and so does the removal of an
  entry whose platforms could not be unloaded (`__init__.py` 118-122). Such an
  entry stays "stuck" until Home Assistant restarts, which `SetupRecovers`
  allows.

## 4. Bounds, and why they are enough

- *Calls* (`UserCalls`, `ServiceCalls`). A call is started at most once, so the
  number of calls bounds the behaviours. The shared events have no identity:
  what one call leaves behind meets at most the next one, and `sessions` has
  every pair of kinds and PINs in both orders. Service calls are started one
  after another, as set-up and the periodic refresh do. The violation runs have
  a third call, which waits for the lock. The theorems hold for any number.
- *Devices*: 2 in `sessions` (the loop's body does not depend on the number), 3
  in `probe`, so that an answer can be late by two rounds.
- *MaxBreaks*, *MaxUnplugs*: two, so that a reconnect is itself interrupted; one
  in `probe`, which starts from a session that is open.
- *MaxFd*: three numbers: the panel's, a foreign file's, one to spare. *MaxErrors*
  two: one I/O error closes a live handle, the second strikes the reopening.
- *MaxChanges* two, an older and a newer one to confuse; *MaxProbes* one, which
  overlaps with every other step.
- *Reports*: the code's 64 bytes. `Noise` fills a report up to the last seven bytes and
  lets the last five take every role (type, length, padding, data cut off);
  `Sizes` has pairs of packets from well below to above the size of a report.
- *Sections* {1, 2, 16}: two neighbours, and the last slot before the trailer; the
  others are OFF. *Devices* {1, 8, 31}: a first bit, the first of the second
  byte, the last. *MaxChanges* two in `panel_data`: a state to be confused with
  the next one. `AnsweringDevices` has every kind with boundary values of each
  field; one report is under way at a time, since order and loss are the
  business of `Entry` and `DeviceProbe`.
- *Panels*, *Paths*: one panel with a serial and one without, and a third path, so
  that each can move and a path be given to the other. *MaxMoves*, *MaxChanges*
  three: create, change and restart or remove in one behaviour. A connect fails
  only when nobody is at the path; other failures of it have the same outcome.
  *Pins*: none or one, since only whether there is one decides what a set-up does.
- *MaxNameLength* 3 for 40; the regions begin at once instead of at offsets 400
  and 1400. `SectionReach` and `RfReach` keep the code's 50 and 60, which here
  reach well into the record before. The device records are of two kinds: ordinary ones with every kind of name, and odd
  ones of which each puts tags into one place, complete or not. A record modelled
  always has its own marker and section tag; what the searches do for a record
  without one is not covered.
  `ParserAssumption` asks nothing of the searches (that they reach the tags of
  their own record is part of `Unambiguous`), and of the panel's names that they
  are written without control characters and are at most 95 bytes long (the
  length is one byte from 0xa0 on).
- *Prompt* in `Sessions`. TRUE: a timeout expires only when no answer is on its
  way any more (milliseconds against two seconds, `protocol.py` 65-71). The runs
  have TRUE, because with FALSE and three calls `OkMeansApplied` fails: the
  acknowledgement of a timed-out call answers for the next one, since nothing in
  an ACK says whose it is. The first part of `SessionsProof` holds with FALSE
  as well, the second needs TRUE (section 6).
  `Connection`, `Entry` and `DeviceProbe` let timeouts expire at any time and
  record it in `gaveUp`, `missed` and `hurried`.

## 5. Fairness

Weak fairness only: of each call's thread and of the reader (the operating
system runs them), of the loop's queue, of the panel handling what it has
received, in `Entry` and `Connection` of the set-up coroutine and of
`disconnect` once begun, and in `ConfigFlow` of a set-up's steps, of Home
Assistant's retry timer and of a scheduled reload. Not assumed: that a call is started, that an entry is
unloaded, that the panel accepts or answers a device query, that a device comes
back on the bus, that a user answers a flow. `Reconnects`, `EntityCatchesUp` and
`SetupRecovers` therefore speak of a panel that stays; and I/O errors of a panel
that is there are finitely many in `Connection` (`MaxErrors`), without which
`Reconnects` could not hold. A link found broken is reopened in `Sessions` and `DeviceProbe`,
where the reader's step includes it; there progress does not depend on it, since
a write on a dead link fails and a wait runs into its timeout.

## 6. What is proved

Every theorem holds for all values of the constants that satisfy the named
assumptions, which only say that numbers are numbers and that sets meant to be
different are. In each module the argument is the same: an inductive invariant
that `Init` implies and every action preserves (one step of the
proof per action), from which the properties follow. The theorems are listed in
`PROJECT.json`; here is why the invariants are needed.

**`SessionsProof`, first part** (any calls, devices, breaks; either value of `Prompt`).
`NoForeignExecution` is not inductive: it compares the command at the head of
`toPanel` with the panel's session, and what is at the head was written many
steps earlier by a call that may have ended. `SessionInv` says who may have
written what: the lock is held exactly where the code holds it (`LockInv`),
nothing is on the wire of a dead link (`LinkInv`), and the queue consists of
groups divided by `AUTH_END`s (`OneCallPerSession`), each of one call, the first
of the call whose session stands open, the last of the call that owns the lock
and has sent its leading `AUTH_END`. The proof follows a packet: lemmas
`AppendEnd`, `AppendOwn`, `TailEnd`, `TailOther` and `Adopt` say what writing and
handling do to the groups; `CallShapes` reduces the 21 actions of a call to six
shapes as seen from lock and queue; `StepSessionInv` puts them together.
`UserFlagMeansUserHoldsLock` and `LoggedOutWhenFree` follow as well. The exception
`stale` is a session the panel kept over a broken link; whether it does is not
known from this repository.

**`SessionsProof`, second part** (any calls, devices, breaks; `Prompt`). `ServiceCorrect`: every
step of `Sessions` is a step of `CommandService` or leaves it alone; `OkCorrect`
and `AuthErrorCorrect`. Nothing in an answer says whose it is, and the three
events are shared by all calls and cleared only after the request is written, so
that an event seen up is the call's own has to come from the order of things.
`TurnInv` states that order: the holder of the lock writes a request only when
the state is `Calm` (nothing but `AUTH_END`s written, nothing to be read, the
reader idle), and from then to its wait the request, its answer on the wire, or
the answer in the reader's hand is the only thing under way (`LoginTurn`,
`AckTurn`, `DoneTurn`, `QueryTurn`). `Past` adds what the panel has done for a
call by how far the call has come: an acknowledgement on its way means
`applied[c] = 1`, a WRONG on its way means that `c` was refused, and a call
whose code is still to be handled was never accepted. The last, with `SessionInv`,
shows that the panel admits a call only when no session stands. With this each
step of a call maps to a stutter, `Fail` or `Succeed`; of the panel to `Admit`,
`Apply`, `Close` or a stutter; of the link to `Close`, `Tear` or a stutter.

**`ConnectionProof`** (any writers, descriptors, unplugs, I/O errors, foreign
files). All safety properties of `Connection`. `NoHandleForgotten` depends on
where both threads are in their copies of `_close`: `HandleInv` says that
wherever a handle may be closed next it is the one in `self._fd`, and that
wherever one may be opened next there is none; `ThreadInv` that without a join
that gave up the two threads are never both in there, nor both in
`_set_connected`. `TellInv`: without such a join, a thread that has assigned the
flag and not yet called back tells of the value the flag has. `LoopInv` covers
the time before the callbacks are set.

**`EntryProof`** (any number of changes, breaks and probes). `EntityShowsPanel`,
`LoadedHasEntity`, `EntityNeverRegresses`. `OrderInv`: versions ascend from the
coordinator's data over the posted to the unread packets to the panel.
`LatestInv`: the last one of them is the panel's. `SetupInv`: what each point of
the set-up has behind it. `AnswerInv`: the first answer is on its way until it
has come, which makes the initial wait succeed.

**`DeviceProbeProof`** (any number of devices, any of them on the bus, any number
of breaks). All safety properties of `DeviceProbe`. A response is taken for the
device asked about now, whatever it is, so the proof needs to know where every
answer still to come stands. `LagInv`: numbers ascend strictly from the list over
the response field to the answers on their way and the queries behind them, and
nothing exceeds the loop's `at`; hence `LateAnswersOnlyLag`. `StopInv`: each start
in the queue is followed by its stop before another start, or the thread has yet
to write the stop; a broken link leaves at most one device without; hence
`DiagnosticsAreStopped`. `TimelyInv`: while no wait has ended too early, query and
answer on their way are those of `at` (`StatusInv`, `DiagnosticInv`), and without
breaks every answer is in the list or on its way to it (`AnsweredInv`); hence
`InfoIsOfOneDevice` and `RespondersAreReported`.

**`ConfigFlowProof`** (any panels, serials, paths and bounds). `RightPanel`,
`EntryInEffect`, `ClientsAccounted`. `PanelInv`: while no path is reused, whoever
is at a path is its `owner`, and flows, entry and clients mean the owner of the
path they name. `StateInv`: a set-up under way has the entry's data, or a reload
is scheduled, and an entry that is loaded or stuck has a client that is not yet
counted as left behind.

**`PanelDataProof`** (any sections among the 16, any devices among the 31, any
answers of `PossibleDevices`, any number of changes, reports of 61 to 255
bytes: the packets of the panel must fit, and a length is one byte). All
properties of the run. The proof has three layers.

- *Operators*, without a state: what each decoder makes of what the panel
  encodes, for every state of the slots, every bitmap and every answer
  (`SectionsRead`, `ActivityRead`, `SystemInfoRead`, `StatusRead`,
  `DiagnosticRead`, `OrderRead`), and what they guarantee for any bytes at all:
  `SectionsAreIndependent` (a section's state depends on its slot alone),
  `StatusIsSound` (the answer is of the device named, with percentages or
  nothing), `OrdersAreDistinct` (sections 1 to 16 and the three modes have
  different bytes) and `SeventeenIsOne` (the next one has not).
- *The wire*: `WireInv` says that what the decoder has found so far, encoded
  again, is what it has consumed, and that, of a report somebody encoded, it is
  the first of the packets sent. At the end of the report it is all of them,
  which is `DecodesTheReport`. That the decoder stops neither too early nor too
  late follows packet by packet (`NextSent`, `NoneLeft`).
- *The system*: `DecodesTheReport` says nothing of what the wire carries, and
  `EntitiesShowThePanel` nothing of a state that is not settled. `IInv` adds
  both. `Traffic`: what is on the wire is `Said(what)` for a nonempty `what` that
  is no longer in `unsent`, the command asked for, the answer of the device asked
  about, or noise, and says of a section what `lastTold` says. `Shown`: what is
  neither unsent nor on its way is in the coordinator's data and in the entities.
  `OthersAreOff`: a slot not in use stays OFF, without which a command's byte
  could reach a foreign section. `Answered`: the response fields are empty until the answer of the
  device asked about arrives, and then hold what its packets say. `Noisy`: a
  report of unknown origin carries no packet of a type anybody handles.

**`ConfigParserProof`** (any number of records; names of bytes from 32 on and at
most 95 of them; section numbers, sections, RF bytes, addresses, type bytes,
extra bytes and what precedes a marker as they come; any size of the names'
region that holds the section records, any `_MAX_NAME_LENGTH` up to 40, any reach
of the searches). Both properties of the run. What counts as a letter or as text
plays no role: the definitions of `HasLetter` and `IsText` are not used. For
sections there is no premise; for devices it is that the records are
`Unambiguous`, each looked at by itself: that no combination of neighbours
misleads the parser is what is proved. The records have no common length, so the
proof begins with a geography of the volume:

- `SequenceLemmas` has a calculus of positions: `Offset(parts, k)` is where part
  k of a concatenation begins, `FlattenAt` says that it stands there byte for
  byte, `OffsetsAscend` that the next one begins where it ends. Hence
  `SectionFields` and `DeviceFields`, each field of each record at its offset in
  the decrypted volume, and `SectionFound` and `DeviceFound`: a byte that is not
  zero is a byte of some record.
- A tag may also be data. `SectionTagOnly` goes through every byte of a section
  record and shows that what the scan compares it with tells a name tag from all
  others (that names have no control characters is needed here); `DeviceTagOnly`
  does so for a device record, up to what `Unambiguous` excludes. `LaidOut` is a
  device record byte by byte, `Seen` what a backward search meets from its name
  tag; `OwnSection` and `OwnRf` conclude that the nearest match is the record's
  own, wherever the record before it ends.
- `IInv` says what has been taken when a scan is at offset `i`: the names, and
  the entries in order, of exactly the nameable records that begin before it
  (`SectionsBefore`, `DevicesBefore`), the entries if all records are unambiguous
  (`Listed`). A step over a byte where no record is
  recognised leaves these sets alone (`SectionRecognised`, `DeviceRecognised`), a
  step over a record adds this one (`SectionsPassed`, `DevicesPassed`), and at the
  end of a scan no record is left behind it.

That `Init` has only records that fit (`Len(SectionsBytes(sections)) <=
NamesSize`) is the panel's business: with more, the scan for names would run
into what follows the region.

Only model-checked: liveness and everything that needs fairness, out of the
prover's reach, and the runs that end in a counterexample.

## 7. Not modelled

- Discovery of the FLEXI_CFG volume (`find_flexi_cfg_device`), the sysfs walks of
  hidraw enumeration and the search for a stable symlink: pure I/O. `ConfigFlow`
  has what `enumerate_panels` and `probe_device` return.
- Forms, texts, translations, the diagnostics dump, constants: no state.
- The probe interval, keepalive and refresh cadence, lengths of backoffs and
  timeouts.
- The FLEXI_CFG volume disappearing while the file is read, other than as
  `ConfigReadError`.
- The panel's pushes in `Sessions`, which touch none of its state.
- Infos of a probe that ends half-way: they replace those of the probe before.
  No doc or test says whether the others should be kept, so there is nothing to
  hold the code to.
- A parser record without its own marker and section tag.

## 8. Plan

Done, in this order: `Sessions` with `CommandService` and its proofs;
`Connection`; `Entry`; `DeviceProbe`; `Reports`; `ConfigParser`; `Payloads` and
`PanelData`; `ConfigFlow`; the proofs of `ConfigFlow`, `Payloads`, `Connection`,
`Entry` and `DeviceProbe`; the proof that `Sessions` implements
`CommandService`; the proofs of `Reports`, `PanelData` and `ConfigParser`.

What could still be added:

1. The outcome "link" of `Sessions` divided into not connected and failed write,
   and the outcomes `Entry` uses derived from it by refinement.
2. `ConfigFlow` with several entries, should `single_config_entry` be dropped.
