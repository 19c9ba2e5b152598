----------------------------- MODULE ConfigFlow -----------------------------
(***************************************************************************)
(* The config entry and the panel it means: discovery, the user's flows,   *)
(* reconfiguration and reauthentication (config_flow.py), the set-ups they *)
(* lead to (__init__.py, by outcome), and the clients those leave behind.  *)
(*                                                                         *)
(* Panels come and go on device paths.  A client knows its panel by the    *)
(* path alone.  What Home Assistant does around the handlers is external:  *)
(* one entry at most (manifest.json), one flow per unique id, a lock that  *)
(* keeps set-up, unload and reload of the entry apart, retries of set-ups  *)
(* that were not ready.                                                    *)
(***************************************************************************)
EXTENDS Integers, Sequences

CONSTANTS
  Panels,      \* panels of the right vendor and product id
  WithSerial,  \* those whose uevent has a HID_UNIQ
  Paths,       \* device paths the kernel gives
  Nowhere,     \* the path of a panel that is not plugged in
  MaxMoves,    \* bound: how often a panel is plugged in
  MaxChanges   \* bound: entries made, updated, removed, and restarts

ASSUME ConfigFlowAssumption ==
  /\ WithSerial \subseteq Panels /\ Nowhere \notin Paths \cup Panels
  /\ Panels \cap Paths = {}
  /\ MaxMoves \in Nat /\ MaxChanges \in Nat

\* No service PIN, or one; the panel may refuse any.
Pins == {"none", "given"}

VARIABLES
  at,        \* where each panel is plugged in
  adding,    \* flows waiting in async_step_confirm: their _discovered_panel
  entry,     \* the config entry, or NoEntry
  state,     \* the entry: "none", "begin", "connect", "connected", "loaded",
             \* "retry" after ConfigEntryNotReady, "error" after another
             \* exception, "stuck" if its platforms could not be unloaded
  using,     \* what the set-up has read of entry.data
  reload,    \* a reload is scheduled
  reauth,    \* a reauth flow waits for the PIN
  clients,   \* every client made, in order
  runtime,   \* number of the client in entry.runtime_data, or 0
  failed,    \* history: clients whose set-up raised after connect, or whose
             \* entry was removed although its platforms could not be unloaded
  old,       \* history: how many clients are of entries removed since
  owner,     \* history: the panel a path was first given to
  reused,    \* history: a path was given to another panel
  moves, changes

worldVars == <<at, owner, reused, moves>>
clientVars == <<clients, runtime, failed, old>>
vars == <<worldVars, adding, entry, state, using, reload, reauth, clientVars, changes>>

NoSerial == Nowhere
NoEntry == [path |-> Nowhere]
Nothing == [path |-> Nowhere]

Found == [path : Paths, serial : WithSerial \cup {NoSerial}]
Data == [path : Paths, pin : Pins]
EntryData == [id : WithSerial \cup Paths, path : Paths, serial : WithSerial \cup {NoSerial},
              pin : Pins]
Client == [path : Paths, pin : Pins, on : Panels \cup {Nowhere}, open : BOOLEAN]

WorldTypes ==
  /\ at \in [Panels -> Paths \cup {Nowhere}]
  /\ owner \in [Paths -> Panels \cup {Nowhere}] /\ reused \in BOOLEAN
  /\ moves \in 0..MaxMoves

EntryTypes ==
  /\ adding \subseteq Found
  /\ entry \in EntryData \cup {NoEntry}
  /\ state \in {"none", "begin", "connect", "connected", "loaded", "retry", "error", "stuck"}
  /\ using \in Data \cup {Nothing}
  /\ reload \in BOOLEAN /\ reauth \in BOOLEAN
  /\ changes \in 0..MaxChanges

ClientTypes ==
  /\ clients \in Seq(Client)
  /\ runtime \in 0..Len(clients) /\ failed \subseteq 1..Len(clients)
  /\ old \in 0..Len(clients)

\* The entry, the flows and the clients name paths and panels that exist, and
\* the state of the entry is one of Home Assistant's.
TypeOK == WorldTypes /\ EntryTypes /\ ClientTypes

Init ==
  /\ at = [p \in Panels |-> Nowhere]
  /\ adding = {} /\ entry = NoEntry /\ state = "none" /\ using = Nothing
  /\ reload = FALSE /\ reauth = FALSE
  /\ clients = <<>> /\ runtime = 0 /\ failed = {} /\ old = 0
  /\ owner = [path \in Paths |-> Nowhere] /\ reused = FALSE
  /\ moves = 0 /\ changes = 0

Changed == changes < MaxChanges /\ changes' = changes + 1

-----------------------------------------------------------------------------
(***************************************************************************)
(* Panels and paths.                                                       *)
(***************************************************************************)
PanelsOn(path) == {p \in Panels : at[p] = path}

Describe(p) == [path |-> at[p], serial |-> IF p \in WithSerial THEN p ELSE NoSerial]

\* Mutant: a panel that has been unplugged is still listed.
EnumerateAll == {Describe(p) : p \in Panels}

\* enumerate_panels.
EnumeratePanels == {Describe(p) : p \in {q \in Panels : at[q] # Nowhere}}

\* probe_device: somebody can be reached at the path.
ProbeDevice(path) == PanelsOn(path) # {}

UniqueId(found) == IF found.serial # NoSerial THEN found.serial ELSE found.path

Plug ==
  /\ moves < MaxMoves /\ moves' = moves + 1
  /\ \E p \in Panels, path \in Paths :
       /\ at[p] = Nowhere /\ PanelsOn(path) = {}
       /\ at' = [at EXCEPT ![p] = path]
       /\ owner' = [owner EXCEPT ![path] = IF @ = Nowhere THEN p ELSE @]
       /\ reused' = (reused \/ owner[path] \notin {Nowhere, p})
  /\ UNCHANGED <<adding, entry, state, using, reload, reauth, clientVars, changes>>

\* A client on the panel notices and goes on trying its path.
Unplug ==
  /\ \E p \in Panels :
       /\ at[p] # Nowhere
       /\ at' = [at EXCEPT ![p] = Nowhere]
       /\ clients' = [c \in DOMAIN clients |->
                        IF clients[c].on = p THEN [clients[c] EXCEPT !.on = Nowhere]
                        ELSE clients[c]]
  /\ UNCHANGED <<owner, reused, moves, adding, entry, state, using, reload, reauth,
                 runtime, failed, old, changes>>

\* _reconnect: whoever is at the path now.
Reconnect(c) ==
  /\ clients[c].open /\ clients[c].on = Nowhere
  /\ \E p \in PanelsOn(clients[c].path) : clients' = [clients EXCEPT ![c].on = p]
  /\ UNCHANGED <<worldVars, adding, entry, state, using, reload, reauth, runtime, failed, old, changes>>

-----------------------------------------------------------------------------
(***************************************************************************)
(* The flows.                                                              *)
(***************************************************************************)
FlowVars == <<entry, state, using, reload, reauth, changes>>

\* async_step_usb and async_step_user come to async_step_confirm with a panel
\* that is plugged in: the one that was discovered, the only one there is, or
\* the one that was picked from a list made anew.  With an entry neither
\* begins, so the discovery's update of device_path is never reached.
Discover ==
  /\ entry = NoEntry
  /\ \E found \in EnumeratePanels :
       /\ \A flow \in adding : UniqueId(flow) # UniqueId(found)
       /\ adding' = adding \cup {found}
  /\ UNCHANGED <<worldVars, FlowVars, clientVars>>

Dismiss ==
  /\ \E flow \in adding : adding' = adding \ {flow}
  /\ UNCHANGED <<worldVars, FlowVars, clientVars>>

\* async_step_confirm: what was discovered is stored if its path can be opened;
\* else the form is shown again.  A second entry is not created.
Confirm ==
  /\ \E flow \in adding, pin \in Pins :
       /\ ProbeDevice(flow.path)
       /\ adding' = adding \ {flow}
       /\ IF entry = NoEntry
          THEN /\ Changed
               /\ entry' = [id |-> UniqueId(flow), path |-> flow.path,
                            serial |-> flow.serial, pin |-> pin]
               /\ state' = "begin"
          ELSE UNCHANGED <<entry, state, changes>>
  /\ UNCHANGED <<worldVars, using, reload, reauth, clientVars>>

\* async_update_reload_and_abort.
UpdateAndReload(data) == entry' = data /\ reload' = TRUE

\* Mutant: whatever panel is picked.
ReconfigureToAny ==
  /\ entry # NoEntry /\ Changed
  /\ \E found \in EnumeratePanels, pin \in Pins :
       UpdateAndReload([entry EXCEPT !.path = found.path, !.serial = found.serial, !.pin = pin])
  /\ UNCHANGED <<worldVars, adding, state, using, reauth, clientVars>>

\* async_step_reconfigure: a panel of another unique id is refused.
Reconfigure ==
  /\ entry # NoEntry /\ Changed
  /\ \E found \in EnumeratePanels, pin \in Pins :
       /\ UniqueId(found) = entry.id
       /\ UpdateAndReload([entry EXCEPT !.path = found.path, !.serial = found.serial, !.pin = pin])
  /\ UNCHANGED <<worldVars, adding, state, using, reauth, clientVars>>

\* _handle_ui_control: a panel says WRONG_CODE while no user acts, whatever PIN
\* is stored, during a set-up too, and to a client of this entry that a set-up
\* has left behind: its coordinator goes on.
StartReauth ==
  /\ entry # NoEntry /\ ~reauth /\ reauth' = TRUE
  /\ \E c \in DOMAIN clients : c > old /\ clients[c].open /\ clients[c].on # Nowhere
  /\ UNCHANGED <<worldVars, adding, entry, state, using, reload, clientVars, changes>>

\* Mutant: the entry is updated but not reloaded.
ReauthConfirmOnly ==
  /\ reauth /\ Changed /\ reauth' = FALSE
  /\ \E pin \in Pins : entry' = [entry EXCEPT !.pin = pin]
  /\ UNCHANGED <<worldVars, adding, state, using, reload, clientVars>>

\* async_step_reauth_confirm.
ReauthConfirm ==
  /\ reauth /\ Changed /\ reauth' = FALSE
  /\ \E pin \in Pins : UpdateAndReload([entry EXCEPT !.pin = pin])
  /\ UNCHANGED <<worldVars, adding, state, using, clientVars>>

-----------------------------------------------------------------------------
(***************************************************************************)
(* Set-up, reload, unload, removal.                                        *)
(***************************************************************************)
\* async_setup_entry reads entry.data.
BeginSetup ==
  /\ state = "begin" /\ state' = "connect"
  /\ using' = [path |-> entry.path, pin |-> entry.pin]
  /\ UNCHANGED <<worldVars, adding, entry, reload, reauth, clientVars, changes>>

Connect ==
  /\ state = "connect" /\ state' = "connected"
  /\ \E p \in PanelsOn(using.path) :
       clients' = Append(clients, [path |-> using.path, pin |-> using.pin,
                                   on |-> p, open |-> TRUE])
  /\ UNCHANGED <<worldVars, adding, entry, using, reload, reauth, runtime, failed, old, changes>>

\* Mutant: a panel that is not there yet is an error.
ConnectFails ==
  /\ state = "connect" /\ PanelsOn(using.path) = {}
  /\ state' = "error"
  /\ UNCHANGED <<worldVars, adding, entry, using, reload, reauth, clientVars, changes>>

\* ConfigEntryNotReady.
ConnectLater ==
  /\ state = "connect" /\ PanelsOn(using.path) = {}
  /\ state' = "retry"
  /\ UNCHANGED <<worldVars, adding, entry, using, reload, reauth, clientVars, changes>>

FinishSetup ==
  /\ state = "connected" /\ state' = "loaded"
  /\ runtime' = Len(clients) /\ using' = Nothing
  /\ UNCHANGED <<worldVars, adding, entry, reload, reauth, clients, failed, old, changes>>

\* An exception of the export or the probe, which run if there is a PIN (see
\* Entry): nobody disconnects the client.
FailSetup ==
  /\ state = "connected" /\ using.pin # "none"
  /\ state' = "error" /\ using' = Nothing
  /\ failed' = failed \cup {Len(clients)}
  /\ UNCHANGED <<worldVars, adding, entry, reload, reauth, clients, runtime, old, changes>>

\* Mutant: the platforms are unloaded, the client is not disconnected.
UnloadPlatformsOnly(unloaded) ==
  runtime' = (IF unloaded THEN 0 ELSE runtime) /\ UNCHANGED clients

\* async_unload_entry: the client is disconnected if all platforms have been
\* unloaded.
UnloadEntry(unloaded) ==
  IF unloaded
  THEN runtime' = 0 /\ clients' = [clients EXCEPT ![runtime].open = FALSE,
                                                 ![runtime].on = Nowhere]
  ELSE UNCHANGED <<clients, runtime>>

Retry ==
  /\ state = "retry" /\ state' = "begin" /\ using' = Nothing
  /\ UNCHANGED <<worldVars, adding, entry, reload, reauth, clientVars, changes>>

\* Unload what is loaded, then set up.  An entry that cannot be unloaded is not
\* set up again.
Reload ==
  /\ reload /\ state \in {"loaded", "retry", "error", "stuck"}
  /\ reload' = FALSE /\ using' = Nothing
  /\ \/ /\ state = "loaded"
        /\ \E unloaded \in BOOLEAN :
             UnloadEntry(unloaded) /\ state' = IF unloaded THEN "begin" ELSE "stuck"
     \/ state \in {"retry", "error"} /\ state' = "begin" /\ UNCHANGED <<clients, runtime>>
     \/ state = "stuck" /\ UNCHANGED <<state, clients, runtime>>
  /\ UNCHANGED <<worldVars, adding, entry, reauth, failed, old, changes>>

\* The entry goes even if it cannot be unloaded.
Remove ==
  /\ state \in {"loaded", "retry", "error", "stuck"} /\ Changed
  /\ entry' = NoEntry /\ state' = "none" /\ using' = Nothing
  /\ reload' = FALSE /\ reauth' = FALSE
  /\ \/ state = "loaded" /\ UnloadEntry(TRUE) /\ UNCHANGED failed
     \/ state \in {"retry", "error"} /\ UNCHANGED <<clients, runtime, failed>>
     \/ /\ state \in {"loaded", "stuck"} /\ UNCHANGED clients
        /\ runtime' = 0 /\ failed' = failed \cup {runtime}
  /\ old' = Len(clients)
  /\ UNCHANGED <<worldVars, adding>>

\* Home Assistant ends, at whatever point, and starts again: the entry is what
\* it had stored.
Restart ==
  /\ entry # NoEntry /\ Changed
  /\ state' = "begin" /\ using' = Nothing /\ adding' = {}
  /\ reload' = FALSE /\ reauth' = FALSE
  /\ clients' = <<>> /\ runtime' = 0 /\ failed' = {} /\ old' = 0
  /\ UNCHANGED <<worldVars, entry>>

-----------------------------------------------------------------------------
FlowStep == Discover \/ Dismiss \/ Confirm \/ Reconfigure \/ StartReauth \/ ReauthConfirm

SetupStep == BeginSetup \/ Connect \/ ConnectLater \/ FinishSetup \/ FailSetup

\* Nothing left to do but wait for panels and users.
Rest ==
  /\ state \in {"none", "loaded", "error", "stuck"} /\ ~reload
  /\ UNCHANGED vars

Next ==
  \/ FlowStep \/ SetupStep \/ Retry \/ Reload \/ Remove \/ Restart
  \/ Plug \/ Unplug \/ \E c \in DOMAIN clients : Reconnect(c)
  \/ Rest

Spec == Init /\ [][Next]_vars

\* Home Assistant runs the set-up, the retry timer and the scheduled reload.
\* Users, panels and paths do as they like.
Fairness == WF_vars(SetupStep) /\ WF_vars(Retry) /\ WF_vars(Reload)

FairSpec == Spec /\ Fairness

-----------------------------------------------------------------------------
(***************************************************************************)
(* Properties.                                                             *)
(***************************************************************************)
\* As long as the kernel gives no path to two panels, the client of a loaded
\* entry is on the panel the entry was made for, known by its serial, or by its
\* path if it has none: through replugging, reconfiguring, reloads and retries.
\* Once a path is reused nothing tells the panels apart: the serial is compared
\* in the flow, and the client opens the path.
RightPanel ==
  state = "loaded" /\ ~reload /\ ~reused /\ clients[runtime].on # Nowhere =>
    entry.id = IF clients[runtime].on \in WithSerial THEN clients[runtime].on
               ELSE clients[runtime].path

\* A loaded entry with no reload to come runs with the path and PIN the user
\* stored last, whatever was stored while a set-up was under way.
EntryInEffect ==
  state = "loaded" /\ ~reload =>
    clients[runtime].path = entry.path /\ clients[runtime].pin = entry.pin

\* The clients that hold or reopen the device are the entry's own, the one of
\* a set-up under way, and one for each set-up that raised after connect or
\* removal that could not unload the platforms; any other reload, removal or
\* retry leaves none behind.
ClientsAccounted ==
  {c \in DOMAIN clients : clients[c].open} =
    failed \cup (IF runtime = 0 THEN {} ELSE {runtime})
      \cup (IF state = "connected" THEN {Len(clients)} ELSE {})

\* An entry whose path has a panel for good is set up in the end, with the
\* panel's earlier absence forgotten; only an exception after connect or a failed
\* unload, which are not retried, may stand in the way.
SetupRecovers ==
  <>[](entry # NoEntry /\ ProbeDevice(entry.path)) =>
    <>[](state \in {"loaded", "stuck"} \/ (state = "error" /\ Len(clients) \in failed))
=============================================================================
