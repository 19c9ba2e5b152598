-------------------------- MODULE ConfigFlowProof --------------------------
(***************************************************************************)
(* Proofs about module ConfigFlow, for any panels, paths and bounds.       *)
(***************************************************************************)
EXTENDS ConfigFlow, SequenceTheorems, TLAPS

USE DEF worldVars, clientVars, FlowVars

-----------------------------------------------------------------------------
(***************************************************************************)
(* The inductive invariant.                                                *)
(***************************************************************************)
\* While no path has been given to two panels, whoever is at a path is the
\* panel it was first given to.
AtInv == \A p \in Panels : at[p] # Nowhere => owner[at[p]] = p

\* What was found at a path is what is there.
Means(found) ==
  /\ owner[found.path] # Nowhere
  /\ found.serial = IF owner[found.path] \in WithSerial THEN owner[found.path] ELSE NoSerial

FoundInv ==
  /\ \A flow \in adding : Means(flow)
  /\ entry # NoEntry => Means(entry) /\ entry.id = UniqueId(entry)

OnInv == \A c \in DOMAIN clients : clients[c].on # Nowhere => owner[clients[c].path] = clients[c].on

PanelInv == ~reused => AtInv /\ FoundInv /\ OnInv

\* Where the entry stands, and whose data its set-up and its client have.
Current(data) == data.path = entry.path /\ data.pin = entry.pin

StateInv ==
  /\ state = "none" <=> entry = NoEntry
  /\ reload \/ reauth => entry # NoEntry
  /\ state \in {"loaded", "stuck"} <=> runtime # 0
  /\ state \in {"connect", "connected"} => using \in Data /\ (~reload => Current(using))
  /\ state = "connected" =>
       /\ clients # <<>>
       /\ clients[Len(clients)].path = using.path /\ clients[Len(clients)].pin = using.pin
       /\ Len(clients) \notin failed
  /\ runtime \notin failed
  /\ state = "loaded" /\ ~reload => Current(clients[runtime])

Inv == TypeOK /\ PanelInv /\ StateInv /\ ClientsAccounted

-----------------------------------------------------------------------------
(***************************************************************************)
(* What the steps do to the clients.                                       *)
(***************************************************************************)
\* A typed list of clients is a function on 1..Len(clients).
LEMMA ClientList ==
  ASSUME ClientTypes
  PROVE  /\ clients \in Seq(Client) /\ Len(clients) \in Nat
         /\ DOMAIN clients = 1..Len(clients)
         /\ \A c \in 1..Len(clients) : clients[c] \in Client
<1>1. clients \in Seq(Client)
  BY DEF ClientTypes
<1> QED
  BY <1>1, LenProperties, ElementOfSeq

\* Changing the clients one by one leaves a list of the same length.
LEMMA MapClients ==
  ASSUME NEW s \in Seq(Client), NEW t, t = [c \in DOMAIN s |-> t[c]],
         \A c \in DOMAIN s : t[c] \in Client
  PROVE  t \in Seq(Client) /\ Len(t) = Len(s) /\ DOMAIN t = DOMAIN s
<1>1. DOMAIN s = 1..Len(s) /\ Len(s) \in Nat
  BY LenProperties
<1>2. t \in [1..Len(s) -> Client]
  BY <1>1
<1>3. t \in Seq(Client)
  BY <1>1, <1>2, SeqDef
<1>4. Len(t) \in Nat /\ DOMAIN t = 1..Len(t)
  BY <1>3, LenProperties
<1>5. Len(t) = Len(s)
  BY <1>1, <1>2, <1>4
<1> QED
  BY <1>1, <1>3, <1>4, <1>5

\* Unplug: the clients of the panel lose it.
LEMMA UnplugClients ==
  ASSUME ClientTypes, Unplug
  PROVE  /\ clients' \in Seq(Client) /\ Len(clients') = Len(clients)
         /\ DOMAIN clients' = DOMAIN clients
         /\ \A c \in DOMAIN clients :
              /\ clients'[c].path = clients[c].path /\ clients'[c].pin = clients[c].pin
              /\ clients'[c].open = clients[c].open
              /\ clients'[c].on \in {clients[c].on, Nowhere}
<1>1. PICK p \in Panels :
        clients' = [c \in DOMAIN clients |->
                      IF clients[c].on = p THEN [clients[c] EXCEPT !.on = Nowhere]
                      ELSE clients[c]]
  BY DEF Unplug
<1>2. ASSUME NEW c \in DOMAIN clients
      PROVE  /\ clients'[c] \in Client
             /\ clients'[c].path = clients[c].path /\ clients'[c].pin = clients[c].pin
             /\ clients'[c].open = clients[c].open
             /\ clients'[c].on \in {clients[c].on, Nowhere}
  <2>1. clients[c] \in Client
    BY ClientList
  <2> QED
    BY <1>1, <2>1 DEF Client
<1>3. clients' = [c \in DOMAIN clients |-> clients'[c]]
  BY <1>1
<1> QED
  BY <1>2, <1>3, ClientList, MapClients

\* Reconnect: one open client is on the panel at its path.
LEMMA ReconnectClients ==
  ASSUME ClientTypes, NEW c \in DOMAIN clients, Reconnect(c)
  PROVE  /\ clients' \in Seq(Client) /\ Len(clients') = Len(clients)
         /\ DOMAIN clients' = DOMAIN clients
         /\ \A d \in DOMAIN clients :
              /\ clients'[d].path = clients[d].path /\ clients'[d].pin = clients[d].pin
              /\ clients'[d].open = clients[d].open
              /\ clients'[d].on = clients[d].on \/ clients'[d].on \in PanelsOn(clients[d].path)
<1>1. PICK p \in PanelsOn(clients[c].path) : clients' = [clients EXCEPT ![c].on = p]
  BY DEF Reconnect
<1>2. p \in Panels
  BY DEF PanelsOn
<1>3. ASSUME NEW d \in DOMAIN clients
      PROVE  /\ clients'[d] \in Client
             /\ clients'[d].path = clients[d].path /\ clients'[d].pin = clients[d].pin
             /\ clients'[d].open = clients[d].open
             /\ clients'[d].on = clients[d].on \/ clients'[d].on \in PanelsOn(clients[d].path)
  <2>1. clients[d] \in Client
    BY ClientList
  <2> QED
    BY <1>1, <1>2, <2>1 DEF Client
<1>4. clients' = [d \in DOMAIN clients |-> clients'[d]]
  BY <1>1
<1> QED
  BY <1>3, <1>4, ClientList, MapClients

\* UnloadEntry: one client is closed.
LEMMA UnloadClients ==
  ASSUME ClientTypes, UnloadEntry(TRUE), runtime # 0
  PROVE  /\ clients' \in Seq(Client) /\ Len(clients') = Len(clients)
         /\ DOMAIN clients' = DOMAIN clients /\ runtime \in DOMAIN clients
         /\ \A c \in DOMAIN clients :
              /\ clients'[c].path = clients[c].path
              /\ clients'[c].open = (clients[c].open /\ c # runtime)
              /\ clients'[c].on \in {clients[c].on, Nowhere}
<1>1. runtime \in DOMAIN clients
  BY ClientList DEF ClientTypes
<1>2. clients' = [clients EXCEPT ![runtime] =
                    [clients[runtime] EXCEPT !.open = FALSE, !.on = Nowhere]]
  BY <1>1 DEF UnloadEntry
<1>3. ASSUME NEW c \in DOMAIN clients
      PROVE  /\ clients'[c] \in Client
             /\ clients'[c].path = clients[c].path
             /\ clients'[c].open = (clients[c].open /\ c # runtime)
             /\ clients'[c].on \in {clients[c].on, Nowhere}
  <2>1. clients[c] \in Client
    BY ClientList
  <2>2. CASE c = runtime
    BY <1>1, <1>2, <2>1, <2>2 DEF Client
  <2>3. CASE c # runtime
    BY <1>2, <2>1, <2>3 DEF Client
  <2> QED
    BY <2>2, <2>3
<1>4. clients' = [c \in DOMAIN clients |-> clients'[c]]
  BY <1>2
<1> QED
  BY <1>1, <1>3, <1>4, ClientList, MapClients

\* Reload and Remove: the client is closed, kept, or left behind.
LEMMA UnloadedOrKept ==
  ASSUME StateInv, Reload \/ Remove
  PROVE  \/ UnloadEntry(TRUE) /\ state = "loaded" /\ runtime # 0 /\ runtime' = 0 /\ failed' = failed
         \/ UNCHANGED <<clients, runtime, failed>>
         \/ UNCHANGED clients /\ runtime # 0 /\ runtime' = 0 /\ failed' = failed \cup {runtime}
<1>1. CASE Reload
  <2>1. CASE state = "loaded"
    <3>1. PICK unloaded \in BOOLEAN : UnloadEntry(unloaded)
      BY <1>1, <2>1 DEF Reload
    <3>2. failed' = failed /\ runtime # 0
      BY <1>1, <2>1 DEF Reload, StateInv
    <3>3. CASE unloaded = TRUE
      BY <2>1, <3>1, <3>2, <3>3 DEF UnloadEntry
    <3>4. CASE unloaded = FALSE
      BY <3>1, <3>2, <3>4 DEF UnloadEntry
    <3> QED
      BY <3>3, <3>4
  <2>2. CASE state # "loaded"
    BY <1>1, <2>2 DEF Reload
  <2> QED
    BY <2>1, <2>2
<1>2. CASE Remove
  BY <1>2 DEF Remove, StateInv, UnloadEntry
<1> QED
  BY <1>1, <1>2

\* Connect: one more client, open, on a panel at the path.
LEMMA ConnectClients ==
  ASSUME ClientTypes, using \in Data, Connect
  PROVE  /\ clients' \in Seq(Client) /\ Len(clients') = Len(clients) + 1
         /\ DOMAIN clients' = 1..(Len(clients) + 1)
         /\ \A c \in DOMAIN clients : clients'[c] = clients[c]
         /\ LET new == clients'[Len(clients')] IN
              /\ new.path = using.path /\ new.pin = using.pin /\ new.open = TRUE
              /\ new.on \in PanelsOn(using.path)
<1>1. PICK p \in PanelsOn(using.path) :
        clients' = Append(clients, [path |-> using.path, pin |-> using.pin,
                                    on |-> p, open |-> TRUE])
  BY DEF Connect
<1>2. p \in Panels /\ using \in Data
  BY DEF PanelsOn
<1>3. [path |-> using.path, pin |-> using.pin, on |-> p, open |-> TRUE] \in Client
  BY <1>2 DEF Client, Data
<1> QED
  BY <1>1, <1>3, ClientList, AppendProperties

-----------------------------------------------------------------------------
(***************************************************************************)
(* Types.                                                                  *)
(***************************************************************************)
\* What is listed is at a path, with the serial of a panel or none.
LEMMA ListedIsFound ==
  ASSUME WorldTypes
  PROVE  EnumeratePanels \subseteq Found
BY ConfigFlowAssumption DEF EnumeratePanels, Describe, WorldTypes, Found

\* Panels and paths keep their types.
LEMMA NextWorldTypes ==
  ASSUME WorldTypes, Next
  PROVE  WorldTypes'
<1> USE DEF WorldTypes
<1>1. CASE FlowStep
  BY <1>1 DEF FlowStep, Discover, Dismiss, Confirm, Reconfigure, StartReauth, ReauthConfirm
<1>2. CASE SetupStep \/ Retry \/ Reload \/ Remove \/ Restart
  BY <1>2 DEF SetupStep, BeginSetup, Connect, ConnectLater, FinishSetup, FailSetup,
              Retry, Reload, Remove, Restart
<1>3. CASE Plug
  BY <1>3, ConfigFlowAssumption DEF Plug
<1>4. CASE Unplug
  BY <1>4 DEF Unplug
<1>5. CASE Rest \/ \E c \in DOMAIN clients : Reconnect(c)
  BY <1>5 DEF Rest, vars, Reconnect
<1> QED
  BY <1>1, <1>2, <1>3, <1>4, <1>5 DEF Next

\* The entry, its state and the flows keep their types.
LEMMA NextEntryTypes ==
  ASSUME TypeOK, StateInv, Next
  PROVE  EntryTypes'
<1> USE DEF EntryTypes
<1>t. WorldTypes /\ EntryTypes
  BY DEF TypeOK
<1>a. Changed => changes' \in 0..MaxChanges
  BY <1>t, ConfigFlowAssumption DEF Changed
<1>1. CASE Discover
  BY <1>t, <1>1, ListedIsFound DEF Discover
<1>2. CASE Dismiss
  BY <1>t, <1>2 DEF Dismiss
<1>3. CASE Confirm
  <2>1. PICK flow \in adding, pin \in Pins :
          /\ adding' = adding \ {flow}
          /\ IF entry = NoEntry
             THEN /\ Changed
                  /\ entry' = [id |-> UniqueId(flow), path |-> flow.path,
                               serial |-> flow.serial, pin |-> pin]
                  /\ state' = "begin"
             ELSE UNCHANGED <<entry, state, changes>>
    BY <1>3 DEF Confirm
  <2>2. /\ flow.path \in Paths /\ flow.serial \in WithSerial \cup {NoSerial}
        /\ UniqueId(flow) \in WithSerial \cup Paths
    BY <1>t DEF Found, UniqueId
  <2>3. CASE entry = NoEntry
    <3>1. entry' \in EntryData
      BY <2>1, <2>2, <2>3 DEF EntryData
    <3> QED
      BY <1>t, <1>a, <1>3, <2>1, <2>3, <3>1 DEF Confirm
  <2>4. CASE entry # NoEntry
    BY <1>t, <1>3, <2>1, <2>4 DEF Confirm
  <2> QED
    BY <2>3, <2>4
<1>4. CASE Reconfigure
  <2>1. PICK found \in EnumeratePanels, pin \in Pins :
          entry' = [entry EXCEPT !.path = found.path, !.serial = found.serial, !.pin = pin]
    BY <1>4 DEF Reconfigure, UpdateAndReload
  <2>2. found.path \in Paths /\ found.serial \in WithSerial \cup {NoSerial}
    BY <1>t, ListedIsFound DEF Found
  <2>3. entry' \in EntryData
    BY <1>t, <1>4, <2>1, <2>2 DEF Reconfigure, EntryData
  <2> QED
    BY <1>t, <1>a, <1>4, <2>3 DEF Reconfigure, UpdateAndReload
<1>5. CASE StartReauth
  BY <1>t, <1>5 DEF StartReauth
<1>6. CASE ReauthConfirm
  <2>1. entry \in EntryData
    BY <1>t, <1>6 DEF ReauthConfirm, StateInv
  <2>2. PICK pin \in Pins : entry' = [entry EXCEPT !.pin = pin]
    BY <1>6 DEF ReauthConfirm, UpdateAndReload
  <2>3. entry' \in EntryData
    BY <2>1, <2>2 DEF EntryData
  <2> QED
    BY <1>t, <1>a, <1>6, <2>3 DEF ReauthConfirm, UpdateAndReload
<1>7. CASE BeginSetup
  <2>1. entry \in EntryData
    BY <1>t, <1>7 DEF BeginSetup, StateInv
  <2> QED
    BY <1>t, <1>7, <2>1 DEF BeginSetup, EntryData, Data
<1>8. CASE Connect \/ ConnectLater \/ FinishSetup \/ FailSetup
  BY <1>t, <1>8 DEF Connect, ConnectLater, FinishSetup, FailSetup
<1>9. CASE Retry \/ Reload
  BY <1>t, <1>9 DEF Retry, Reload
<1>10. CASE Remove
  BY <1>t, <1>a, <1>10 DEF Remove
<1>11. CASE Restart
  BY <1>t, <1>a, <1>11 DEF Restart
<1>12. CASE Plug \/ Unplug \/ Rest \/ \E c \in DOMAIN clients : Reconnect(c)
  BY <1>t, <1>12 DEF Plug, Unplug, Rest, vars, Reconnect
<1> QED
  BY <1>1, <1>2, <1>3, <1>4, <1>5, <1>6, <1>7, <1>8, <1>9, <1>10, <1>11, <1>12
     DEF Next, FlowStep, SetupStep

\* The clients keep their types, and a list that has them stays one.
LEMMA NextClientTypes ==
  ASSUME ClientTypes, StateInv, Next
  PROVE  ClientTypes'
<1> USE DEF ClientTypes
<1>1. CASE FlowStep
  BY <1>1 DEF FlowStep, Discover, Dismiss, Confirm, Reconfigure, StartReauth, ReauthConfirm
<1>2. CASE BeginSetup \/ ConnectLater \/ Retry \/ Plug \/ Rest
  BY <1>2 DEF BeginSetup, ConnectLater, Retry, Plug, Rest, vars
<1>3. CASE Connect
  <2>1. using \in Data
    BY <1>3 DEF Connect, StateInv
  <2>2. clients' \in Seq(Client) /\ Len(clients') = Len(clients) + 1 /\ Len(clients) \in Nat
    BY <1>3, <2>1, ConnectClients, ClientList
  <2> QED
    BY <1>3, <2>2 DEF Connect
<1>4. CASE FinishSetup
  BY <1>4, ClientList DEF FinishSetup
<1>5. CASE FailSetup
  <2>1. Len(clients) \in 1..Len(clients)
    BY <1>5, ClientList, EmptySeq DEF FailSetup, StateInv
  <2> QED
    BY <1>5, <2>1 DEF FailSetup
<1>7. CASE Reload \/ Remove
  <2>1. Len(clients) \in Nat /\ (runtime # 0 => runtime \in 1..Len(clients))
    BY ClientList
  <2>2. \/ clients' = clients
        \/ clients' \in Seq(Client) /\ Len(clients') = Len(clients)
    BY <1>7, <2>1, UnloadedOrKept, UnloadClients
  <2>3. runtime' \in {0, runtime} /\ failed' \subseteq failed \cup ({runtime} \ {0})
    BY <1>7, UnloadedOrKept
  <2>4. old' \in {old, Len(clients)}
    BY <1>7 DEF Reload, Remove
  <2> QED
    BY <2>1, <2>2, <2>3, <2>4
<1>8. CASE Restart
  BY <1>8 DEF Restart
<1>9. CASE Unplug
  BY <1>9, UnplugClients DEF Unplug
<1>10. ASSUME NEW c \in DOMAIN clients, Reconnect(c)
       PROVE  ClientTypes'
  BY <1>10, ReconnectClients DEF Reconnect
<1> QED
  BY <1>1, <1>2, <1>3, <1>4, <1>5, <1>7, <1>8, <1>9, <1>10 DEF Next, SetupStep

-----------------------------------------------------------------------------
(***************************************************************************)
(* Panels.                                                                 *)
(***************************************************************************)
\* Steps other than Plug and Unplug leave panels and paths alone.
LEMMA WorldKept ==
  ASSUME Next, ~Plug, ~Unplug
  PROVE  UNCHANGED <<at, owner, reused, moves>>
BY DEF Next, FlowStep, Discover, Dismiss, Confirm, Reconfigure, StartReauth, ReauthConfirm,
       SetupStep, BeginSetup, Connect, ConnectLater, FinishSetup, FailSetup,
       Retry, Reload, Remove, Restart, Reconnect, Rest, vars

\* A path that was given away stays its first panel's in the books.
LEMMA OwnerKept ==
  ASSUME WorldTypes, Next
  PROVE  /\ reused => reused'
         /\ \A path \in Paths : owner[path] # Nowhere => owner'[path] = owner[path]
<1>1. CASE Plug
  BY <1>1 DEF Plug, WorldTypes
<1>2. CASE Unplug
  BY <1>2 DEF Unplug
<1>3. CASE ~Plug /\ ~Unplug
  BY <1>3, WorldKept
<1> QED
  BY <1>1, <1>2, <1>3

\* Whoever is plugged in, on a path that is not reused, is its owner.
LEMMA NextAt ==
  ASSUME WorldTypes, AtInv, Next, ~reused'
  PROVE  AtInv'
<1> USE DEF AtInv
<1>1. CASE Plug
  <2>1. PICK p \in Panels, path \in Paths :
          /\ at' = [at EXCEPT ![p] = path]
          /\ owner' = [owner EXCEPT ![path] = IF @ = Nowhere THEN p ELSE @]
          /\ reused' = (reused \/ owner[path] \notin {Nowhere, p})
    BY <1>1 DEF Plug
  <2>2. owner'[path] = p
    BY <2>1 DEF WorldTypes
  <2>3. ASSUME NEW q \in Panels, at'[q] # Nowhere PROVE owner'[at'[q]] = q
    <3>1. CASE q = p
      BY <2>1, <2>2, <3>1 DEF WorldTypes
    <3>2. CASE q # p
      <4>1. at'[q] = at[q] /\ at[q] \in Paths /\ owner[at[q]] = q
        BY <2>1, <2>3, <3>2 DEF WorldTypes
      <4>2. owner[at[q]] # Nowhere
        BY <4>1, ConfigFlowAssumption
      <4> QED
        BY <4>1, <4>2, OwnerKept
    <3> QED
      BY <3>1, <3>2
  <2> QED
    BY <2>3
<1>2. CASE Unplug
  BY <1>2 DEF Unplug, WorldTypes
<1>3. CASE ~Plug /\ ~Unplug
  BY <1>3, WorldKept
<1> QED
  BY <1>1, <1>2, <1>3

\* What is listed now describes the owner of its path.
LEMMA ListedMeans ==
  ASSUME WorldTypes, AtInv
  PROVE  \A found \in EnumeratePanels : Means(found)
<1>1. ASSUME NEW p \in Panels, at[p] # Nowhere PROVE Means(Describe(p))
  <2>1. owner[at[p]] = p
    BY <1>1 DEF AtInv
  <2>2. p # Nowhere
    BY ConfigFlowAssumption
  <2> QED
    BY <2>1, <2>2 DEF Means, Describe
<1> QED
  BY <1>1 DEF EnumeratePanels

\* It goes on doing so.
LEMMA MeansKept ==
  ASSUME WorldTypes, Next, NEW found, found.path \in Paths, Means(found)
  PROVE  /\ owner'[found.path] # Nowhere
         /\ found.serial = IF owner'[found.path] \in WithSerial THEN owner'[found.path]
                           ELSE NoSerial
BY OwnerKept DEF Means

\* The flows' panels and the entry describe owners.
LEMMA NextFound ==
  ASSUME TypeOK, StateInv, AtInv, FoundInv, Next
  PROVE  FoundInv'
<1> DEFINE Lasting(found) ==
      /\ owner'[found.path] # Nowhere
      /\ found.serial = IF owner'[found.path] \in WithSerial THEN owner'[found.path] ELSE NoSerial
<1>t. WorldTypes /\ EntryTypes
  BY DEF TypeOK
<1>1. /\ \A flow \in adding : Lasting(flow)
      /\ \A found \in EnumeratePanels : Lasting(found)
      /\ entry # NoEntry => Lasting(entry)
  BY <1>t, MeansKept, ListedMeans, ListedIsFound DEF FoundInv, EntryTypes, Found, EntryData
<1>2. \A flow \in adding' : Lasting(flow)
  <2>1. CASE Discover
    BY <1>1, <2>1 DEF Discover
  <2>2. CASE ~Discover
    <3>1. adding' \subseteq adding
      BY <2>2 DEF Next, FlowStep, Dismiss, Confirm, Reconfigure, StartReauth, ReauthConfirm,
         SetupStep, BeginSetup, Connect, ConnectLater, FinishSetup, FailSetup,
         Retry, Reload, Remove, Restart, Plug, Unplug, Reconnect, Rest, vars
    <3> QED
      BY <1>1, <3>1
  <2> QED
    BY <2>1, <2>2
<1>3. entry' # NoEntry => Lasting(entry') /\ entry'.id = UniqueId(entry')
  <2>1. CASE Confirm
    <3>1. CASE entry = NoEntry
      <4>1. PICK flow \in adding, pin \in Pins :
              entry' = [id |-> UniqueId(flow), path |-> flow.path,
                        serial |-> flow.serial, pin |-> pin]
        BY <2>1, <3>1 DEF Confirm
      <4> QED
        BY <1>1, <4>1 DEF UniqueId
    <3>2. CASE entry # NoEntry
      BY <1>1, <2>1, <3>2 DEF Confirm, FoundInv
    <3> QED
      BY <3>1, <3>2
  <2>2. CASE Reconfigure
    <3>1. PICK found \in EnumeratePanels, pin \in Pins :
            /\ UniqueId(found) = entry.id
            /\ entry' = [entry EXCEPT !.path = found.path, !.serial = found.serial, !.pin = pin]
      BY <2>2 DEF Reconfigure, UpdateAndReload
    <3>2. entry'.id = entry.id /\ entry'.path = found.path /\ entry'.serial = found.serial
      BY <1>t, <2>2, <3>1 DEF Reconfigure, EntryTypes, EntryData
    <3> QED
      BY <1>1, <3>1, <3>2 DEF UniqueId
  <2>3. CASE ReauthConfirm
    <3>1. PICK pin \in Pins : entry' = [entry EXCEPT !.pin = pin]
      BY <2>3 DEF ReauthConfirm, UpdateAndReload
    <3>2. entry \in EntryData /\ entry # NoEntry
      BY <1>t, <2>3 DEF ReauthConfirm, StateInv, EntryTypes
    <3>3. entry'.id = entry.id /\ entry'.path = entry.path /\ entry'.serial = entry.serial
      BY <3>1, <3>2 DEF EntryData
    <3> QED
      BY <1>1, <3>2, <3>3 DEF FoundInv, UniqueId
  <2>4. CASE Remove
    BY <2>4 DEF Remove
  <2>5. CASE ~Confirm /\ ~Reconfigure /\ ~ReauthConfirm /\ ~Remove
    <3>1. entry' = entry
      BY <2>5 DEF Next, FlowStep, Discover, Dismiss, StartReauth,
         SetupStep, BeginSetup, Connect, ConnectLater, FinishSetup, FailSetup,
         Retry, Reload, Restart, Plug, Unplug, Reconnect, Rest, vars
    <3> QED
      BY <1>1, <3>1 DEF FoundInv, UniqueId
  <2> QED
    BY <2>1, <2>2, <2>3, <2>4, <2>5
<1> QED
  BY <1>2, <1>3 DEF FoundInv, Means, UniqueId

-----------------------------------------------------------------------------
(***************************************************************************)
(* Clients.                                                                *)
(***************************************************************************)
\* Steps that are not about clients.
QuietStep ==
  \/ FlowStep \/ BeginSetup \/ ConnectLater \/ FinishSetup \/ FailSetup \/ Retry \/ Plug \/ Rest

\* They leave the list as it is.
LEMMA QuietClients ==
  ASSUME QuietStep
  PROVE  clients' = clients
BY DEF QuietStep, FlowStep, Discover, Dismiss, Confirm, Reconfigure, StartReauth, ReauthConfirm,
       BeginSetup, ConnectLater, FinishSetup, FailSetup, Retry, Plug, Rest, vars

\* Clients are on the owners of their paths.
LEMMA NextOn ==
  ASSUME TypeOK, StateInv, AtInv, OnInv, Next
  PROVE  OnInv'
<1>t. WorldTypes /\ ClientTypes
  BY DEF TypeOK
<1>1. ASSUME NEW c \in DOMAIN clients
      PROVE  /\ clients[c].path \in Paths
             /\ clients[c].on # Nowhere => owner'[clients[c].path] = clients[c].on
  <2>1. clients[c] \in Client
    BY <1>t, ClientList
  <2> QED
    BY <1>t, <2>1, OwnerKept DEF OnInv, Client
<1>2. ASSUME NEW path \in Paths, NEW p \in PanelsOn(path)
      PROVE  owner[path] = p
  BY ConfigFlowAssumption DEF PanelsOn, AtInv
<1>3. CASE QuietStep
  BY <1>1, <1>3, QuietClients DEF OnInv
<1>4. CASE Unplug
  BY <1>t, <1>1, <1>4, UnplugClients DEF OnInv
<1>5. ASSUME NEW c \in DOMAIN clients, Reconnect(c)
      PROVE  OnInv'
  <2>1. owner' = owner
    BY <1>5 DEF Reconnect
  <2> QED
    BY <1>t, <1>1, <1>2, <1>5, <2>1, ReconnectClients DEF OnInv
<1>6. CASE Connect
  <2>1. owner' = owner /\ using \in Data /\ using.path \in Paths
    BY <1>6 DEF Connect, StateInv, Data
  <2>2. /\ Len(clients') = Len(clients) + 1 /\ DOMAIN clients' = 1..(Len(clients) + 1)
        /\ \A c \in DOMAIN clients : clients'[c] = clients[c]
        /\ clients'[Len(clients')].path = using.path
        /\ clients'[Len(clients')].on \in PanelsOn(using.path)
    BY <1>t, <1>6, <2>1, ConnectClients
  <2>3. \A c \in DOMAIN clients' : c \in DOMAIN clients \/ c = Len(clients')
    BY <1>t, <2>2, ClientList
  <2> QED
    BY <1>1, <1>2, <2>1, <2>2, <2>3 DEF OnInv
<1>7. CASE Reload \/ Remove
  <2>1. CASE UnloadEntry(TRUE) /\ runtime # 0
    BY <1>t, <1>1, <2>1, UnloadClients DEF OnInv
  <2>2. CASE UNCHANGED clients
    BY <1>1, <2>2 DEF OnInv
  <2> QED
    BY <1>7, <2>1, <2>2, UnloadedOrKept
<1>8. CASE Restart
  BY <1>8 DEF Restart, OnInv
<1> QED
  BY <1>3, <1>4, <1>5, <1>6, <1>7, <1>8 DEF Next, QuietStep, SetupStep

\* No step takes an open client from the account or adds one to it.
LEMMA NextAccounted ==
  ASSUME TypeOK, StateInv, ClientsAccounted, Next
  PROVE  ClientsAccounted'
<1>t. ClientTypes
  BY DEF TypeOK
<1> DEFINE Open == {c \in DOMAIN clients : clients[c].open}
<1>1. CASE FlowStep \/ BeginSetup \/ ConnectLater \/ Retry \/ Plug \/ Rest
  <2>1. UNCHANGED <<clients, runtime, failed>>
    BY <1>1 DEF FlowStep, Discover, Dismiss, Confirm, Reconfigure, StartReauth, ReauthConfirm,
                BeginSetup, ConnectLater, Retry, Plug, Rest, vars
  <2>2. state' = "connected" <=> state = "connected"
    BY <1>1 DEF FlowStep, Discover, Dismiss, Confirm, Reconfigure, StartReauth, ReauthConfirm,
                BeginSetup, ConnectLater, Retry, Plug, Rest, vars, StateInv
  <2> QED
    BY <2>1, <2>2 DEF ClientsAccounted
<1>2. CASE FinishSetup
  <2>1. runtime = 0 /\ Len(clients) # 0
    BY <1>t, <1>2, ClientList DEF FinishSetup, StateInv, ClientTypes
  <2> QED
    BY <1>2, <2>1 DEF FinishSetup, ClientsAccounted
<1>3. CASE FailSetup
  BY <1>3 DEF FailSetup, ClientsAccounted
<1>4. CASE Unplug
  <2>1. UNCHANGED <<runtime, failed, state>>
    BY <1>4 DEF Unplug
  <2> QED
    BY <1>t, <1>4, <2>1, UnplugClients DEF ClientsAccounted
<1>5. ASSUME NEW c \in DOMAIN clients, Reconnect(c)
      PROVE  ClientsAccounted'
  <2>1. UNCHANGED <<runtime, failed, state>>
    BY <1>5 DEF Reconnect
  <2> QED
    BY <1>t, <1>5, <2>1, ReconnectClients DEF ClientsAccounted
<1>6. CASE Connect
  <2>1. using \in Data /\ runtime = 0
    BY <1>6 DEF Connect, StateInv
  <2>2. /\ Len(clients') = Len(clients) + 1 /\ DOMAIN clients' = 1..(Len(clients) + 1)
        /\ \A c \in DOMAIN clients : clients'[c] = clients[c]
        /\ clients'[Len(clients')].open = TRUE
    BY <1>t, <1>6, <2>1, ConnectClients
  <2>3. DOMAIN clients' = DOMAIN clients \cup {Len(clients')}
    BY <1>t, <2>2, ClientList
  <2>4. {c \in DOMAIN clients' : clients'[c].open} = Open \cup {Len(clients')}
    BY <2>2, <2>3
  <2>5. Open = failed
    BY <1>6, <2>1 DEF Connect, ClientsAccounted
  <2> QED
    BY <1>6, <2>1, <2>4, <2>5 DEF Connect, ClientsAccounted
<1>7. CASE Reload \/ Remove
  <2>1. state # "connected" /\ state' # "connected"
    BY <1>7 DEF Reload, Remove
  <2>2. Open = failed \cup (IF runtime = 0 THEN {} ELSE {runtime})
    BY <2>1 DEF ClientsAccounted
  <2>3. CASE UnloadEntry(TRUE) /\ runtime # 0 /\ runtime' = 0 /\ failed' = failed
    <3>1. {c \in DOMAIN clients' : clients'[c].open} = Open \ {runtime}
      BY <1>t, <2>3, UnloadClients
    <3>2. runtime \notin failed
      BY DEF StateInv
    <3> QED
      BY <2>1, <2>2, <2>3, <3>1, <3>2 DEF ClientsAccounted
  <2>4. CASE UNCHANGED <<clients, runtime, failed>>
    BY <2>1, <2>4 DEF ClientsAccounted
  <2>5. CASE UNCHANGED clients /\ runtime # 0 /\ runtime' = 0 /\ failed' = failed \cup {runtime}
    BY <2>1, <2>2, <2>5 DEF ClientsAccounted
  <2> QED
    BY <1>7, <2>3, <2>4, <2>5, UnloadedOrKept
<1>8. CASE Restart
  BY <1>8 DEF Restart, ClientsAccounted
<1> QED
  BY <1>1, <1>2, <1>3, <1>4, <1>5, <1>6, <1>7, <1>8 DEF Next, SetupStep

-----------------------------------------------------------------------------
(***************************************************************************)
(* The entry's state.                                                      *)
(***************************************************************************)
\* Each state of the entry has what it needs: data, a client, a runtime.
LEMMA NextState ==
  ASSUME TypeOK, StateInv, Next
  PROVE  StateInv'
<1>t. EntryTypes /\ ClientTypes /\ Len(clients) \in Nat
  BY ClientList DEF TypeOK
<1>1. CASE Discover \/ Dismiss \/ Plug \/ Rest
  BY <1>1 DEF Discover, Dismiss, Plug, Rest, vars, StateInv, Current
<1>2. CASE Confirm
  <2>1. CASE entry = NoEntry
    <3>1. PICK flow \in adding, pin \in Pins :
            entry' = [id |-> UniqueId(flow), path |-> flow.path,
                      serial |-> flow.serial, pin |-> pin]
      BY <1>2, <2>1 DEF Confirm
    <3>2. entry'.path \in Paths
      BY <1>t, <3>1 DEF EntryTypes, Found
    <3>3. entry' # NoEntry
      BY <3>2, ConfigFlowAssumption DEF NoEntry
    <3>4. state' = "begin" /\ runtime' = runtime /\ runtime = 0 /\ failed' = failed
      BY <1>2, <2>1 DEF Confirm, StateInv
    <3> QED
      BY <3>3, <3>4 DEF StateInv
  <2>2. CASE entry # NoEntry
    BY <1>2, <2>2 DEF Confirm, StateInv, Current
  <2> QED
    BY <2>1, <2>2
<1>3. CASE Reconfigure \/ ReauthConfirm
  <2>1. entry # NoEntry
    BY <1>3 DEF Reconfigure, ReauthConfirm, StateInv
  <2>2. entry'.path \in Paths
    <3>1. CASE Reconfigure
      <4>1. PICK found \in EnumeratePanels, pin \in Pins :
              entry' = [entry EXCEPT !.path = found.path, !.serial = found.serial, !.pin = pin]
        BY <3>1 DEF Reconfigure, UpdateAndReload
      <4> QED
        BY <1>t, <2>1, <4>1, ListedIsFound DEF EntryTypes, EntryData, Found, TypeOK
    <3>2. CASE ReauthConfirm
      <4>1. PICK pin \in Pins : entry' = [entry EXCEPT !.pin = pin]
        BY <3>2 DEF ReauthConfirm, UpdateAndReload
      <4> QED
        BY <1>t, <2>1, <4>1 DEF EntryTypes, EntryData
    <3> QED
      BY <1>3, <3>1, <3>2
  <2>3. entry' # NoEntry
    BY <2>2, ConfigFlowAssumption DEF NoEntry
  <2>4. reload' = TRUE /\ UNCHANGED <<state, using, clientVars>>
    BY <1>3 DEF Reconfigure, ReauthConfirm, UpdateAndReload
  <2> QED
    BY <2>1, <2>3, <2>4 DEF StateInv
<1>4. CASE StartReauth
  BY <1>4 DEF StartReauth, StateInv, Current
<1>5. CASE BeginSetup
  <2>1. entry \in EntryData
    BY <1>t, <1>5 DEF BeginSetup, StateInv, EntryTypes
  <2>2. using' \in Data /\ using'.path = entry.path /\ using'.pin = entry.pin
    BY <1>5, <2>1 DEF BeginSetup, EntryData, Data
  <2> QED
    BY <1>5, <2>2 DEF BeginSetup, StateInv, Current
<1>6. CASE Connect
  <2>1. using \in Data /\ runtime = 0
    BY <1>6 DEF Connect, StateInv
  <2>2. /\ clients' \in Seq(Client) /\ Len(clients') = Len(clients) + 1
        /\ clients'[Len(clients')].path = using.path
        /\ clients'[Len(clients')].pin = using.pin
    BY <1>t, <1>6, <2>1, ConnectClients
  <2>3. clients' # <<>> /\ Len(clients') \notin failed
    BY <1>t, <2>2 DEF ClientTypes
  <2> QED
    BY <1>6, <2>1, <2>2, <2>3 DEF Connect, StateInv, Current
<1>7. CASE ConnectLater \/ Retry
  BY <1>7 DEF ConnectLater, Retry, StateInv
<1>8. CASE FinishSetup
  <2>1. Len(clients) # 0
    BY <1>t, <1>8 DEF FinishSetup, StateInv, ClientTypes
  <2> QED
    BY <1>8, <2>1 DEF FinishSetup, StateInv, Current
<1>9. CASE FailSetup
  BY <1>9 DEF FailSetup, StateInv
<1>10. CASE Reload
  <2>1. entry' = entry /\ entry # NoEntry /\ reload' = FALSE /\ reauth' = reauth /\ failed' = failed
    BY <1>10 DEF Reload, StateInv
  <2>2. 0 \notin failed /\ runtime \notin failed
    BY <1>t DEF ClientTypes, StateInv
  <2>3. CASE state = "loaded"
    <3>1. PICK unloaded \in BOOLEAN :
            UnloadEntry(unloaded) /\ state' = IF unloaded THEN "begin" ELSE "stuck"
      BY <1>10, <2>3 DEF Reload
    <3>2. runtime # 0
      BY <2>3 DEF StateInv
    <3>3. CASE unloaded = TRUE
      BY <2>1, <2>2, <3>1, <3>3 DEF UnloadEntry, StateInv
    <3>4. CASE unloaded = FALSE
      BY <2>1, <2>2, <3>1, <3>2, <3>4 DEF UnloadEntry, StateInv
    <3> QED
      BY <3>3, <3>4
  <2>4. CASE state \in {"retry", "error"}
    <3>1. state' = "begin" /\ UNCHANGED <<clients, runtime>> /\ runtime = 0
      BY <1>10, <2>4 DEF Reload, StateInv
    <3> QED
      BY <2>1, <2>2, <3>1 DEF StateInv
  <2>5. CASE state = "stuck"
    <3>1. UNCHANGED <<state, clients, runtime>> /\ runtime # 0
      BY <1>10, <2>5 DEF Reload, StateInv
    <3> QED
      BY <2>1, <2>2, <2>5, <3>1 DEF StateInv
  <2> QED
    BY <1>10, <2>3, <2>4, <2>5 DEF Reload
<1>11. CASE Remove
  <2>1. state' = "none" /\ entry' = NoEntry /\ reload' = FALSE /\ reauth' = FALSE
    BY <1>11 DEF Remove
  <2>3. runtime' = 0
    <3>1. UnloadEntry(TRUE) => runtime' = 0
      BY DEF UnloadEntry
    <3>2. state \in {"retry", "error"} => runtime = 0
      BY DEF StateInv
    <3> QED
      BY <1>11, <3>1, <3>2 DEF Remove
  <2>2. 0 \notin failed'
    <3>1. 0 \notin failed
      BY <1>t DEF ClientTypes
    <3>2. failed' = failed \/ (failed' = failed \cup {runtime} /\ runtime # 0)
      BY <1>11, UnloadedOrKept
    <3> QED
      BY <3>1, <3>2
  <2> QED
    BY <2>1, <2>2, <2>3 DEF StateInv
<1>12. CASE Restart
  BY <1>12 DEF Restart, StateInv
<1>13. ASSUME UNCHANGED <<entry, state, using, reload, reauth, runtime, failed>>,
              Len(clients') = Len(clients), clients' \in Seq(Client),
              \A c \in DOMAIN clients :
                clients'[c].path = clients[c].path /\ clients'[c].pin = clients[c].pin
       PROVE  StateInv'
  <2>1. clients # <<>> => Len(clients) \in DOMAIN clients /\ clients' # <<>>
    BY <1>t, <1>13, ClientList DEF ClientTypes
  <2>2. runtime # 0 => runtime \in DOMAIN clients
    BY <1>t, ClientList DEF ClientTypes
  <2> QED
    BY <1>13, <2>1, <2>2 DEF StateInv, Current
<1>14. CASE Unplug
  BY <1>t, <1>13, <1>14, UnplugClients DEF Unplug
<1>15. ASSUME NEW c \in DOMAIN clients, Reconnect(c)
       PROVE  StateInv'
  BY <1>t, <1>13, <1>15, ReconnectClients DEF Reconnect
<1> QED
  BY <1>1, <1>2, <1>3, <1>4, <1>5, <1>6, <1>7, <1>8, <1>9, <1>10, <1>11, <1>12, <1>14, <1>15
     DEF Next, FlowStep, SetupStep

-----------------------------------------------------------------------------
(***************************************************************************)
(* The theorems.                                                           *)
(***************************************************************************)
\* The invariant holds when nothing is set up, and every step keeps it.
THEOREM FlowInvariant == Spec => []Inv
<1>1. Init => Inv
  <2> SUFFICES ASSUME Init PROVE Inv
    OBVIOUS
  <2>z. 0 \in 0..MaxMoves /\ 0 \in 0..MaxChanges
    BY ConfigFlowAssumption
  <2>1. WorldTypes
    BY <2>z DEF Init, WorldTypes
  <2>2. EntryTypes
    BY <2>z DEF Init, EntryTypes
  <2>3. ClientTypes
    BY DEF Init, ClientTypes
  <2>4. PanelInv
    BY DEF Init, PanelInv, AtInv, FoundInv, OnInv
  <2>5. StateInv /\ ClientsAccounted
    BY DEF Init, StateInv, ClientsAccounted
  <2> QED
    BY <2>1, <2>2, <2>3, <2>4, <2>5 DEF Inv, TypeOK
<1>2. Inv /\ [Next]_vars => Inv'
  <2> SUFFICES ASSUME Inv, [Next]_vars PROVE Inv'
    OBVIOUS
  <2>1. CASE Next
    <3>1. TypeOK' /\ StateInv' /\ ClientsAccounted'
      BY <2>1, NextWorldTypes, NextEntryTypes, NextClientTypes, NextState, NextAccounted
         DEF Inv, TypeOK
    <3>2. PanelInv'
      BY <2>1, OwnerKept, NextAt, NextFound, NextOn DEF Inv, TypeOK, PanelInv
    <3> QED
      BY <3>1, <3>2 DEF Inv
  <2>2. CASE UNCHANGED vars
    BY <2>2 DEF vars, Inv, TypeOK, WorldTypes, EntryTypes, ClientTypes, PanelInv, AtInv,
                FoundInv, OnInv, Means, StateInv, Current, ClientsAccounted, UniqueId
  <2> QED
    BY <2>1, <2>2
<1> QED
  BY <1>1, <1>2, PTL DEF Spec

\* Every variable of the flows keeps its type.
THEOREM FlowTypeCorrect == Spec => []TypeOK
BY FlowInvariant, PTL DEF Inv

\* While no path is reused, the client of a loaded entry is on its panel.
THEOREM RightPanelCorrect == Spec => []RightPanel
<1>1. Inv => RightPanel
  <2> SUFFICES ASSUME Inv, state = "loaded", ~reload, ~reused, clients[runtime].on # Nowhere
               PROVE  entry.id = IF clients[runtime].on \in WithSerial THEN clients[runtime].on
                                 ELSE clients[runtime].path
    BY DEF RightPanel
  <2>1. clients[runtime].path = entry.path /\ entry # NoEntry
    BY DEF Inv, StateInv, Current
  <2>2. runtime \in DOMAIN clients
    BY ClientList DEF Inv, TypeOK, ClientTypes, StateInv
  <2>3. owner[entry.path] = clients[runtime].on
    BY <2>1, <2>2 DEF Inv, PanelInv, OnInv
  <2>4. Means(entry) /\ entry.id = UniqueId(entry)
    BY <2>1 DEF Inv, PanelInv, FoundInv
  <2> QED
    BY <2>1, <2>3, <2>4, ConfigFlowAssumption DEF Means, UniqueId, NoSerial
<1> QED
  BY <1>1, FlowInvariant, PTL

\* A loaded entry runs with what the user stored last.
THEOREM EntryInEffectCorrect == Spec => []EntryInEffect
<1>1. Inv => EntryInEffect
  BY DEF Inv, StateInv, Current, EntryInEffect
<1> QED
  BY <1>1, FlowInvariant, PTL

\* Only a set-up that raised after connect leaves a client behind.
THEOREM ClientsAccountedCorrect == Spec => []ClientsAccounted
BY FlowInvariant, PTL DEF Inv
=============================================================================
