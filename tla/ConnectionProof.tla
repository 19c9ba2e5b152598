-------------------------- MODULE ConnectionProof --------------------------
(***************************************************************************)
(* Proofs about module Connection, for any command threads, any number of  *)
(* descriptors, unplugs and foreign files.                                 *)
(***************************************************************************)
EXTENDS Connection, FiniteSetTheorems, SequenceTheorems, TLAPS

USE DEF clientVars, writeVars, ownerVars, loopVars, worldVars

-----------------------------------------------------------------------------
(***************************************************************************)
(* The inductive invariant.                                                *)
(***************************************************************************)
Closed == {"forget", "unset", "assignDown", "tellDown", "disconnected"}

Leaving == {"stopping", "close"} \cup Closed

Opening == {"new", "opened", "assignUp", "tellUp", "start", "failed"}

\* The stop event is set by disconnect and stays; there is no reader before the
\* owner has started one; unless the join gave up the reader has gone when the
\* owner closes.  So one thread announces at a time.
ThreadInv ==
  /\ stop <=> owner \in Leaving
  /\ owner \in Opening <=> reader = "none"
  /\ wired => reader # "none"
  /\ gaveUp => owner \in Leaving \ {"stopping"}
  /\ owner \in Leaving \ {"stopping"} /\ ~gaveUp => reader = "exited"

Reconnecting == {"forget", "unset", "assignDown", "tellDown", "wait", "open"}

\* The handle of the panel is in self._fd wherever it may be closed next, and
\* there is none where one may be opened next.
HandleInv ==
  /\ owner \in {"new", "failed"} => PanelHandles = {} /\ fd = None
  /\ \A m, n \in PanelHandles : m = n
  /\ ~gaveUp \/ reader \in {"read", "close"} => \A n \in PanelHandles : fd = n
  /\ reader \in Reconnecting => PanelHandles = {}
  /\ owner \in Closed /\ (~gaveUp \/ reader \in {"read", "close"}) => PanelHandles = {}
  /\ FdNamesThePanel

\* Unless the join gave up, a thread that tells of a change tells of the last one.
TellInv ==
  ~gaveUp =>
    /\ owner = "tellUp" \/ reader = "tellUp" => connected
    /\ owner \in {"tellDown", "disconnected"} \/ reader = "tellDown" => ~connected

\* Before the callbacks are set nothing is posted and nothing known.
LoopInv == ~wired => posted = <<>> /\ ~known

Inv == TypeOK /\ ThreadInv /\ HandleInv /\ TellInv /\ LoopInv /\ ChangesArriveInOrder

-----------------------------------------------------------------------------
(***************************************************************************)
(* Opening, closing, announcing.                                           *)
(***************************************************************************)
\* An open adds one handle, the one in self._fd.
LEMMA Opened ==
  ASSUME HandleTypes, OpenDevice
  PROVE  /\ plugged /\ fd' \in Fds /\ table' \in [Fds -> {"free", "live", "dead", "foreign"}]
         /\ PanelHandles' = PanelHandles \cup {fd'} /\ table'[fd'] = "live"
         /\ \A n \in Fds : table[n] = "foreign" => table'[n] = "foreign"
<1>1. PICK n \in Fds : Free(n) /\ table' = [table EXCEPT ![n] = "live"] /\ fd' = n
  BY DEF OpenDevice
<1> QED
  BY <1>1 DEF OpenDevice, HandleTypes, PanelHandles, Free

\* A close takes away the one in self._fd, and touches no other number.
LEMMA Gone ==
  ASSUME HandleTypes, CloseDevice
  PROVE  /\ table' \in [Fds -> {"free", "live", "dead", "foreign"}]
         /\ PanelHandles' = PanelHandles \ {fd}
         /\ \A n \in Fds : n # fd => table'[n] = table[n]
<1>1. CASE fd # None /\ table[fd] # "free"
  BY <1>1 DEF CloseDevice, HandleTypes, PanelHandles
<1>2. CASE ~(fd # None /\ table[fd] # "free")
  <2>1. table' = table
    BY <1>2 DEF CloseDevice
  <2>2. fd \notin PanelHandles
    BY <1>2 DEF PanelHandles, Fds, None
  <2> QED
    BY <2>1, <2>2 DEF HandleTypes, PanelHandles
<1> QED
  BY <1>1, <1>2

\* What the bus and others do leaves the panel's handles open.
LEMMA WorldHandles ==
  ASSUME HandleTypes, WorldStep
  PROVE  /\ table' \in [Fds -> {"free", "live", "dead", "foreign"}]
         /\ PanelHandles' = PanelHandles
         /\ \A n \in Fds : table[n] = "foreign" => table'[n] = "foreign"
         /\ \A n \in Fds : table[n] = "live" /\ unplugs' = unplugs => table'[n] = "live"
<1> USE DEF HandleTypes, PanelHandles
<1>1. CASE Unplug
  <2>1. unplugs' # unplugs
    BY <1>1 DEF Unplug
  <2> QED
    BY <1>1, <2>1 DEF Unplug
<1>2. CASE Replug
  BY <1>2 DEF Replug
<1>3. CASE OpenForeign
  <2>1. PICK n \in Fds : Free(n) /\ table' = [table EXCEPT ![n] = "foreign"]
    BY <1>3 DEF OpenForeign
  <2> QED
    BY <2>1 DEF Free
<1> QED
  BY <1>1, <1>2, <1>3 DEF WorldStep

\* A change is posted behind the others, if the coordinator can be told.
LEMMA Told ==
  ASSUME posted \in Seq(BOOLEAN), LoopInv, NEW value \in BOOLEAN, Tell(value),
         wired' = wired, ~gaveUp' => connected = value
  PROVE  posted' \in Seq(BOOLEAN) /\ ChangesArriveInOrder' /\ LoopInv'
<1>1. CASE wired
  <2>1. posted' = Append(posted, value) /\ connected' = connected
    BY <1>1 DEF Tell
  <2>2. posted' \in Seq(BOOLEAN) /\ posted' # <<>> /\ posted'[Len(posted')] = value
    BY <2>1, AppendProperties
  <2> QED
    BY <1>1, <2>1, <2>2 DEF ChangesArriveInOrder, LoopInv
<1>2. CASE ~wired
  <2>1. posted' = posted /\ known' = known /\ posted = <<>> /\ ~known
    BY <1>2 DEF Tell, LoopInv
  <2> QED
    BY <1>2, <2>1 DEF ChangesArriveInOrder, LoopInv
<1> QED
  BY <1>1, <1>2

\* One thread is in _set_connected, and goes on in it.
LEMMA OwnerSetting ==
  ASSUME NEW value, NEW check, NEW assign, NEW tell, NEW return,
         OwnerSetsConnected(value, check, assign, tell, return)
  PROVE  /\ owner \in {check, assign, tell} /\ owner' \in {assign, tell, return}
         /\ UNCHANGED <<worldVars, errors, table, fd, stop, wired, gaveUp, writeVars, reader>>
BY Zenon DEF OwnerSetsConnected, OwnerGoes

LEMMA ReaderSetting ==
  ASSUME NEW value, NEW check, NEW assign, NEW tell, NEW return,
         ReaderSetsConnected(value, check, assign, tell, return)
  PROVE  /\ reader \in {check, assign, tell} /\ reader' \in {assign, tell, return}
         /\ UNCHANGED <<worldVars, errors, table, fd, stop, wired, gaveUp, writeVars, owner>>
BY Zenon DEF ReaderSetsConnected, ReaderGoes

LEMMA SettingPlaces ==
  /\ AnnounceOpen => /\ owner \in {"opened", "assignUp", "tellUp"}
                     /\ owner' \in {"assignUp", "tellUp", "start"} /\ reader' = reader
  /\ OwnerUnset => /\ owner \in {"unset", "assignDown", "tellDown"}
                   /\ owner' \in {"assignDown", "tellDown", "disconnected"} /\ reader' = reader
  /\ ReaderUnset => /\ reader \in {"unset", "assignDown", "tellDown"}
                    /\ reader' \in {"assignDown", "tellDown", "wait"} /\ owner' = owner
  /\ AnnounceReopen => /\ reader \in {"notify", "assignUp", "tellUp"}
                       /\ reader' \in {"assignUp", "tellUp", "startup"} /\ owner' = owner
BY OwnerSetting, ReaderSetting DEF AnnounceOpen, OwnerUnset, ReaderUnset, AnnounceReopen

\* What a step of _set_connected leaves alone.
LEMMA SettingKeeps ==
  ASSUME AnnounceOpen \/ OwnerUnset \/ ReaderUnset \/ AnnounceReopen
  PROVE  UNCHANGED <<worldVars, errors, table, fd, stop, wired, gaveUp, writeVars>>
BY OwnerSetting, ReaderSetting DEF AnnounceOpen, OwnerUnset, ReaderUnset, AnnounceReopen

-----------------------------------------------------------------------------
(***************************************************************************)
(* Types.                                                                  *)
(***************************************************************************)
\* Threads are at the places of their code.
LEMMA NextThreadTypes ==
  ASSUME ThreadTypes, Next
  PROVE  ThreadTypes'
<1> USE DEF ThreadTypes, OwnerGoes, ReaderGoes, OwnerSetsConnected, ReaderSetsConnected
<1>1. CASE OwnerStep
  BY <1>1 DEF OwnerStep, Open, AnnounceOpen, StartReader, Stop, Join, JoinGivesUp,
              OwnerClose, OwnerForget, OwnerUnset
<1>2. CASE ReaderStep
  BY <1>2 DEF ReaderStep, SendStartup, ReaderTests, ReadEnds, ReadFails, ReaderClose, ReaderForget,
              ReaderUnset, BackoffEnds, Reopen, AnnounceReopen
<1>3. CASE Wire \/ ProcessConnectionChange \/ WorldStep \/ Done
  BY <1>3 DEF Wire, ProcessConnectionChange, WorldStep, Unplug, Replug, OpenForeign, Done, vars
<1>4. CASE \E w \in Writers : LoadFd(w) \/ WriteFd(w)
  BY <1>4 DEF LoadFd, WriteFd
<1> QED
  BY <1>1, <1>2, <1>3, <1>4 DEF Next

\* Numbers are those of the table.
LEMMA NextHandleTypes ==
  ASSUME HandleTypes, Next
  PROVE  HandleTypes'
<1> USE DEF OwnerGoes, ReaderGoes
<1>1. CASE OpenDevice /\ wfd' = wfd
  BY <1>1, Opened DEF HandleTypes
<1>2. CASE CloseDevice /\ UNCHANGED <<fd, wfd>>
  BY <1>2, Gone DEF HandleTypes
<1>3. CASE WorldStep
  <2>1. UNCHANGED <<fd, wfd>>
    BY <1>3 DEF WorldStep, Unplug, Replug, OpenForeign
  <2> QED
    BY <1>3, <2>1, WorldHandles DEF HandleTypes
<1>4. CASE fd' \in {fd, None} /\ UNCHANGED <<table, wfd>>
  BY <1>4 DEF HandleTypes
<1>5. CASE OwnerStep
  BY <1>1, <1>2, <1>4, <1>5, SettingKeeps
     DEF OwnerStep, Open, OpenFails, StartReader, Stop, Join, JoinGivesUp,
         OwnerClose, OwnerForget
<1>6. CASE ReaderStep
  BY <1>1, <1>2, <1>4, <1>6, SettingKeeps
     DEF ReaderStep, SendStartup, ReaderTests, ReadEnds, ReadFails, ReaderClose, ReaderForget,
         BackoffEnds, Reopen, OpenFails
<1>7. CASE Wire \/ ProcessConnectionChange \/ Done
  BY <1>4, <1>7 DEF Wire, ProcessConnectionChange, Done, vars
<1>8. CASE \E w \in Writers : LoadFd(w) \/ WriteFd(w)
  BY <1>8 DEF LoadFd, WriteFd, HandleTypes
<1> QED
  BY <1>3, <1>5, <1>6, <1>7, <1>8 DEF Next

\* Flags are truth values, and so is what is posted.
LEMMA NextFlagTypes ==
  ASSUME FlagTypes, CountTypes, Next
  PROVE  FlagTypes'
<1> USE DEF FlagTypes, OwnerGoes
<1>s. CASE AnnounceOpen \/ OwnerUnset \/ ReaderUnset \/ AnnounceReopen
  <2>1. connected' \in BOOLEAN /\ known' = known
    BY <1>s DEF AnnounceOpen, OwnerUnset, ReaderUnset, AnnounceReopen,
       OwnerSetsConnected, ReaderSetsConnected, AssignConnected, Tell
  <2> QED
    BY <1>s, <2>1, SettingKeeps
<1>1. CASE OwnerStep
  BY <1>1, <1>s DEF OwnerStep, Open, StartReader, Stop, Join, JoinGivesUp,
              OwnerClose, OwnerForget
<1>2. CASE ReaderStep
  BY <1>2, <1>s DEF ReaderStep, SendStartup, ReaderTests, ReadEnds, ReadFails, ReaderClose,
              ReaderForget, BackoffEnds, Reopen
<1>3. CASE Wire \/ WorldStep \/ Done
  BY <1>3 DEF Wire, WorldStep, Unplug, Replug, OpenForeign, Done, vars
<1>4. CASE \E w \in Writers : LoadFd(w) \/ WriteFd(w)
  BY <1>4 DEF LoadFd, WriteFd
<1>5. CASE ProcessConnectionChange
  <2>1. known' \in BOOLEAN
    BY <1>5, HeadTailProperties DEF ProcessConnectionChange, CountTypes
  <2> QED
    BY <1>5, <2>1 DEF ProcessConnectionChange
<1> QED
  BY <1>1, <1>2, <1>3, <1>4, <1>5 DEF Next

-----------------------------------------------------------------------------
(***************************************************************************)
(* Connection changes.                                                     *)
(***************************************************************************)
\* A step of _set_connected looks, assigns, or posts what was assigned.
LEMMA SettingChanges ==
  ASSUME FlagTypes, CountTypes, ThreadInv, TellInv, LoopInv, ChangesArriveInOrder,
         AnnounceOpen \/ OwnerUnset \/ ReaderUnset \/ AnnounceReopen
  PROVE  posted' \in Seq(BOOLEAN) /\ ChangesArriveInOrder' /\ LoopInv'
<1> USE DEF OwnerGoes, ReaderGoes
<1>k. wired' = wired /\ gaveUp' = gaveUp
  BY SettingKeeps
<1>1. CASE UNCHANGED <<connected, loopVars>> /\ (~Telling' => ~Telling)
  BY <1>k, <1>1 DEF ChangesArriveInOrder, LoopInv, CountTypes
<1>2. CASE UNCHANGED loopVars /\ Telling'
  BY <1>k, <1>2 DEF ChangesArriveInOrder, LoopInv, CountTypes
<1>3. ASSUME NEW value \in BOOLEAN, Tell(value), ~gaveUp => connected = value
      PROVE  posted' \in Seq(BOOLEAN) /\ ChangesArriveInOrder' /\ LoopInv'
  <2>1. ~gaveUp' => connected = value
    BY <1>k, <1>3
  <2>2. posted \in Seq(BOOLEAN)
    BY DEF CountTypes
  <2> QED
    BY <1>k, <1>3, <2>1, <2>2, Told
<1>4. CASE AnnounceOpen
  BY <1>1, <1>2, <1>3, <1>4
     DEF AnnounceOpen, OwnerSetsConnected, AssignConnected, Telling, TellInv
<1>5. CASE OwnerUnset
  <2>1. CASE owner = "unset"
    <3>1. ~Telling' => ~Telling
      BY <1>5, <2>1, SettingPlaces DEF Telling
    <3> QED
      BY <1>1, <1>5, <2>1, <3>1 DEF OwnerUnset, OwnerSetsConnected
  <2>2. CASE owner = "assignDown"
    BY <1>2, <1>5, <2>2 DEF OwnerUnset, OwnerSetsConnected, AssignConnected, Telling
  <2>3. CASE owner = "tellDown"
    <3>1. Tell(FALSE)
      BY <1>5, <2>3 DEF OwnerUnset, OwnerSetsConnected
    <3>2. ~gaveUp => connected = FALSE
      BY <2>3 DEF TellInv, FlagTypes
    <3> QED
      BY <1>3, <3>1, <3>2
  <2> QED
    BY <1>5, <2>1, <2>2, <2>3, SettingPlaces
<1>6. CASE ReaderUnset
  <2>1. CASE reader = "unset"
    <3>1. ~Telling' => ~Telling
      BY <1>6, <2>1, SettingPlaces DEF Telling
    <3> QED
      BY <1>1, <1>6, <2>1, <3>1 DEF ReaderUnset, ReaderSetsConnected
  <2>2. CASE reader = "assignDown"
    BY <1>2, <1>6, <2>2 DEF ReaderUnset, ReaderSetsConnected, AssignConnected, Telling
  <2>3. CASE reader = "tellDown"
    <3>1. Tell(FALSE)
      BY <1>6, <2>3 DEF ReaderUnset, ReaderSetsConnected
    <3>2. ~gaveUp => connected = FALSE
      BY <2>3 DEF TellInv, FlagTypes
    <3> QED
      BY <1>3, <3>1, <3>2
  <2> QED
    BY <1>6, <2>1, <2>2, <2>3, SettingPlaces
<1>7. CASE AnnounceReopen
  BY <1>1, <1>2, <1>3, <1>7
     DEF AnnounceReopen, ReaderSetsConnected, AssignConnected, Telling, TellInv
<1> QED
  BY <1>4, <1>5, <1>6, <1>7

\* A step announces a change, takes one from the queue, or leaves it alone.
LEMMA NextChanges ==
  ASSUME FlagTypes, CountTypes, ThreadInv, TellInv, LoopInv, ChangesArriveInOrder, Next
  PROVE  posted' \in Seq(BOOLEAN) /\ ChangesArriveInOrder' /\ LoopInv'
<1> USE DEF OwnerGoes, ReaderGoes
<1>2. CASE AnnounceOpen \/ OwnerUnset \/ ReaderUnset \/ AnnounceReopen
  BY <1>2, SettingChanges
<1>3. CASE ProcessConnectionChange
  <2>1. posted \in Seq(BOOLEAN) /\ posted # <<>> /\ posted' = Tail(posted) /\ known' = Head(posted)
        /\ UNCHANGED <<connected, wired, owner, reader, gaveUp>>
    BY <1>3 DEF ProcessConnectionChange, CountTypes
  <2>2. wired /\ (Telling' <=> Telling)
    BY <2>1 DEF LoopInv, FlagTypes, Telling
  <2>3. Len(posted) \in Nat \ {0} /\ Head(posted) = posted[1]
        /\ posted' \in Seq(BOOLEAN) /\ Len(posted') = Len(posted) - 1
        /\ \A k \in 1..Len(posted') : posted'[k] = posted[k + 1]
    BY <2>1, HeadTailProperties, LenProperties
  <2>4. CASE Len(posted) = 1
    <3>1. posted' = <<>>
      BY <2>3, <2>4
    <3> QED
      BY <2>1, <2>2, <2>3, <2>4, <3>1 DEF ChangesArriveInOrder, LoopInv
  <2>5. CASE Len(posted) # 1
    <3>1. Len(posted') \in 1..Len(posted') /\ posted' # <<>> /\ Len(posted') + 1 = Len(posted)
      BY <2>3, <2>5
    <3>2. posted'[Len(posted')] = posted[Len(posted)]
      BY <2>3, <3>1
    <3> QED
      BY <2>1, <2>2, <2>3, <3>1, <3>2 DEF ChangesArriveInOrder, LoopInv
  <2> QED
    BY <2>4, <2>5
<1>5. CASE /\ UNCHANGED <<posted, known, connected>> /\ (wired' = wired \/ wired')
           /\ ~gaveUp' /\ ~Telling' => ~gaveUp /\ ~Telling
  BY <1>5 DEF ChangesArriveInOrder, LoopInv, CountTypes
<1>6. CASE OwnerStep /\ ~(AnnounceOpen \/ OwnerUnset)
  <2>1. CASE StartReader
    BY <1>5, <2>1 DEF StartReader, Telling, ThreadInv, Opening
  <2>2. CASE JoinGivesUp
    BY <1>5, <2>2 DEF JoinGivesUp, FlagTypes
  <2>3. CASE Open \/ Stop \/ Join
    BY <1>5, <2>3 DEF Open, Stop, Join, Telling
  <2>4. CASE OwnerClose \/ OwnerForget
    BY <1>5, <2>4 DEF OwnerClose, OwnerForget, Telling
  <2> QED
    BY <1>6, <2>1, <2>2, <2>3, <2>4 DEF OwnerStep
<1>7. CASE ReaderStep /\ ~(ReaderUnset \/ AnnounceReopen)
  BY <1>5, <1>7 DEF ReaderStep, SendStartup, ReaderTests, ReadEnds, ReadFails, ReaderClose,
     ReaderForget, BackoffEnds, Reopen, Telling
<1>8. CASE Wire \/ WorldStep \/ Done \/ \E w \in Writers : LoadFd(w) \/ WriteFd(w)
  BY <1>5, <1>8 DEF Wire, WorldStep, Unplug, Replug, OpenForeign, Done, vars, LoadFd, WriteFd,
     Telling
<1> QED
  BY <1>2, <1>3, <1>6, <1>7, <1>8 DEF Next, OwnerStep, ReaderStep

\* So the queue and the counters keep their types.
LEMMA NextCountTypes ==
  ASSUME FlagTypes, CountTypes, ThreadInv, TellInv, LoopInv, ChangesArriveInOrder, Next
  PROVE  CountTypes'
<1>1. posted' \in Seq(BOOLEAN)
  BY NextChanges
<1>2. unplugs' \in 0..MaxUnplugs /\ foreign' \in 0..MaxForeign
  <2>1. CASE WorldStep
    BY <2>1, ConnectionAssumption DEF WorldStep, Unplug, Replug, OpenForeign, CountTypes
  <2>2. CASE ~WorldStep
    <3>1. UNCHANGED <<unplugs, foreign>>
      BY <2>2, SettingKeeps
         DEF Next, OwnerStep, Open, StartReader, Stop, Join, JoinGivesUp,
         OwnerClose, OwnerForget, ReaderStep, SendStartup, ReaderTests, ReadEnds, ReadFails,
         ReaderClose, ReaderForget, BackoffEnds, Reopen,
         Wire, ProcessConnectionChange, LoadFd, WriteFd, Done, vars
    <3> QED
      BY <3>1 DEF CountTypes
  <2> QED
    BY <2>1, <2>2
<1>3. errors' \in 0..MaxErrors
  <2>1. CASE RaisesOSError(plugged) \/ RaisesOSError(Usable)
    BY <2>1, ConnectionAssumption DEF RaisesOSError, CountTypes
  <2>2. CASE errors' = errors
    BY <2>2 DEF CountTypes
  <2>3. RaisesOSError(plugged) \/ RaisesOSError(Usable) \/ errors' = errors
    BY SettingKeeps
       DEF Next, OwnerStep, Open, OpenDevice, OpenFails, StartReader, Stop, Join, JoinGivesUp,
       OwnerClose, OwnerForget, ReaderStep, SendStartup, ReaderTests, ReadEnds, ReadFails,
       ReaderClose, ReaderForget, BackoffEnds, Reopen, WorldStep, Unplug, Replug, OpenForeign,
       Wire, ProcessConnectionChange, LoadFd, WriteFd, Done, vars
  <2> QED
    BY <2>1, <2>2, <2>3
<1> QED
  BY <1>1, <1>2, <1>3 DEF CountTypes

-----------------------------------------------------------------------------
(***************************************************************************)
(* Threads.                                                                *)
(***************************************************************************)
\* The two threads follow each other as ThreadInv says.
LEMMA NextThread ==
  ASSUME FlagTypes, ThreadTypes, ThreadInv, Next
  PROVE  ThreadInv'
<1> USE DEF ThreadInv, Leaving, Closed, Opening, OwnerGoes, ReaderGoes
<1>1. CASE Open
  BY <1>1 DEF Open
<1>2. CASE AnnounceOpen
  <2>1. /\ owner \in {"opened", "assignUp", "tellUp"} /\ owner' \in {"assignUp", "tellUp", "start"}
        /\ UNCHANGED <<stop, reader, wired, gaveUp>>
    BY <1>2, SettingPlaces, SettingKeeps
  <2> QED
    BY <2>1
<1>3. CASE StartReader
  BY <1>3 DEF StartReader
<1>4. CASE Stop
  BY <1>4 DEF Stop
<1>5. CASE Join
  BY <1>5 DEF Join
<1>6. CASE JoinGivesUp
  BY <1>6 DEF JoinGivesUp
<1>7. CASE OwnerClose
  BY <1>7 DEF OwnerClose
<1>8. CASE OwnerForget
  BY <1>8 DEF OwnerForget
<1>9. CASE OwnerUnset
  <2>1. /\ owner \in {"unset", "assignDown", "tellDown"}
        /\ owner' \in {"assignDown", "tellDown", "disconnected"}
        /\ UNCHANGED <<stop, reader, wired, gaveUp>>
    BY <1>9, SettingPlaces, SettingKeeps
  <2> QED
    BY <2>1
<1>10. CASE SendStartup
  BY <1>10 DEF SendStartup
<1>11. CASE ReaderTests \/ ReadEnds
  BY <1>11 DEF ReaderTests, ReadEnds
<1>12. CASE ReadFails
  BY <1>12 DEF ReadFails
<1>13. CASE ReaderClose
  BY <1>13 DEF ReaderClose
<1>14. CASE ReaderForget
  BY <1>14 DEF ReaderForget
<1>15. CASE ReaderUnset
  <2>1. /\ reader \in {"unset", "assignDown", "tellDown"}
        /\ reader' \in {"assignDown", "tellDown", "wait"}
        /\ UNCHANGED <<stop, owner, wired, gaveUp>>
    BY <1>15, SettingPlaces, SettingKeeps
  <2> QED
    BY <2>1
<1>16. CASE BackoffEnds
  BY <1>16 DEF BackoffEnds
<1>17. CASE Reopen
  BY <1>17 DEF Reopen
<1>18. CASE AnnounceReopen
  <2>1. /\ reader \in {"notify", "assignUp", "tellUp"}
        /\ reader' \in {"assignUp", "tellUp", "startup"}
        /\ UNCHANGED <<stop, owner, wired, gaveUp>>
    BY <1>18, SettingPlaces, SettingKeeps
  <2> QED
    BY <2>1
<1>19. CASE Wire
  BY <1>19 DEF Wire
<1>20. CASE ProcessConnectionChange \/ WorldStep \/ Done
  BY <1>20 DEF ProcessConnectionChange, WorldStep, Unplug, Replug, OpenForeign, Done, vars
<1>21. CASE \E w \in Writers : LoadFd(w) \/ WriteFd(w)
  BY <1>21 DEF LoadFd, WriteFd
<1> QED
  BY <1>1, <1>2, <1>3, <1>4, <1>5, <1>6, <1>7, <1>8, <1>9, <1>10, <1>11, <1>12, <1>13,
     <1>14, <1>15, <1>16, <1>17, <1>18, <1>19, <1>20, <1>21
     DEF Next, OwnerStep, ReaderStep

\* And what they tell of is what was assigned last.
LEMMA NextTell ==
  ASSUME FlagTypes, ThreadTypes, ThreadInv, TellInv, Next
  PROVE  TellInv'
<1> USE DEF TellInv, OwnerGoes, ReaderGoes
<1>1. CASE AnnounceOpen
  BY <1>1 DEF AnnounceOpen, OwnerSetsConnected, AssignConnected, Tell, ThreadInv, Opening
<1>2. CASE OwnerUnset
  BY <1>2 DEF OwnerUnset, OwnerSetsConnected, AssignConnected, Tell, ThreadInv, Leaving, Closed
<1>3. CASE ReaderUnset
  BY <1>3 DEF ReaderUnset, ReaderSetsConnected, AssignConnected, Tell, ThreadInv, Leaving,
              Closed, Opening
<1>4. CASE AnnounceReopen
  BY <1>4 DEF AnnounceReopen, ReaderSetsConnected, AssignConnected, Tell, ThreadInv, Leaving,
              Closed, Opening
<1>5. CASE OwnerStep /\ ~(AnnounceOpen \/ OwnerUnset)
  BY <1>5 DEF OwnerStep, Open, StartReader, Stop, Join, JoinGivesUp, OwnerClose, OwnerForget,
              FlagTypes
<1>6. CASE ReaderStep /\ ~(ReaderUnset \/ AnnounceReopen)
  BY <1>6 DEF ReaderStep, SendStartup, ReaderTests, ReadEnds, ReadFails, ReaderClose,
              ReaderForget, BackoffEnds, Reopen
<1>7. CASE Wire \/ ProcessConnectionChange \/ WorldStep \/ Done
            \/ \E w \in Writers : LoadFd(w) \/ WriteFd(w)
  BY <1>7 DEF Wire, ProcessConnectionChange, WorldStep, Unplug, Replug, OpenForeign, Done, vars,
              LoadFd, WriteFd
<1> QED
  BY <1>1, <1>2, <1>3, <1>4, <1>5, <1>6, <1>7 DEF Next, OwnerStep, ReaderStep

-----------------------------------------------------------------------------
(***************************************************************************)
(* Handles.                                                                *)
(***************************************************************************)
\* No step of the threads opens a second handle or loses the open one.
LEMMA NextHandle ==
  ASSUME FlagTypes, ThreadTypes, HandleTypes, ThreadInv, HandleInv, Next
  PROVE  HandleInv'
<1> USE DEF OwnerGoes, ReaderGoes, FdNamesThePanel, Reconnecting
<1>p. PanelHandles \subseteq Fds /\ None \notin PanelHandles
  BY DEF PanelHandles, Fds, None
<1>1. CASE Open
  <2>1. CASE OpenDevice /\ owner' = "opened"
    <3>1. PanelHandles' = {fd'}
      BY <1>1, <2>1, Opened DEF Open, HandleInv
    <3> QED
      BY <1>1, <2>1, <3>1 DEF Open, HandleInv, ThreadInv, Closed, Leaving, Opening
  <2>2. CASE OpenFails /\ owner' = "failed"
    <3>1. UNCHANGED <<table, fd, reader, gaveUp>> /\ owner = "new" /\ owner' = "failed"
      BY <1>1, <2>2 DEF Open, OpenFails
    <3> QED
      BY <3>1 DEF HandleInv, PanelHandles, Closed
  <2> QED
    BY <1>1, <2>1, <2>2 DEF Open
<1>2. CASE Reopen
  <2>1. CASE OpenDevice /\ reader' = "notify"
    <3>1. PanelHandles' = {fd'}
      BY <1>2, <2>1, Opened DEF Reopen, HandleInv
    <3>2. reader = "open" /\ reader' = "notify" /\ UNCHANGED <<owner, gaveUp>>
      BY <1>2, <2>1 DEF Reopen
    <3>3. owner \notin {"new", "failed"} /\ (owner \in Closed => gaveUp)
      BY <3>2 DEF ThreadInv, Leaving, Closed, Opening
    <3> QED
      BY <3>1, <3>2, <3>3 DEF HandleInv
  <2>2. CASE OpenFails /\ reader' = "wait"
    BY <1>2, <2>2 DEF Reopen, OpenFails, HandleInv, PanelHandles
  <2> QED
    BY <1>2, <2>1, <2>2 DEF Reopen
<1>3. CASE OwnerClose
  <2>1. /\ owner = "close" /\ owner' = (IF fd = None THEN "unset" ELSE "forget")
        /\ UNCHANGED <<fd, reader, gaveUp>>
        /\ PanelHandles' = PanelHandles \ {fd}
    BY <1>3, Gone DEF OwnerClose
  <2> QED
    BY <2>1 DEF HandleInv, Closed
<1>4. CASE ReaderClose
  <2>1. /\ reader = "close" /\ reader' = (IF fd = None THEN "unset" ELSE "forget")
        /\ UNCHANGED <<fd, owner, gaveUp>>
        /\ PanelHandles' = PanelHandles \ {fd}
    BY <1>4, Gone DEF ReaderClose
  <2> QED
    BY <2>1 DEF HandleInv
<1>5. CASE OwnerForget
  <2>1. /\ owner = "forget" /\ owner' = "unset" /\ fd' = None
        /\ UNCHANGED <<reader, gaveUp>> /\ PanelHandles' = PanelHandles
    BY <1>5 DEF OwnerForget, PanelHandles
  <2> QED
    BY <2>1 DEF HandleInv, Closed
<1>6. CASE ReaderForget
  <2>1. /\ reader = "forget" /\ reader' = "unset" /\ fd' = None
        /\ UNCHANGED <<owner, gaveUp>> /\ PanelHandles' = PanelHandles
    BY <1>6 DEF ReaderForget, PanelHandles
  <2>2. owner \notin {"new", "failed"}
    BY <2>1 DEF ThreadInv, Opening
  <2> QED
    BY <2>1, <2>2 DEF HandleInv
<1>7. CASE ReadFails
  <2>1. /\ reader = "read" /\ reader' = "close"
        /\ UNCHANGED <<fd, owner, gaveUp>> /\ PanelHandles' = PanelHandles
    BY <1>7 DEF ReadFails, PanelHandles
  <2> QED
    BY <2>1 DEF HandleInv
<1>t. CASE ReaderTests
  <2>1. /\ reader = "loop" /\ reader' = (IF stop THEN "exited" ELSE "read")
        /\ UNCHANGED <<fd, owner, gaveUp>> /\ PanelHandles' = PanelHandles
    BY <1>t DEF ReaderTests, PanelHandles
  <2>2. ~stop => owner \notin Closed /\ ~gaveUp
    BY DEF ThreadInv, Closed, Leaving
  <2> QED
    BY <2>1, <2>2 DEF HandleInv
<1>8. CASE WorldStep
  <2>1. PanelHandles' = PanelHandles /\ UNCHANGED <<fd, owner, reader, gaveUp>>
    BY <1>8, WorldHandles DEF WorldStep, Unplug, Replug, OpenForeign
  <2> QED
    BY <2>1 DEF HandleInv
<1>9. CASE StartReader \/ Stop \/ Join \/ JoinGivesUp \/ AnnounceOpen \/ OwnerUnset
  <2>1. UNCHANGED <<table, fd>>
    BY <1>9, SettingKeeps DEF StartReader, Stop, Join, JoinGivesUp
  <2>2. PanelHandles' = PanelHandles
    BY <2>1 DEF PanelHandles
  <2>3. /\ owner' \notin {"new", "failed", "forget"} /\ owner # "forget"
        /\ owner' \in Closed => owner \in Closed
        /\ ~gaveUp' => ~gaveUp
        /\ reader' = reader \/ (reader = "none" /\ reader' = "startup")
    <3>1. CASE StartReader
      BY <3>1 DEF StartReader, ThreadInv, Closed, Opening
    <3>2. CASE Stop \/ Join \/ JoinGivesUp
      BY <3>2 DEF Stop, Join, JoinGivesUp, FlagTypes, Closed
    <3>3. CASE AnnounceOpen
      <4>1. /\ owner \in {"opened", "assignUp", "tellUp"}
            /\ owner' \in {"assignUp", "tellUp", "start"} /\ UNCHANGED <<reader, gaveUp>>
        BY <3>3, SettingPlaces, SettingKeeps
      <4> QED
        BY <4>1 DEF Closed
    <3>4. CASE OwnerUnset
      <4>1. /\ owner \in {"unset", "assignDown", "tellDown"}
            /\ owner' \in {"assignDown", "tellDown", "disconnected"} /\ UNCHANGED <<reader, gaveUp>>
        BY <3>4, SettingPlaces, SettingKeeps
      <4> QED
        BY <4>1 DEF Closed
    <3> QED
      BY <1>9, <3>1, <3>2, <3>3, <3>4
  <2> QED
    BY <2>1, <2>2, <2>3 DEF HandleInv
<1>10. CASE SendStartup \/ ReadEnds \/ ReaderUnset \/ BackoffEnds \/ AnnounceReopen
  <2>1. UNCHANGED <<table, fd, owner, gaveUp>>
    BY <1>10 DEF SendStartup, ReadEnds, ReaderUnset, BackoffEnds, AnnounceReopen,
                 ReaderSetsConnected
  <2>2. PanelHandles' = PanelHandles
    BY <2>1 DEF PanelHandles
  <2>3. /\ reader' \notin {"read", "close", "forget"} /\ reader # "forget"
        /\ reader' \in Reconnecting => reader \in Reconnecting
    BY <1>10 DEF SendStartup, ReadEnds, ReaderUnset, BackoffEnds, AnnounceReopen,
                 ReaderSetsConnected
  <2> QED
    BY <2>1, <2>2, <2>3 DEF HandleInv
<1>11. CASE Wire \/ ProcessConnectionChange \/ Done \/ \E w \in Writers : LoadFd(w) \/ WriteFd(w)
  <2>1. UNCHANGED <<table, fd, owner, reader, gaveUp>>
    BY <1>11 DEF Wire, ProcessConnectionChange, Done, vars, LoadFd, WriteFd
  <2> QED
    BY <2>1 DEF HandleInv, PanelHandles
<1> QED
  BY <1>1, <1>2, <1>3, <1>4, <1>5, <1>6, <1>7, <1>t, <1>8, <1>9, <1>10, <1>11
     DEF Next, OwnerStep, ReaderStep

-----------------------------------------------------------------------------
(***************************************************************************)
(* The theorems.                                                           *)
(***************************************************************************)
\* A client that has not connected satisfies the invariant, and every step of
\* the threads, the loop, the bus and the rest of the process keeps it.
THEOREM ConnectionInvariant == Spec => []Inv
<1>1. Init => Inv
  <2> SUFFICES ASSUME Init PROVE Inv
    OBVIOUS
  <2>1. FlagTypes /\ ThreadTypes
    BY DEF Init, FlagTypes, ThreadTypes
  <2>2. HandleTypes /\ CountTypes
    BY ConnectionAssumption DEF Init, HandleTypes, CountTypes
  <2>3. PanelHandles = {}
    BY DEF Init, PanelHandles
  <2>4. ThreadInv
    BY DEF Init, ThreadInv, Leaving, Closed, Opening
  <2>5. HandleInv
    BY <2>3 DEF Init, HandleInv, FdNamesThePanel, Closed, Reconnecting
  <2>6. TellInv /\ LoopInv /\ ChangesArriveInOrder
    BY DEF Init, TellInv, LoopInv, ChangesArriveInOrder
  <2> QED
    BY <2>1, <2>2, <2>4, <2>5, <2>6 DEF Inv, TypeOK
<1>2. Inv /\ [Next]_vars => Inv'
  <2> SUFFICES ASSUME Inv, [Next]_vars PROVE Inv'
    OBVIOUS
  <2>1. CASE Next
    <3>1. FlagTypes' /\ ThreadTypes' /\ HandleTypes' /\ CountTypes'
      BY <2>1, NextFlagTypes, NextThreadTypes, NextHandleTypes, NextCountTypes DEF Inv, TypeOK
    <3>2. ThreadInv' /\ HandleInv' /\ TellInv'
      BY <2>1, NextThread, NextHandle, NextTell DEF Inv, TypeOK
    <3>3. LoopInv' /\ ChangesArriveInOrder'
      BY <2>1, NextChanges DEF Inv, TypeOK
    <3> QED
      BY <3>1, <3>2, <3>3 DEF Inv, TypeOK
  <2>2. CASE UNCHANGED vars
    BY <2>2 DEF vars, Inv, TypeOK, FlagTypes, ThreadTypes, HandleTypes, CountTypes, ThreadInv,
                HandleInv, FdNamesThePanel, TellInv, LoopInv, ChangesArriveInOrder, Telling,
                PanelHandles
  <2> QED
    BY <2>1, <2>2
<1> QED
  BY <1>1, <1>2, PTL DEF Spec

\* Every variable of the connection keeps its type.
THEOREM ConnectionTypeCorrect == Spec => []TypeOK
BY ConnectionInvariant, PTL DEF Inv

\* The client never has two handles of the panel, nor forgets an open one.
THEOREM HandlesCorrect == Spec => []NoHandleForgotten
<1>1. Inv => NoHandleForgotten
  <2> SUFFICES ASSUME Inv PROVE NoHandleForgotten
    OBVIOUS
  <2>1. Cardinality(PanelHandles) <= 1
    <3>1. CASE PanelHandles = {}
      BY <3>1, FS_EmptySet
    <3>2. CASE PanelHandles # {}
      <4>1. PICK n : PanelHandles = {n}
        BY <3>2 DEF Inv, HandleInv
      <4> QED
        BY <4>1, FS_Singleton
    <3> QED
      BY <3>1, <3>2
  <2> QED
    BY <2>1 DEF Inv, HandleInv, NoHandleForgotten
<1> QED
  BY <1>1, ConnectionInvariant, PTL

\* A disconnect whose join succeeded leaves nothing open.
THEOREM DisconnectCorrect == Spec => []DisconnectCloses
<1>1. Inv => DisconnectCloses
  BY DEF Inv, TellInv, HandleInv, Closed, DisconnectCloses
<1> QED
  BY <1>1, ConnectionInvariant, PTL

\* No reconnect or disconnect leaves a closed number in self._fd.
THEOREM NumberCorrect == Spec => []FdNamesThePanel
<1>1. Inv => FdNamesThePanel
  BY DEF Inv, HandleInv
<1> QED
  BY <1>1, ConnectionInvariant, PTL

\* The coordinator is behind by the queued changes and by nothing else.
THEOREM ChangesCorrect == Spec => []ChangesArriveInOrder
BY ConnectionInvariant, PTL DEF Inv

\* No number is closed after it was given to somebody else.
THEOREM ForeignFilesCorrect == Spec => ForeignFilesStayOpen
<1> DEFINE Kept == ~gaveUp => \A n \in Fds : table[n] = "foreign" => table'[n] = "foreign"
<1>1. ASSUME Inv, Next PROVE Kept
  <2> USE DEF OwnerGoes, ReaderGoes
  <2>t. HandleTypes /\ ThreadInv /\ HandleInv
    BY <1>1 DEF Inv, TypeOK
  <2>1. CASE CloseDevice /\ ~gaveUp /\ reader # "forget" /\ owner # "forget"
    <3>1. fd # None => table[fd] # "foreign"
      BY <2>t, <2>1 DEF HandleInv, FdNamesThePanel, PanelHandles
    <3>2. \A n \in Fds : n # fd => table'[n] = table[n]
      BY <2>t, <2>1, Gone
    <3> QED
      BY <3>1, <3>2 DEF Fds, None
  <2>2. CASE OpenDevice \/ WorldStep
    BY <2>t, <2>2, Opened, WorldHandles
  <2>3. CASE table' = table
    BY <2>3
  <2>4. CASE OwnerClose
    <3>1. CloseDevice /\ owner = "close" /\ (~gaveUp => reader = "exited")
      BY <2>t, <2>4 DEF OwnerClose, ThreadInv, Leaving, Closed
    <3> QED
      BY <2>1, <3>1
  <2>5. CASE ReaderClose
    <3>1. CloseDevice /\ reader = "close" /\ (~gaveUp => owner # "forget")
      BY <2>t, <2>5 DEF ReaderClose, ThreadInv, Leaving, Closed
    <3> QED
      BY <2>1, <3>1
  <2>6. CASE OwnerStep /\ ~OwnerClose
    BY <2>2, <2>3, <2>6, SettingKeeps
       DEF OwnerStep, Open, OpenFails, StartReader, Stop, Join, JoinGivesUp, OwnerForget
  <2>7. CASE ReaderStep /\ ~ReaderClose
    BY <2>2, <2>3, <2>7, SettingKeeps
       DEF ReaderStep, SendStartup, ReaderTests, ReadEnds, ReadFails, ReaderForget,
       BackoffEnds, Reopen, OpenFails
  <2>8. CASE Wire \/ ProcessConnectionChange \/ Done \/ \E w \in Writers : LoadFd(w) \/ WriteFd(w)
    BY <2>3, <2>8 DEF Wire, ProcessConnectionChange, Done, vars, LoadFd, WriteFd
  <2> QED
    BY <1>1, <2>2, <2>4, <2>5, <2>6, <2>7, <2>8 DEF Next
<1>2. Inv /\ [Next]_vars => [Kept]_vars
  BY <1>1
<1> QED
  BY <1>2, ConnectionInvariant, PTL DEF Spec, ForeignFilesStayOpen
=============================================================================
