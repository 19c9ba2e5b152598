----------------------------- MODULE Connection -----------------------------
(***************************************************************************)
(* The life of the device handle in JablotronClient (client.py): connect,  *)
(* the reader thread with its reconnect loop, disconnect, and the command  *)
(* threads that write through the same handle.                             *)
(*                                                                         *)
(* A handle is a number of the process's descriptor table: the kernel      *)
(* gives an open the lowest free number, to the client and to everybody    *)
(* else in the Home Assistant process alike.  A handle whose device went   *)
(* away stays open, and dead, until it is closed.                          *)
(***************************************************************************)
EXTENDS Integers, Sequences, FiniteSets

CONSTANTS
  Writers,     \* command threads
  MaxFd,       \* bound: numbers 1..MaxFd of the descriptor table
  MaxUnplugs,  \* bound: how often the device goes away
  MaxErrors,   \* bound: system calls that fail although the device is there
  MaxForeign   \* bound: files other parts of the process open

ASSUME ConnectionAssumption ==
  /\ MaxFd \in Nat \ {0}
  /\ MaxUnplugs \in Nat /\ MaxErrors \in Nat /\ MaxForeign \in Nat

Fds == 1..MaxFd
None == 0     \* self._fd = -1

VARIABLES
  plugged,    \* the panel is on the bus
  table,      \* table[n]: "free", "live" or "dead" panel handle, "foreign" file
  fd,         \* self._fd
  connected,  \* self._connected
  wired,      \* on_connection_change is set
  stop,       \* _stop_event
  owner,      \* where the executor thread of connect / disconnect is
  reader,     \* where the reader thread is
  wfd,        \* wfd[w]: the number writer w has loaded, None if not writing
  writeLock,  \* _write_lock is held by a writer
  posted,     \* connection changes queued on the event loop
  known,      \* coordinator.data.connected
  gaveUp,     \* history: disconnect's join timed out
  struck,     \* history: a report was written to a foreign file
  unplugs, errors, foreign

clientVars == <<fd, connected, stop>>
writeVars  == <<wfd, writeLock, struck>>
ownerVars  == <<owner, gaveUp>>
loopVars   == <<posted, known>>
worldVars  == <<plugged, unplugs, foreign>>
vars == <<worldVars, errors, table, clientVars, wired, ownerVars, reader, writeVars, loopVars>>

FlagTypes ==
  /\ plugged \in BOOLEAN /\ connected \in BOOLEAN /\ wired \in BOOLEAN /\ stop \in BOOLEAN
  /\ writeLock \in BOOLEAN /\ known \in BOOLEAN /\ gaveUp \in BOOLEAN /\ struck \in BOOLEAN

ThreadTypes ==
  /\ owner \in {"new", "opened", "assignUp", "tellUp", "start", "running", "stopping",
                "close", "forget", "unset", "assignDown", "tellDown",
                "disconnected", "failed"}
  /\ reader \in {"none", "startup", "loop", "read", "close", "forget",
                 "unset", "assignDown", "tellDown", "wait",
                 "open", "notify", "assignUp", "tellUp", "exited"}

HandleTypes ==
  /\ table \in [Fds -> {"free", "live", "dead", "foreign"}]
  /\ fd \in Fds \cup {None}
  /\ wfd \in [Writers -> Fds \cup {None}]

CountTypes ==
  /\ posted \in Seq(BOOLEAN)
  /\ unplugs \in 0..MaxUnplugs /\ errors \in 0..MaxErrors /\ foreign \in 0..MaxForeign

\* Every variable stays within the values the two threads and the kernel's
\* descriptor table can give it.
TypeOK == FlagTypes /\ ThreadTypes /\ HandleTypes /\ CountTypes

Init ==
  /\ plugged = TRUE
  /\ table = [n \in Fds |-> "free"]
  /\ fd = None /\ connected = FALSE /\ stop = FALSE
  /\ wired = FALSE
  /\ owner = "new" /\ reader = "none"
  /\ wfd = [w \in Writers |-> None] /\ writeLock = FALSE
  /\ posted = <<>> /\ known = FALSE
  /\ gaveUp = FALSE /\ struck = FALSE
  /\ unplugs = 0 /\ errors = 0 /\ foreign = 0

-----------------------------------------------------------------------------
(***************************************************************************)
(* Pieces of the code the two threads share.                               *)
(***************************************************************************)
Free(n) == table[n] = "free" /\ \A m \in 1..(n - 1) : table[m] # "free"

\* The handle in self._fd can be read and written.
Usable == fd # None /\ table[fd] = "live"

\* A system call raises OSError: always if the device is not there to serve it,
\* now and then if it is.
RaisesOSError(served) ==
  \/ ~served /\ UNCHANGED errors
  \/ served /\ errors < MaxErrors /\ errors' = errors + 1

\* os.open of the hidraw device, into self._fd.
OpenDevice ==
  /\ plugged
  /\ \E n \in Fds :
       /\ Free(n)
       /\ table' = [table EXCEPT ![n] = "live"]
       /\ fd' = n
  /\ UNCHANGED errors

OpenFails == RaisesOSError(plugged) /\ UNCHANGED <<table, fd>>

\* Mutant: the number is marked as closed but not given back.
CloseWithoutFreeing ==
  IF fd # None THEN table' = [table EXCEPT ![fd] = "closed"] ELSE UNCHANGED table

\* os.close of self._fd; an error is suppressed.
CloseDevice ==
  IF fd # None /\ table[fd] # "free"
  THEN table' = [table EXCEPT ![fd] = "free"]
  ELSE UNCHANGED table

(***************************************************************************)
(* _set_connected(value): nothing happens if the flag says so already;     *)
(* else the flag is assigned, then the callback, if set, posts the change. *)
(* No lock is held, so the other thread may run between the three steps.   *)
(***************************************************************************)
AssignConnected(value) == connected' = value /\ UNCHANGED loopVars

\* Mutant: the newest change overtakes the ones still queued.
TellFirst(value) ==
  /\ posted' = IF wired THEN <<value>> \o posted ELSE posted
  /\ UNCHANGED <<connected, known>>

Tell(value) ==
  /\ posted' = IF wired THEN Append(posted, value) ELSE posted
  /\ UNCHANGED <<connected, known>>

-----------------------------------------------------------------------------
(***************************************************************************)
(* connect and disconnect, on the executor.                                *)
(***************************************************************************)
OwnerGoes(from, to) == owner = from /\ owner' = to /\ UNCHANGED gaveUp

Open ==
  /\ \/ OwnerGoes("new", "opened") /\ OpenDevice
     \/ OwnerGoes("new", "failed") /\ OpenFails
  /\ UNCHANGED <<worldVars, connected, stop, wired, reader, writeVars, loopVars>>

\* _set_connected in connect or disconnect.
OwnerSetsConnected(value, check, assign, tell, return) ==
  /\ \/ /\ OwnerGoes(check, IF connected = value THEN return ELSE assign)
        /\ UNCHANGED <<connected, loopVars>>
     \/ OwnerGoes(assign, tell) /\ AssignConnected(value)
     \/ OwnerGoes(tell, return) /\ Tell(value)
  /\ UNCHANGED <<worldVars, errors, table, fd, stop, wired, reader, writeVars>>

AnnounceOpen == OwnerSetsConnected(TRUE, "opened", "assignUp", "tellUp", "start")

\* _stop_event.clear() and the new reader thread.
StartReader ==
  /\ OwnerGoes("start", "running")
  /\ stop' = FALSE
  /\ reader' = "startup"
  /\ UNCHANGED <<worldVars, errors, table, fd, connected, wired, writeVars, loopVars>>

\* disconnect, called once the coordinator exists.
Stop ==
  /\ wired
  /\ OwnerGoes("running", "stopping")
  /\ stop' = TRUE
  /\ UNCHANGED <<worldVars, errors, table, fd, connected, wired, reader, writeVars, loopVars>>

\* Mutant: disconnect does not join the reader thread.
SkipJoin ==
  /\ OwnerGoes("stopping", "close")
  /\ UNCHANGED <<worldVars, errors, table, clientVars, wired, reader, writeVars, loopVars>>

\* join(timeout=5.0): its result is not looked at.
Join ==
  /\ OwnerGoes("stopping", "close")
  /\ reader = "exited"
  /\ UNCHANGED <<worldVars, errors, table, clientVars, wired, reader, writeVars, loopVars>>

\* The join times out, the reader still at work.
JoinGivesUp ==
  /\ owner = "stopping" /\ owner' = "close"
  /\ reader # "exited" /\ gaveUp' = TRUE
  /\ UNCHANGED <<worldVars, errors, table, clientVars, wired, reader, writeVars, loopVars>>

\* _close, step by step: os.close and then self._fd = -1, if there is a number;
\* then the flag.
OwnerClose ==
  /\ OwnerGoes("close", IF fd = None THEN "unset" ELSE "forget")
  /\ CloseDevice
  /\ UNCHANGED <<worldVars, errors, clientVars, wired, reader, writeVars, loopVars>>

OwnerForget ==
  /\ OwnerGoes("forget", "unset")
  /\ fd' = None
  /\ UNCHANGED <<worldVars, errors, table, connected, stop, wired, reader, writeVars, loopVars>>

OwnerUnset == OwnerSetsConnected(FALSE, "unset", "assignDown", "tellDown", "disconnected")

OwnerStep ==
  Open \/ AnnounceOpen \/ StartReader \/ Stop \/ Join \/ JoinGivesUp
    \/ OwnerClose \/ OwnerForget \/ OwnerUnset

-----------------------------------------------------------------------------
(***************************************************************************)
(* The reader thread.                                                      *)
(***************************************************************************)
ReaderGoes(from, to) == reader = from /\ reader' = to

\* _send_startup: an OSError is swallowed, the next read will meet it again.
SendStartup ==
  /\ ReaderGoes("startup", "loop")
  /\ UNCHANGED <<worldVars, errors, table, clientVars, wired, ownerVars, writeVars, loopVars>>

\* The while condition of _reader_loop.
ReaderTests ==
  /\ ReaderGoes("loop", IF stop THEN "exited" ELSE "read")
  /\ UNCHANGED <<worldVars, errors, table, clientVars, wired, ownerVars, writeVars, loopVars>>

\* The loop's body: a report or none, the keepalives, the short sleep.
ReadEnds ==
  /\ ReaderGoes("read", "loop")
  /\ fd # None /\ table[fd] \in {"live", "foreign"}
  /\ UNCHANGED <<worldVars, errors, table, clientVars, wired, ownerVars, writeVars, loopVars>>

\* A read or a keepalive write raises OSError, or a read comes back empty: into
\* _reconnect.
ReadFails ==
  /\ ReaderGoes("read", "close")
  /\ RaisesOSError(Usable)
  /\ UNCHANGED <<worldVars, table, clientVars, wired, ownerVars, writeVars, loopVars>>

\* Mutant: _reconnect opens again without having closed.
ReaderLeaks ==
  /\ ReaderGoes("close", "forget")
  /\ UNCHANGED <<worldVars, errors, table, clientVars, wired, ownerVars, writeVars, loopVars>>

ReaderClose ==
  /\ ReaderGoes("close", IF fd = None THEN "unset" ELSE "forget")
  /\ CloseDevice
  /\ UNCHANGED <<worldVars, errors, clientVars, wired, ownerVars, writeVars, loopVars>>

\* Mutant: _close leaves the closed number in self._fd.
ReaderRemembers ==
  /\ ReaderGoes("forget", "unset")
  /\ UNCHANGED <<worldVars, errors, table, clientVars, wired, ownerVars, writeVars, loopVars>>

ReaderForget ==
  /\ ReaderGoes("forget", "unset")
  /\ fd' = None
  /\ UNCHANGED <<worldVars, errors, table, connected, stop, wired, ownerVars, writeVars, loopVars>>

\* _set_connected in _reconnect.
ReaderSetsConnected(value, check, assign, tell, return) ==
  /\ \/ /\ ReaderGoes(check, IF connected = value THEN return ELSE assign)
        /\ UNCHANGED <<connected, loopVars>>
     \/ ReaderGoes(assign, tell) /\ AssignConnected(value)
     \/ ReaderGoes(tell, return) /\ Tell(value)
  /\ UNCHANGED <<worldVars, errors, table, fd, stop, wired, ownerVars, writeVars>>

ReaderUnset == ReaderSetsConnected(FALSE, "unset", "assignDown", "tellDown", "wait")

\* Mutant: the stop event is not looked at after the wait.
BackoffIgnoresStop ==
  /\ ReaderGoes("wait", "open")
  /\ UNCHANGED <<worldVars, errors, table, clientVars, wired, ownerVars, writeVars, loopVars>>

\* The backoff is over, or the stop event cut it short.
BackoffEnds ==
  /\ ReaderGoes("wait", IF stop THEN "loop" ELSE "open")
  /\ UNCHANGED <<worldVars, errors, table, clientVars, wired, ownerVars, writeVars, loopVars>>

\* os.open: on failure back to the wait with a longer backoff.
Reopen ==
  /\ \/ ReaderGoes("open", "notify") /\ OpenDevice
     \/ ReaderGoes("open", "wait") /\ OpenFails
  /\ UNCHANGED <<worldVars, connected, stop, wired, ownerVars, writeVars, loopVars>>

\* Mutant: _reconnect does not set the flag again.
ReopenSilently ==
  /\ ReaderGoes("notify", "startup")
  /\ UNCHANGED <<worldVars, errors, table, clientVars, wired, ownerVars, writeVars, loopVars>>

AnnounceReopen == ReaderSetsConnected(TRUE, "notify", "assignUp", "tellUp", "startup")

ReaderStep ==
  SendStartup \/ ReaderTests \/ ReadEnds \/ ReadFails \/ ReaderClose \/ ReaderForget
    \/ ReaderUnset \/ BackoffEnds \/ Reopen \/ AnnounceReopen

-----------------------------------------------------------------------------
(***************************************************************************)
(* _write_report in a command thread: self._fd is loaded under the lock,   *)
(* then the write system call is made with that number.  (A write to the   *)
(* number -1 raises at once and leaves everything as it was: no step.)     *)
(***************************************************************************)
LoadFd(w) ==
  /\ ~writeLock /\ fd # None
  /\ writeLock' = TRUE
  /\ wfd' = [wfd EXCEPT ![w] = fd]
  /\ UNCHANGED <<worldVars, errors, table, clientVars, wired, ownerVars, reader, struck, loopVars>>

\* The write reaches whatever the number stands for now, or raises.
WriteFd(w) ==
  /\ wfd[w] # None
  /\ wfd' = [wfd EXCEPT ![w] = None]
  /\ writeLock' = FALSE
  /\ struck' = (struck \/ table[wfd[w]] = "foreign")
  /\ UNCHANGED <<worldVars, errors, table, clientVars, wired, ownerVars, reader, loopVars>>

-----------------------------------------------------------------------------
(***************************************************************************)
(* Event loop: JablotronCoordinator.__init__ wires the callbacks after     *)
(* connect has returned; _process_connection_change runs what they post.   *)
(***************************************************************************)
Wire ==
  /\ ~wired /\ owner = "running"
  /\ wired' = TRUE
  /\ UNCHANGED <<worldVars, errors, table, clientVars, ownerVars, reader, writeVars, loopVars>>

ProcessConnectionChange ==
  /\ posted # <<>>
  /\ posted' = Tail(posted)
  /\ known' = Head(posted)
  /\ UNCHANGED <<worldVars, errors, table, clientVars, wired, ownerVars, reader, writeVars>>

-----------------------------------------------------------------------------
(***************************************************************************)
(* The bus and the rest of the process (external).                         *)
(***************************************************************************)
Unplug ==
  /\ plugged /\ unplugs < MaxUnplugs
  /\ plugged' = FALSE /\ unplugs' = unplugs + 1
  /\ table' = [n \in Fds |-> IF table[n] = "live" THEN "dead" ELSE table[n]]
  /\ UNCHANGED <<foreign, errors, clientVars, wired, ownerVars, reader, writeVars, loopVars>>

Replug ==
  /\ ~plugged /\ plugged' = TRUE
  /\ UNCHANGED <<unplugs, errors, foreign, table, clientVars, wired, ownerVars, reader,
                 writeVars, loopVars>>

OpenForeign ==
  /\ foreign < MaxForeign
  /\ foreign' = foreign + 1
  /\ \E n \in Fds : Free(n) /\ table' = [table EXCEPT ![n] = "foreign"]
  /\ UNCHANGED <<plugged, unplugs, errors, clientVars, wired, ownerVars, reader,
                 writeVars, loopVars>>

WorldStep == Unplug \/ Replug \/ OpenForeign

-----------------------------------------------------------------------------
\* connect failed, or disconnect is done and nothing is left to run.
Done ==
  /\ owner \in {"failed", "disconnected"} /\ reader \in {"none", "exited"}
  /\ posted = <<>>
  /\ UNCHANGED vars

Next ==
  \/ OwnerStep \/ ReaderStep \/ Wire \/ ProcessConnectionChange \/ WorldStep
  \/ \E w \in Writers : LoadFd(w) \/ WriteFd(w)
  \/ Done

Spec == Init /\ [][Next]_vars

(***************************************************************************)
(* The threads and the loop run.  Nothing makes the device come back, and  *)
(* nothing makes the entry unload (Stop).                                  *)
(***************************************************************************)
Fairness ==
  /\ WF_vars(Open \/ AnnounceOpen \/ StartReader \/ Join
               \/ OwnerClose \/ OwnerForget \/ OwnerUnset)
  /\ WF_vars(ReaderStep)
  /\ WF_vars(Wire) /\ WF_vars(ProcessConnectionChange)
  /\ \A w \in Writers : WF_vars(WriteFd(w))

FairSpec == Spec /\ Fairness

-----------------------------------------------------------------------------
(***************************************************************************)
(* Properties.                                                             *)
(***************************************************************************)
PanelHandles == {n \in Fds : table[n] \in {"live", "dead"}}

\* Through any number of reconnects the client never holds two handles of the
\* panel: each one is closed before the next is opened.  And none is forgotten
\* while it is open: the open one is self._fd, unless disconnect closed and
\* forgot behind the reader's back.
NoHandleForgotten ==
  /\ Cardinality(PanelHandles) <= 1
  /\ ~gaveUp => \A n \in PanelHandles : fd = n

\* Once disconnect has returned and the reader thread is gone, no handle of the
\* panel is open and the client is not connected, whatever the reader was in
\* the middle of when it was stopped, if it stopped within the join's timeout.
DisconnectCloses ==
  owner = "disconnected" /\ reader = "exited" /\ ~gaveUp => PanelHandles = {} /\ ~connected

\* Outside of a _close that has closed the number and not yet dropped it, the
\* number in self._fd is one of the panel: no reconnect, failed open or disconnect
\* leaves behind the number of a handle that is closed and may be given to others.
FdNamesThePanel ==
  ~gaveUp /\ fd # None /\ reader # "forget" /\ owner # "forget" => fd \in PanelHandles

\* client.py:307 of _write_report: "Thread-safe via :attr:`_write_lock`."  A report
\* goes to the panel or nowhere, never into another file of the process.  This
\* does not hold, and no run checks it: _close does not take the lock.
WritesStayOnPanel == ~struck

\* The client never closes a file of somebody else: no number is closed a second
\* time after the kernel gave it away, unless two threads close at once because
\* the join timed out.
ForeignFilesStayOpen ==
  [][~gaveUp => \A n \in Fds : table[n] = "foreign" => table'[n] = "foreign"]_vars

\* A thread has assigned the flag and not yet told the coordinator.
Telling == owner \in {"tellUp", "tellDown"} \/ reader \in {"tellUp", "tellDown"}

\* Once the first change after wiring has reached it, the coordinator is never
\* wrong for longer than the changes still queued or about to be, and it never
\* believes in a connection that is gone.  (It may not know of one that stands:
\* connect announces it before the coordinator is there to hear of it.)  After a
\* join that gave up two threads announce, and the last to assign need not be the
\* last to post.
ChangesArriveInOrder ==
  ~gaveUp /\ ~Telling =>
    /\ posted # <<>> => posted[Len(posted)] = connected
    /\ posted = <<>> /\ known => connected

\* A panel that stays on the bus, and whose system calls fail finitely often, is
\* connected again, for good.
Reconnects ==
  <>[](plugged /\ owner = "running") => <>[](connected /\ Usable)

\* disconnect returns even while the reader waits out a backoff.
DisconnectReturns == owner = "stopping" ~> owner = "disconnected"
=============================================================================
