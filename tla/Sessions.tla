------------------------------ MODULE Sessions ------------------------------
(***************************************************************************)
(* The authenticated command path of JablotronClient (client.py), together *)
(* with the three parties it races with:                                   *)
(*                                                                         *)
(*   - executor threads, one per call of modify_section, export_config     *)
(*     (with its end_session) or probe_all_devices;                        *)
(*   - the reader thread, which decodes the panel's answers and signals    *)
(*     them through threading.Event objects;                               *)
(*   - the Home Assistant event loop, which starts the calls, receives     *)
(*     every decoded packet through call_soon_threadsafe and decides, on   *)
(*     a WRONG_CODE, whether the service PIN is to blame (coordinator.py). *)
(*                                                                         *)
(* The panel is outside the repository.  It is modelled from how the       *)
(* client uses it: one UI session, opened by an AUTH_CODE it accepts and   *)
(* closed by AUTH_END, and answers in the order of the requests.           *)
(*                                                                         *)
(* A call is an identity of its own: it is started at most once, so the    *)
(* number of calls bounds the behaviours and history is kept per call.     *)
(***************************************************************************)
EXTENDS Integers, Sequences, FiniteSets

CONSTANTS
  UserCalls,     \* arm / disarm requests, each with the PIN its user typed
  ServiceCalls,  \* exports and probes, all with the configured service PIN
  NoCall,        \* "no call": lock free, no session open
  Devices,       \* how many devices one probe queries
  MaxBreaks,     \* bound: how often the USB link may break
  Prompt         \* TRUE: no timeout expires while an answer is on its way

ASSUME CallsAssumption ==
  /\ UserCalls \cap ServiceCalls = {}
  /\ NoCall \notin UserCalls \cup ServiceCalls

ASSUME BoundsAssumption == Devices \in Nat /\ MaxBreaks \in Nat /\ Prompt \in BOOLEAN

Calls == UserCalls \cup ServiceCalls

VARIABLES
  pc,            \* pc[c]: the step the thread of call c is about to take
  op,            \* op[c]: "modify", "export" or "probe"
  pin,           \* pin[c]: what the panel would make of the call's PIN
  left,          \* left[c]: devices a probe still has to query
  outcome,       \* outcome[c]: how the call ends
  lock,          \* _session_lock: the call that holds it, or NoCall
  loginEvent,    \* _cmd_login_event
  ackEvent,      \* _cmd_ack_event
  doneEvent,     \* _cmd_export_done_event
  authError,     \* _cmd_auth_error
  userInitiated, \* user_initiated_action
  pinRejected,   \* service_pin_rejected
  reader,        \* what the reader thread has in hand, "idle" if nothing
  link,          \* "up", "broken" (fd dead, not noticed yet), "closed"
  posted,        \* callbacks queued on the event loop
  toPanel,       \* packets written, not yet handled by the panel
  fromPanel,     \* packets of the panel, not yet read
  session,       \* panel: the call whose code opened the UI session
  accepted,      \* history: calls whose code the panel accepted
  refused,       \* history: calls whose code the panel refused
  applied,       \* history: applied[c], how often c's command was carried out
  stale,         \* history: the open session outlived the link it was opened on
  breaks         \* link breaks so far

callVars   == <<pc, op, pin, left, outcome>>
eventVars  == <<loginEvent, ackEvent, doneEvent, authError>>
flagVars   == <<userInitiated, pinRejected>>
wireVars   == <<toPanel, fromPanel>>
panelVars  == <<session, accepted, refused, applied, stale>>
vars == <<callVars, lock, eventVars, flagVars, reader, link, posted,
          wireVars, panelVars, breaks>>

(***************************************************************************)
(* Program points of a call, in the order of the code.                     *)
(***************************************************************************)
\* Where a call holds _session_lock.
Locked == {"end", "code", "clear", "reset", "login", "verdict", "command",
           "ackClear", "ack", "doneClear", "done", "reading", "query",
           "queried", "logout", "release"}

Points == Locked \cup {"new", "check", "acquire", "return", "returned"}

Outcomes == {"none", "ok", "auth", "timeout", "link", "malformed"}

Requests == [type : {"END", "CODE", "MODIFY", "EXPORT", "QUERY"}, of : Calls]
Answers  == [type : {"LOGIN", "WRONG", "ACK", "DONE"}, of : Calls]
Posts    == [type : {"WRONG", "RETURN"}, of : Calls]

FlagTypes ==
  /\ loginEvent \in BOOLEAN /\ ackEvent \in BOOLEAN /\ doneEvent \in BOOLEAN
  /\ authError \in BOOLEAN
  /\ userInitiated \in BOOLEAN /\ pinRejected \in BOOLEAN
  /\ stale \in BOOLEAN

CallTypes ==
  /\ pc \in [Calls -> Points]
  /\ op \in [Calls -> {"modify", "export", "probe"}]
  /\ \A c \in Calls : op[c] = "modify" <=> c \in UserCalls
  /\ pin \in [Calls -> {"valid", "wrong", "malformed"}]
  /\ left \in [Calls -> 0..Devices]
  /\ outcome \in [Calls -> Outcomes]
  /\ lock \in Calls \cup {NoCall}

WireTypes ==
  /\ reader \in {"idle", "LOGIN", "WRONG", "MARKED", "ACK", "DONE"}
  /\ link \in {"up", "broken", "closed"}
  /\ posted \in Seq(Posts)
  /\ toPanel \in Seq(Requests) /\ fromPanel \in Seq(Answers)
  /\ session \in Calls \cup {NoCall}
  /\ accepted \subseteq Calls /\ refused \subseteq Calls
  /\ applied \in [Calls -> Nat]
  /\ breaks \in 0..MaxBreaks

\* Every variable has its type; a probe never queries more devices than it has.
TypeOK == FlagTypes /\ CallTypes /\ WireTypes

Init ==
  /\ pc = [c \in Calls |-> "new"]
  /\ op \in [Calls -> {"modify", "export", "probe"}]
  /\ \A c \in Calls : op[c] = "modify" <=> c \in UserCalls
  /\ pin \in [Calls -> {"valid", "wrong", "malformed"}]
  /\ \A c, d \in ServiceCalls : pin[c] = pin[d]
  /\ left = [c \in Calls |-> Devices]
  /\ outcome = [c \in Calls |-> "none"]
  /\ lock = NoCall
  /\ loginEvent = FALSE /\ ackEvent = FALSE /\ doneEvent = FALSE
  /\ authError = FALSE
  /\ userInitiated = FALSE /\ pinRejected = FALSE
  /\ reader = "idle"
  /\ link = "up"
  /\ posted = <<>>
  /\ toPanel = <<>> /\ fromPanel = <<>>
  /\ session = NoCall
  /\ accepted = {} /\ refused = {}
  /\ applied = [c \in Calls |-> 0]
  /\ stale = FALSE
  /\ breaks = 0

-----------------------------------------------------------------------------
(***************************************************************************)
(* Helpers of the command threads.                                         *)
(***************************************************************************)
Goto(c, from, to) == pc[c] = from /\ pc' = [pc EXCEPT ![c] = to]

\* The call ends with result r: the exception it raises, or "ok".
EndWith(c, r) == outcome' = [outcome EXCEPT ![c] = r]

connected == link # "closed"

\* _write_report on a usable fd.  The write itself is atomic (_write_lock).
Write(c, type) ==
  /\ link = "up"
  /\ toPanel' = Append(toPanel, [type |-> type, of |-> c])

\* _write_report on a dead or closed fd raises OSError.
WriteFails == link # "up" /\ UNCHANGED toPanel

\* A step of call c that writes one packet and goes on, or, when the write
\* raises, jumps to the clean-up with the OSError in hand.
WriteStep(c, from, type, to) ==
  \/ Goto(c, from, to) /\ Write(c, type) /\ UNCHANGED outcome
  \/ Goto(c, from, "logout") /\ WriteFails /\ EndWith(c, "link")

\* Nothing is under way that could still answer a request.
Quiet == toPanel = <<>> /\ fromPanel = <<>> /\ reader = "idle"

\* Event.wait(timeout) gives up: with Prompt, only when no answer will come.
WaitTimesOut(c, from, event) ==
  /\ ~event
  /\ Prompt => Quiet
  /\ Goto(c, from, "logout")
  /\ EndWith(c, "timeout")

-----------------------------------------------------------------------------
(***************************************************************************)
(* Event loop: starting a call and receiving what other threads posted.    *)
(***************************************************************************)
\* The alarm entity or the coordinator hands the call to an executor thread.
\* Service calls are serialised by their only callers, setup and refresh.
Start(c) ==
  /\ c \in ServiceCalls => \A d \in ServiceCalls : pc[d] \in {"new", "returned"}
  /\ Goto(c, "new", "check")
  /\ UNCHANGED <<op, pin, left, outcome, lock, eventVars, flagVars, reader, link,
                 posted, wireVars, panelVars, breaks>>

\* _process_packets reaches a WRONG_CODE: _handle_ui_control blames the
\* service PIN unless a user action is under way at this very moment.
HandleWrongCode ==
  /\ posted # <<>> /\ Head(posted).type = "WRONG"
  /\ posted' = Tail(posted)
  /\ pinRejected' = (pinRejected \/ ~userInitiated)
  /\ UNCHANGED <<callVars, lock, eventVars, userInitiated, reader, link,
                 wireVars, panelVars, breaks>>

\* The executor future of a call completes on the loop.
Resume ==
  /\ posted # <<>> /\ Head(posted).type = "RETURN"
  /\ posted' = Tail(posted)
  /\ Goto(Head(posted).of, "return", "returned")
  /\ UNCHANGED <<op, pin, left, outcome, lock, eventVars, flagVars, reader, link,
                 wireVars, panelVars, breaks>>

-----------------------------------------------------------------------------
(***************************************************************************)
(* The call's own thread.                                                  *)
(***************************************************************************)
\* The future of the call is completed; the loop will notice in its turn.
PostReturn(c) == posted' = Append(posted, [type |-> "RETURN", of |-> c])

\* Not connected, or a service call with a PIN known to be rejected.
CheckFails(c) ==
  /\ Goto(c, "check", "return")
  /\ \/ ~connected /\ EndWith(c, "link")
     \/ connected /\ c \in ServiceCalls /\ pinRejected /\ EndWith(c, "auth")
  /\ PostReturn(c)
  /\ UNCHANGED <<op, pin, left, lock, eventVars, flagVars, reader, link,
                 wireVars, panelVars, breaks>>

CheckPasses(c) ==
  /\ connected
  /\ c \in ServiceCalls => ~pinRejected
  /\ Goto(c, "check", "acquire")
  /\ UNCHANGED <<op, pin, left, outcome, lock, eventVars, flagVars, reader, link,
                 posted, wireVars, panelVars, breaks>>

\* Mutant: the call goes ahead without waiting for _session_lock.
AcquireUnlocked(c) ==
  /\ lock' = c
  /\ Goto(c, "acquire", "end")
  /\ UNCHANGED <<op, pin, left, outcome, eventVars, flagVars, reader, link,
                 posted, wireVars, panelVars, breaks>>

\* with self._session_lock / self._session_lock.acquire()
Acquire(c) ==
  /\ lock = NoCall
  /\ lock' = c
  /\ Goto(c, "acquire", "end")
  /\ UNCHANGED <<op, pin, left, outcome, eventVars, flagVars, reader, link,
                 posted, wireVars, panelVars, breaks>>

\* Clear a stale session; a user call first marks itself as such.
SendEnd(c) ==
  /\ WriteStep(c, "end", "END", "code")
  /\ userInitiated' = (userInitiated \/ op[c] = "modify")
  /\ UNCHANGED <<op, pin, left, lock, eventVars, pinRejected, reader, link,
                 posted, fromPanel, panelVars, breaks>>

\* ui_authorisation_code raises CodeError for a PIN of the wrong length.
RejectCode(c) ==
  /\ pin[c] = "malformed"
  /\ Goto(c, "code", "logout")
  /\ EndWith(c, "malformed")
  /\ UNCHANGED <<op, pin, left, lock, eventVars, flagVars, reader, link,
                 posted, wireVars, panelVars, breaks>>

SendCode(c) ==
  /\ pin[c] # "malformed"
  /\ WriteStep(c, "code", "CODE", "clear")
  /\ UNCHANGED <<op, pin, left, lock, eventVars, flagVars, reader, link,
                 posted, fromPanel, panelVars, breaks>>

\* _wait_for_login_response, one shared access per step.
ClearLogin(c) ==
  /\ Goto(c, "clear", "reset")
  /\ loginEvent' = FALSE
  /\ UNCHANGED <<op, pin, left, outcome, lock, ackEvent, doneEvent, authError,
                 flagVars, reader, link, posted, wireVars, panelVars, breaks>>

\* Mutant: the error of the previous login is kept.
KeepAuthError(c) ==
  /\ Goto(c, "reset", "login")
  /\ UNCHANGED <<op, pin, left, outcome, lock, eventVars, flagVars, reader, link,
                 posted, wireVars, panelVars, breaks>>

ResetAuthError(c) ==
  /\ Goto(c, "reset", "login")
  /\ authError' = FALSE
  /\ UNCHANGED <<op, pin, left, outcome, lock, loginEvent, ackEvent, doneEvent,
                 flagVars, reader, link, posted, wireVars, panelVars, breaks>>

AwaitLogin(c) ==
  /\ \/ loginEvent /\ Goto(c, "login", "verdict") /\ UNCHANGED outcome
     \/ WaitTimesOut(c, "login", loginEvent)
  /\ UNCHANGED <<op, pin, left, lock, eventVars, flagVars, reader, link,
                 posted, wireVars, panelVars, breaks>>

ReadVerdict(c) ==
  /\ \/ authError /\ Goto(c, "verdict", "logout") /\ EndWith(c, "auth")
     \/ /\ ~authError
        /\ Goto(c, "verdict", IF op[c] = "probe" THEN "query" ELSE "command")
        /\ UNCHANGED outcome
  /\ UNCHANGED <<op, pin, left, lock, eventVars, flagVars, reader, link,
                 posted, wireVars, panelVars, breaks>>

\* MODIFY_SECTION or EXPORT_CONFIG.
SendCommand(c) ==
  /\ WriteStep(c, "command", IF op[c] = "modify" THEN "MODIFY" ELSE "EXPORT", "ackClear")
  /\ UNCHANGED <<op, pin, left, lock, eventVars, flagVars, reader, link,
                 posted, fromPanel, panelVars, breaks>>

\* Mutant: the ACK event of the previous command is not cleared.
KeepAck(c) ==
  /\ Goto(c, "ackClear", "ack")
  /\ UNCHANGED <<op, pin, left, outcome, lock, eventVars, flagVars, reader, link,
                 posted, wireVars, panelVars, breaks>>

\* _wait_for_command_ack.
ClearAck(c) ==
  /\ Goto(c, "ackClear", "ack")
  /\ ackEvent' = FALSE
  /\ UNCHANGED <<op, pin, left, outcome, lock, loginEvent, doneEvent, authError,
                 flagVars, reader, link, posted, wireVars, panelVars, breaks>>

AwaitAck(c) ==
  /\ \/ ackEvent /\ op[c] = "modify" /\ Goto(c, "ack", "logout") /\ EndWith(c, "ok")
     \/ ackEvent /\ op[c] = "export" /\ Goto(c, "ack", "doneClear") /\ UNCHANGED outcome
     \/ WaitTimesOut(c, "ack", ackEvent)
  /\ UNCHANGED <<op, pin, left, lock, eventVars, flagVars, reader, link,
                 posted, wireVars, panelVars, breaks>>

\* _wait_for_export_done.
ClearDone(c) ==
  /\ Goto(c, "doneClear", "done")
  /\ doneEvent' = FALSE
  /\ UNCHANGED <<op, pin, left, outcome, lock, loginEvent, ackEvent, authError,
                 flagVars, reader, link, posted, wireVars, panelVars, breaks>>

\* On success export_config returns with the session lock still held.
AwaitDone(c) ==
  /\ \/ doneEvent /\ Goto(c, "done", "reading") /\ EndWith(c, "ok")
     \/ WaitTimesOut(c, "done", doneEvent)
  /\ UNCHANGED <<op, pin, left, lock, eventVars, flagVars, reader, link,
                 posted, wireVars, panelVars, breaks>>

\* read_panel_config, whether it succeeds or raises: finally end_session().
ReadConfig(c) ==
  /\ Goto(c, "reading", "logout")
  /\ UNCHANGED <<op, pin, left, outcome, lock, eventVars, flagVars, reader, link,
                 posted, wireVars, panelVars, breaks>>

\* Mutant: one query too many.
QueryPastEnd(c) ==
  /\ ~pinRejected
  /\ WriteStep(c, "query", "QUERY", "queried")
  /\ left' = [left EXCEPT ![c] = @ - 1]
  /\ UNCHANGED <<op, pin, lock, eventVars, flagVars, reader, link,
                 posted, fromPanel, panelVars, breaks>>

\* The loop of probe_all_devices: one query at a time.
QueryDevice(c) ==
  /\ ~pinRejected /\ left[c] > 0
  /\ WriteStep(c, "query", "QUERY", "queried")
  /\ left' = [left EXCEPT ![c] = @ - 1]
  /\ UNCHANGED <<op, pin, lock, eventVars, flagVars, reader, link,
                 posted, fromPanel, panelVars, breaks>>

\* A device that does not answer in time is skipped, so its answer and the
\* timeout lead to the same next step.  DeviceProbe has the answers.
AwaitDevice(c) ==
  /\ Prompt => Quiet
  /\ Goto(c, "queried", "query")
  /\ UNCHANGED <<op, pin, left, outcome, lock, eventVars, flagVars, reader, link,
                 posted, wireVars, panelVars, breaks>>

FinishProbe(c) ==
  /\ pinRejected \/ left[c] = 0
  /\ Goto(c, "query", "logout")
  /\ EndWith(c, "ok")
  /\ UNCHANGED <<op, pin, left, lock, eventVars, flagVars, reader, link,
                 posted, wireVars, panelVars, breaks>>

\* Mutant: no AUTH_END when the call ends.
SkipLogout(c) ==
  /\ Goto(c, "logout", "release")
  /\ UNCHANGED <<op, pin, left, outcome, lock, eventVars, flagVars, reader, link,
                 posted, wireVars, panelVars, breaks>>

\* The finally clauses: log out, with an OSError suppressed ...
Logout(c) ==
  /\ Goto(c, "logout", "release")
  /\ Write(c, "END") \/ WriteFails
  /\ UNCHANGED <<op, pin, left, outcome, lock, eventVars, flagVars, reader, link,
                 posted, fromPanel, panelVars, breaks>>

\* Mutant: user_initiated_action is not reset when the call ends.
ReleaseKeepingFlag(c) ==
  /\ Goto(c, "release", "return")
  /\ lock' = NoCall
  /\ PostReturn(c)
  /\ UNCHANGED <<op, pin, left, outcome, eventVars, flagVars, reader, link,
                 wireVars, panelVars, breaks>>

\* Mutant: a call that ends with an exception does not give the lock back.
ReleaseOnSuccess(c) ==
  /\ Goto(c, "release", "return")
  /\ lock' = IF outcome[c] = "ok" THEN NoCall ELSE lock
  /\ userInitiated' = (userInitiated /\ op[c] # "modify")
  /\ PostReturn(c)
  /\ UNCHANGED <<op, pin, left, outcome, eventVars, pinRejected, reader, link,
                 wireVars, panelVars, breaks>>

\* ... then drop the user flag (modify_section only) and the lock.
Release(c) ==
  /\ Goto(c, "release", "return")
  /\ lock' = NoCall
  /\ userInitiated' = (userInitiated /\ op[c] # "modify")
  /\ PostReturn(c)
  /\ UNCHANGED <<op, pin, left, outcome, eventVars, pinRejected, reader, link,
                 wireVars, panelVars, breaks>>

CallStep(c) ==
  \/ CheckFails(c) \/ CheckPasses(c) \/ Acquire(c)
  \/ SendEnd(c) \/ RejectCode(c) \/ SendCode(c)
  \/ ClearLogin(c) \/ ResetAuthError(c) \/ AwaitLogin(c) \/ ReadVerdict(c)
  \/ SendCommand(c) \/ ClearAck(c) \/ AwaitAck(c)
  \/ ClearDone(c) \/ AwaitDone(c) \/ ReadConfig(c)
  \/ QueryDevice(c) \/ AwaitDevice(c) \/ FinishProbe(c)
  \/ Logout(c) \/ Release(c)

-----------------------------------------------------------------------------
(***************************************************************************)
(* The reader thread.                                                      *)
(***************************************************************************)
\* Read one report; on_packets runs before _check_command_responses.
ReadAnswer ==
  /\ reader = "idle" /\ link = "up" /\ fromPanel # <<>>
  /\ reader' = Head(fromPanel).type
  /\ fromPanel' = Tail(fromPanel)
  /\ posted' = IF Head(fromPanel).type = "WRONG"
               THEN Append(posted, Head(fromPanel)) ELSE posted
  /\ UNCHANGED <<callVars, lock, eventVars, flagVars, link, toPanel, panelVars, breaks>>

\* _check_command_responses: the error flag first ...
MarkAuthError ==
  /\ reader = "WRONG" /\ reader' = "MARKED"
  /\ authError' = TRUE
  /\ UNCHANGED <<callVars, lock, loginEvent, ackEvent, doneEvent, flagVars, link,
                 posted, wireVars, panelVars, breaks>>

\* ... then the event.
SignalAnswer ==
  /\ reader \in {"LOGIN", "MARKED", "ACK", "DONE"}
  /\ reader' = "idle"
  /\ loginEvent' = (loginEvent \/ reader \in {"LOGIN", "MARKED"})
  /\ ackEvent' = (ackEvent \/ reader = "ACK")
  /\ doneEvent' = (doneEvent \/ reader = "DONE")
  /\ UNCHANGED <<callVars, lock, authError, flagVars, link, posted, wireVars,
                 panelVars, breaks>>

\* A read or keepalive write raises OSError: _reconnect closes the fd.
NoticeBreak ==
  /\ reader = "idle" /\ link = "broken"
  /\ link' = "closed"
  /\ UNCHANGED <<callVars, lock, eventVars, flagVars, reader, posted, wireVars,
                 panelVars, breaks>>

\* os.open succeeds again.  The startup packets need no session.
Reopen ==
  /\ reader = "idle" /\ link = "closed"
  /\ link' = "up"
  /\ UNCHANGED <<callVars, lock, eventVars, flagVars, reader, posted, wireVars,
                 panelVars, breaks>>

ReaderStep == ReadAnswer \/ MarkAuthError \/ SignalAnswer \/ NoticeBreak \/ Reopen

-----------------------------------------------------------------------------
(***************************************************************************)
(* The panel and the link (external).                                      *)
(***************************************************************************)
PanelTakes(type) ==
  /\ toPanel # <<>> /\ Head(toPanel).type = type
  /\ toPanel' = Tail(toPanel)

\* Answers to the request being handled.
Answer(types) == fromPanel' = fromPanel \o [i \in DOMAIN types |->
                                  [type |-> types[i], of |-> Head(toPanel).of]]

PanelEnd ==
  /\ PanelTakes("END")
  /\ session' = NoCall /\ stale' = FALSE
  /\ UNCHANGED <<fromPanel, accepted, refused, applied>>

PanelCode ==
  /\ PanelTakes("CODE")
  /\ LET c == Head(toPanel).of IN
       \/ /\ pin[c] = "valid"
          /\ session' = c /\ accepted' = accepted \cup {c}
          /\ stale' = FALSE
          /\ Answer(<<"LOGIN">>)
          /\ UNCHANGED refused
       \/ /\ pin[c] # "valid"
          /\ refused' = refused \cup {c}
          /\ Answer(<<"WRONG">>)
          /\ UNCHANGED <<session, accepted, stale>>
  /\ UNCHANGED applied

\* Without a session the panel reports NO_SESSION, which nobody looks at.
PanelCommand(type, answers) ==
  /\ PanelTakes(type)
  /\ IF session # NoCall
     THEN applied' = [applied EXCEPT ![Head(toPanel).of] = @ + 1] /\ Answer(answers)
     ELSE UNCHANGED <<applied, fromPanel>>
  /\ UNCHANGED <<session, accepted, refused, stale>>

PanelModify == PanelCommand("MODIFY", <<"ACK">>)
PanelExport == PanelCommand("EXPORT", <<"ACK", "DONE">>)
PanelQuery  == PanelCommand("QUERY", <<>>)

PanelStep ==
  /\ PanelEnd \/ PanelCode \/ PanelModify \/ PanelExport \/ PanelQuery
  /\ UNCHANGED <<callVars, lock, eventVars, flagVars, reader, link, posted, breaks>>

\* The cable or the hub drops: what is in flight is lost in both directions.
\* Whether the panel ends its UI session then is not known: it may keep it.
LinkBreak ==
  /\ link = "up" /\ breaks < MaxBreaks
  /\ link' = "broken" /\ breaks' = breaks + 1
  /\ toPanel' = <<>> /\ fromPanel' = <<>>
  /\ session' \in {session, NoCall}
  /\ stale' = (session' # NoCall)
  /\ UNCHANGED <<callVars, lock, eventVars, flagVars, reader, posted,
                 accepted, refused, applied>>

-----------------------------------------------------------------------------
\* No call is under way and nothing is left to handle: the threads wait.
Idle ==
  /\ \A c \in Calls : pc[c] \in {"new", "returned"}
  /\ posted = <<>> /\ Quiet
  /\ UNCHANGED vars

LoopStep == (\E c \in Calls : Start(c)) \/ HandleWrongCode \/ Resume

Next ==
  \/ LoopStep
  \/ \E c \in Calls : CallStep(c)
  \/ ReaderStep
  \/ PanelStep
  \/ LinkBreak
  \/ Idle

Spec == Init /\ [][Next]_vars

(***************************************************************************)
(* Threads that can run do run, the panel answers and the loop serves its  *)
(* queue.  The USB link may break, but a broken one is found and reopened. *)
(***************************************************************************)
Fairness ==
  /\ \A c \in Calls : WF_vars(CallStep(c))
  /\ WF_vars(ReaderStep) /\ WF_vars(PanelStep)
  /\ WF_vars(HandleWrongCode \/ Resume)

FairSpec == Spec /\ Fairness

-----------------------------------------------------------------------------
(***************************************************************************)
(* What the session lock is for.                                           *)
(***************************************************************************)
\* The panel carries a command out only in a session that the call's own PIN
\* opened: no other call's packets come between AUTH_CODE and the command
\* (_session_lock), and a session left open by an earlier call is closed by
\* the leading AUTH_END of modify_section, export_config, probe_all_devices.
\* The one exception is a session that outlived a broken link.
NoForeignExecution ==
  [][\A c \in Calls : applied'[c] # applied[c] => session = c \/ stale]_vars

\* Whichever way a call ended, once the lock is free the panel's session is
\* closed or the AUTH_END that closes it is on its way (the finally clauses),
\* so the next call starts from a logged-out panel.
LoggedOutWhenFree ==
  lock = NoCall /\ session # NoCall =>
    stale \/ \E i \in DOMAIN toPanel : toPanel[i].type = "END"

\* user_initiated_action is raised only while a user's own call holds the
\* lock: it is never left behind for a later service call, whose WRONG_CODE
\* would then go unnoticed.
UserFlagMeansUserHoldsLock == userInitiated => lock \in UserCalls

(***************************************************************************)
(* The argument for the three, as an inductive invariant.                  *)
(***************************************************************************)
\* Where a call may have opened a session it has not asked to close.
AfterCode == Locked \ {"end", "code", "release"}

Owner == IF lock # NoCall /\ pc[lock] \in AfterCode THEN lock ELSE NoCall

\* The open session, unless it is one that outlived its link.
Standing == IF stale THEN NoCall ELSE session

\* No AUTH_END among the packets of q in the set of positions.
NoEnd(q, positions) == \A i \in positions : q[i].type # "END"

\* Between two AUTH_ENDs all packets are of one call; before the first one
\* they are of the standing session's call, after the last one of the owner.
OneCallPerSession(q, standing, owner) ==
  /\ NoEnd(q, 1..Len(q)) /\ standing # NoCall => standing = owner
  /\ \A i \in 1..Len(q) :
       /\ NoEnd(q, i..Len(q)) => q[i].of = owner
       /\ NoEnd(q, 1..i) /\ standing # NoCall => q[i].of = standing
  /\ \A i, j \in 1..Len(q) : i < j /\ NoEnd(q, i..j) => q[i].of = q[j].of

LockInv == \A c \in Calls : pc[c] \in Locked <=> lock = c

UserFlagInv == userInitiated => lock \in UserCalls /\ pc[lock] # "end"

LinkInv == link # "up" => toPanel = <<>> /\ Standing = NoCall

\* All of it: modify_section, export_config and probe_all_devices hold the lock
\* from the first packet to the last, the user flag lives within that, and the
\* packets on the wire are grouped by session.
SessionInv ==
  /\ LockInv /\ UserFlagInv /\ LinkInv
  /\ OneCallPerSession(toPanel, Standing, Owner)

(***************************************************************************)
(* What a call reports, when the panel answers in time (Prompt).           *)
(***************************************************************************)
\* An arm, disarm or export that reports success was carried out by the panel
\* exactly once: the acknowledgement it waited for is its own.
OkMeansApplied ==
  \A c \in Calls : outcome[c] = "ok" /\ op[c] # "probe" => applied[c] = 1

\* A user is told that the PIN was wrong only if the panel refused that PIN,
\* never because of the answer to somebody else's.
AuthErrorMeansRefused ==
  \A c \in UserCalls : outcome[c] = "auth" => c \in refused

(***************************************************************************)
(* What the documentation says and the interleavings break.                *)
(***************************************************************************)
\* coordinator.py:261-263: a WRONG_CODE taken for the service PIN's really is
\* the service PIN's, so reauthentication is not forced by a user's typo.
ReauthOnlyForServicePin == pinRejected => refused \cap ServiceCalls # {}

\* client.py:236-237: while service_pin_rejected is set no internal call logs in.
BlockedMeansNoServiceLogin ==
  [][\A c \in ServiceCalls : pc[c] = "code" /\ pc'[c] = "clear" => ~pinRejected]_vars

(***************************************************************************)
(* Progress.                                                               *)
(***************************************************************************)
\* Every call returns, whatever fails on the way: each path that takes the
\* session lock gives it back, the export's included, which holds the lock
\* across export_config, the reading of the volume and end_session.
EveryCallReturns ==
  \A c \in Calls : pc[c] = "check" ~> pc[c] = "returned"
=============================================================================
