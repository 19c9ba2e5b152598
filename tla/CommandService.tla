--------------------------- MODULE CommandService ---------------------------
(***************************************************************************)
(* What the authenticated command path promises to its callers, without    *)
(* threads, events, locks or queues: calls are admitted to the panel one   *)
(* at a time, each with its own PIN, and a call that reports success has   *)
(* had its command carried out, once.                                      *)
(***************************************************************************)
EXTENDS Integers

CONSTANTS Calls, NoCall, Devices

VARIABLES
  status,   \* status[c]: "new", "running", "ok" or "failed"
  kind,     \* kind[c]: "modify", "export" or "probe"
  genuine,  \* genuine[c]: the panel knows the call's PIN
  session,  \* the call the panel is logged in for, or NoCall
  torn,     \* the session outlived the link it was opened on
  applied   \* applied[c]: how often the panel carried out the call's command

vars == <<status, kind, genuine, session, torn, applied>>

\* A probe may query each of its devices, any other call has one command.
Allowance(c) == IF kind[c] = "probe" THEN Devices ELSE 1

Init ==
  /\ status = [c \in Calls |-> "new"]
  /\ kind \in [Calls -> {"modify", "export", "probe"}]
  /\ genuine \in [Calls -> BOOLEAN]
  /\ session = NoCall /\ torn = FALSE
  /\ applied = [c \in Calls |-> 0]

Begin(c) ==
  /\ status[c] = "new"
  /\ status' = [status EXCEPT ![c] = "running"]
  /\ UNCHANGED <<kind, genuine, session, torn, applied>>

\* The panel opens a session for a genuine PIN, and only if none is open.
Admit(c) ==
  /\ status[c] = "running" /\ genuine[c]
  /\ session = NoCall \/ torn
  /\ session' = c /\ torn' = FALSE
  /\ UNCHANGED <<status, kind, genuine, applied>>

\* The command is carried out in the call's own session, while it is running.
Apply(c) ==
  /\ status[c] = "running"
  /\ session = c \/ torn
  /\ applied[c] < Allowance(c)
  /\ applied' = [applied EXCEPT ![c] = @ + 1]
  /\ UNCHANGED <<status, kind, genuine, session, torn>>

Close ==
  /\ session # NoCall \/ torn
  /\ session' = NoCall /\ torn' = FALSE
  /\ UNCHANGED <<status, kind, genuine, applied>>

\* A broken link leaves the session open behind the client's back.
Tear ==
  /\ session # NoCall
  /\ torn' = TRUE
  /\ UNCHANGED <<status, kind, genuine, session, applied>>

Succeed(c) ==
  /\ status[c] = "running"
  /\ kind[c] # "probe" => applied[c] = 1
  /\ status' = [status EXCEPT ![c] = "ok"]
  /\ UNCHANGED <<kind, genuine, session, torn, applied>>

Fail(c) ==
  /\ status[c] = "running"
  /\ status' = [status EXCEPT ![c] = "failed"]
  /\ UNCHANGED <<kind, genuine, session, torn, applied>>

Next ==
  \/ \E c \in Calls : Begin(c) \/ Admit(c) \/ Apply(c) \/ Succeed(c) \/ Fail(c)
  \/ Close \/ Tear

Spec == Init /\ [][Next]_vars
=============================================================================
