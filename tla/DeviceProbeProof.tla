-------------------------- MODULE DeviceProbeProof --------------------------
(***************************************************************************)
(* Proofs about module DeviceProbe, for any number of devices, any of them *)
(* on the bus, and any number of link breaks.                              *)
(***************************************************************************)
EXTENDS DeviceProbe, FiniteSetTheorems, SequenceTheorems, TLAPS

USE DEF threadVars, eventVars, panelVars, historyVars, Goto

-----------------------------------------------------------------------------
(***************************************************************************)
(* The inductive invariant.                                                *)
(***************************************************************************)
\* The devices that packets of a type in a queue are of.
Pending(queue, type) ==
  {n \in 0..NumDevices : \E k \in 1..Len(queue) : queue[k].type = type /\ queue[k].of = n}

Ascends(queue, type) ==
  \A j, k \in 1..Len(queue) :
    j < k /\ queue[j].type = type /\ queue[k].type = type => queue[j].of < queue[k].of

Queried == Pending(toPanel, "QUERY")
Coming == Pending(fromPanel, "STATUS")
Forced == Pending(toPanel, "FORCE")
Diagnostics == Pending(fromPanel, "DIAG")

Listed == {n \in 0..NumDevices : \E i \in 1..Len(results) : results[i].device = n}

Before == {"clearStatus", "dropStatus", "query"}
Asking == {"query", "awaitStatus", "takeStatus"}
After == {"clearDiag", "dropDiag", "start", "force", "awaitDiag", "stop", "stopAnyway",
          "takeDiag", "keep"}
Round == Before \cup Asking \cup After

RoundInv == pc \in Round => at \in Devices

\* Devices grow from the list through the response field and the answers to the
\* queries, and a response that is in the list is never taken again.
LagInv ==
  /\ Ascends(toPanel, "QUERY") /\ Ascends(fromPanel, "STATUS")
  /\ \A m \in Coming, n \in Queried : m < n
  /\ \A n \in Coming \cup Queried : n <= at /\ statusResponse < n
  /\ \A m \in Listed, n \in Coming \cup Queried : m < n
  /\ \A m \in Listed : m <= at /\ (statusResponse # None => m <= statusResponse)
  /\ statusResponse <= at
  /\ pc \in Before => \A n \in Coming \cup Queried \cup {statusResponse} : n < at
  /\ pc \in Before \cup Asking => \A m \in Listed : m < at
  /\ pc \in Asking /\ statusResponse # None => \A m \in Listed : m < statusResponse
  /\ pc \in After /\ status # None =>
       /\ status <= at /\ (statusResponse # None => status <= statusResponse)
       /\ \A m \in Listed : m < status
       /\ \A n \in Coming \cup Queried : status < n

\* A stop of the device follows the first i packets, with no start before it.
Stops(queue, i, d) ==
  \E j \in (i + 1)..Len(queue) :
    /\ queue[j].type = "STOP" /\ queue[j].of = d
    /\ \A k \in (i + 1)..(j - 1) : queue[k].type # "START"

NoStart(queue, i) == \A k \in (i + 1)..Len(queue) : queue[k].type # "START"

\* The thread has yet to write the stop.
Owes(d) == pc \in {"force", "awaitDiag", "stop", "stopAnyway"} /\ at = d

Closing(queue, i, d) == Stops(queue, i, d) \/ (NoStart(queue, i) /\ Owes(d))

\* Each link break has left at most one device in diagnostics mode, and at most
\* one other is in it, whose stop is to come.
StopInv ==
  /\ link # "up" => toPanel = <<>>
  /\ \A i \in 1..Len(toPanel) : toPanel[i].type = "START" => Closing(toPanel, i, toPanel[i].of)
  /\ \E lost \in SUBSET Devices, current \in Devices \cup {None} :
       /\ Cardinality(lost) <= breaks
       /\ diagnosing \subseteq lost \cup {current}
       /\ current # None => link = "up" /\ Closing(toPanel, 0, current)

\* As long as no wait has ended too early: what is on its way when a query is
\* made is the answer to that query.
NoStatus == Queried = {} /\ Coming = {} /\ reader.type # "STATUS"
NoDiagnostic == Forced = {} /\ Diagnostics = {} /\ reader.type # "DIAG"

StatusInv ==
  /\ pc \notin {"awaitStatus", "logout", "done"} => NoStatus
  /\ pc = "awaitStatus" =>
       /\ Queried \cup Coming \subseteq {at}
       /\ reader.type = "STATUS" => Queried = {} /\ Coming = {}
       /\ statusEvent => NoStatus
  /\ pc \in {"dropStatus", "query"} => ~statusEvent
  /\ pc \in Asking => statusResponse \in {None, at}
  /\ pc \in After => status \in {None, at}

DiagnosticInv ==
  /\ pc \notin {"logout", "done"} => Ascends(toPanel, "FORCE") /\ Ascends(fromPanel, "DIAG")
  /\ pc \notin {"awaitDiag", "logout", "done"} => NoDiagnostic
  /\ pc = "awaitDiag" =>
       /\ Forced \cup Diagnostics \subseteq {at} /\ (Diagnostics # {} => Forced = {})
       /\ reader.type = "DIAG" => Forced = {} /\ Diagnostics = {}
       /\ diagEvent => NoDiagnostic
  /\ pc \in {"dropDiag", "start", "force"} => ~diagEvent
  /\ pc \in {"start", "force", "awaitDiag", "stop", "takeDiag"} => diagResponse \in {None, at}
  /\ pc \in Round => diagnostic \in {None, at}

\* And while the link has not broken every answer is listed or will be.
AnsweredInv ==
  /\ link = "up"
  /\ pc # "awaitStatus" => NoStatus
  /\ pc \in {"loop", "logout", "done"} \cup Before => answered = Listed
  /\ pc = "awaitStatus" =>
       IF Coming # {} \/ reader.type = "STATUS" \/ statusEvent
       THEN answered = Listed \cup {at}
       ELSE answered = Listed
  /\ pc = "awaitStatus" /\ (reader.type = "STATUS" \/ statusEvent) => statusResponse = at
  /\ pc = "takeStatus" => answered = Listed \cup {at} /\ statusResponse = at
  /\ pc \in After => answered = Listed \cup ({status} \ {None})

TimelyInv ==
  ~hurried =>
    /\ StatusInv /\ DiagnosticInv
    /\ \A i \in DOMAIN results : results[i].diagnostic \in {None, results[i].device}
    /\ breaks = 0 => AnsweredInv

Inv == TypeOK /\ RoundInv /\ LagInv /\ LateAnswersOnlyLag /\ StopInv /\ TimelyInv

-----------------------------------------------------------------------------
(***************************************************************************)
(* Queues.                                                                 *)
(***************************************************************************)
\* Packets are of devices, except the last.
LEMMA PacketOf ==
  /\ \A p \in Commands : p.of \in 0..NumDevices /\ (p.type # "END" => p.of \in Devices)
  /\ \A p \in Answers : p.of \in 0..NumDevices /\ p.of \in Devices /\ p.type \in {"STATUS", "DIAG"}
BY ProbeAssumption DEF Commands, Answers, Devices, None

\* Nothing is pending in an empty queue.
LEMMA PendingEmpty ==
  ASSUME NEW S, NEW type
  PROVE  <<>> \in Seq(S) /\ Pending(<<>>, type) = {} /\ Ascends(<<>>, type)
<1>1. <<>> \in Seq(S) /\ Len(<<>>) = 0 /\ 1..Len(<<>>) = {}
  OBVIOUS
<1> QED
  BY <1>1 DEF Pending, Ascends

\* What a packet put behind a queue adds.
LEMMA PendingAppend ==
  ASSUME NEW S \in {Commands, Answers},
         NEW queue \in Seq(S), NEW packet \in S, NEW type
  PROVE  /\ Append(queue, packet) \in Seq(S)
         /\ packet.type = type => Pending(Append(queue, packet), type) = Pending(queue, type) \cup {packet.of}
         /\ packet.type # type => Pending(Append(queue, packet), type) = Pending(queue, type)
         /\ Ascends(queue, type)
              /\ (packet.type = type => \A n \in Pending(queue, type) : n < packet.of)
              => Ascends(Append(queue, packet), type)
<1> DEFINE grown == Append(queue, packet)
           n == Len(queue)
<1>1. /\ n \in Nat /\ grown \in Seq(S) /\ Len(grown) = n + 1
      /\ \A k \in 1..n : grown[k] = queue[k] /\ queue[k] \in S
      /\ grown[n + 1] = packet
  BY AppendProperties, LenProperties
<1> \A p \in S : p.of \in 0..NumDevices
  BY PacketOf
<1>2. 1..Len(grown) = (1..n) \cup {n + 1} /\ \A k \in 1..Len(grown) : ~(n + 1 < k)
  BY <1>1
<1>3. packet.type = type => Pending(grown, type) = Pending(queue, type) \cup {packet.of}
  BY <1>1, <1>2 DEF Pending
<1>4. packet.type # type => Pending(grown, type) = Pending(queue, type)
  BY <1>1, <1>2 DEF Pending
<1>5. ASSUME Ascends(queue, type), packet.type = type => \A m \in Pending(queue, type) : m < packet.of,
             NEW j \in 1..Len(grown), NEW k \in 1..Len(grown),
             j < k, grown[j].type = type, grown[k].type = type
      PROVE  grown[j].of < grown[k].of
  <2>1. j \in 1..n
    BY <1>1, <1>5
  <2>2. CASE k = n + 1
    <3>1. queue[j].of \in Pending(queue, type)
      BY <1>1, <1>5, <2>1 DEF Pending
    <3> QED
      BY <1>1, <1>5, <2>1, <2>2, <3>1
  <2>3. CASE k # n + 1
    <3>1. k \in 1..n
      BY <1>1, <2>3
    <3> QED
      BY <1>1, <1>5, <2>1, <3>1 DEF Ascends
  <2> QED
    BY <2>2, <2>3
<1> QED
  BY <1>1, <1>3, <1>4, <1>5 DEF Ascends

\* What is pending when the first packet is taken.
LEMMA PendingTail ==
  ASSUME NEW S \in {Commands, Answers},
         NEW queue \in Seq(S), queue # <<>>, NEW type
  PROVE  /\ Tail(queue) \in Seq(S) /\ Head(queue) \in S
         /\ Pending(Tail(queue), type) \subseteq Pending(queue, type)
         /\ Head(queue).type = type => Pending(queue, type) = Pending(Tail(queue), type) \cup {Head(queue).of}
         /\ Head(queue).type # type => Pending(queue, type) = Pending(Tail(queue), type)
         /\ Ascends(queue, type)
              => /\ Ascends(Tail(queue), type)
                 /\ Head(queue).type = type => \A n \in Pending(Tail(queue), type) : Head(queue).of < n
<1> DEFINE rest == Tail(queue)
           first == Head(queue)
           n == Len(rest)
<1>1. /\ n \in Nat /\ rest \in Seq(S) /\ first \in S /\ Len(queue) = n + 1
      /\ first = queue[1]
      /\ \A k \in 1..n : rest[k] = queue[k + 1]
  BY HeadTailProperties, LenProperties
<1> \A p \in S : p.of \in 0..NumDevices
  BY PacketOf
<1>2. /\ \A k \in 1..n : k + 1 \in 1..Len(queue) /\ 1 < k + 1
      /\ 1 \in 1..Len(queue)
      /\ \A j, k \in 1..n : j < k => j + 1 < k + 1
  BY <1>1
<1>3. \A k \in 1..Len(queue) : k = 1 \/ (k - 1 \in 1..n /\ queue[k] = rest[k - 1])
  BY <1>1
<1>4. Pending(rest, type) \subseteq Pending(queue, type)
  BY <1>1, <1>2 DEF Pending
<1>5. Pending(queue, type) \subseteq Pending(rest, type) \cup {first.of}
  BY <1>1, <1>3 DEF Pending
<1>6. first.type # type => Pending(queue, type) \subseteq Pending(rest, type)
  BY <1>1, <1>3 DEF Pending
<1>7. first.type = type => first.of \in Pending(queue, type)
  BY <1>1, <1>2 DEF Pending
<1>8. Ascends(queue, type) => Ascends(rest, type)
  BY <1>1, <1>2 DEF Ascends
<1>9. Ascends(queue, type) /\ first.type = type => \A m \in Pending(rest, type) : first.of < m
  BY <1>1, <1>2 DEF Ascends, Pending
<1> QED
  BY <1>1, <1>4, <1>5, <1>6, <1>7, <1>8, <1>9

\* What a command adds to the others.
LEMMA CommandAppend ==
  ASSUME toPanel \in Seq(Commands), NEW packet \in Commands, toPanel' = Append(toPanel, packet), NEW type
  PROVE  /\ packet.type = type => Pending(toPanel', type) = Pending(toPanel, type) \cup {packet.of}
         /\ packet.type # type => Pending(toPanel', type) = Pending(toPanel, type)
         /\ Ascends(toPanel, type)
              /\ (packet.type = type => \A n \in Pending(toPanel, type) : n < packet.of)
              => Ascends(toPanel', type)
<1>1. /\ packet.type = type => Pending(Append(toPanel, packet), type) = Pending(toPanel, type) \cup {packet.of}
      /\ packet.type # type => Pending(Append(toPanel, packet), type) = Pending(toPanel, type)
      /\ Ascends(toPanel, type)
           /\ (packet.type = type => \A n \in Pending(toPanel, type) : n < packet.of)
           => Ascends(Append(toPanel, packet), type)
  BY PendingAppend
<1> QED
  BY <1>1

\* What a write adds to the commands.
LEMMA WriteAdds ==
  ASSUME toPanel \in Seq(Commands), NEW sent \in {"QUERY", "START", "FORCE", "STOP"},
         NEW d \in Devices, Write(sent, d), NEW type
  PROVE  /\ sent = type => Pending(toPanel', type) = Pending(toPanel, type) \cup {d}
         /\ sent # type => Pending(toPanel', type) = Pending(toPanel, type)
         /\ Ascends(toPanel, type) /\ (sent = type => \A n \in Pending(toPanel, type) : n < d)
              => Ascends(toPanel', type)
<1> DEFINE packet == [type |-> sent, of |-> d]
<1>1. packet \in Commands /\ packet.type = sent /\ packet.of = d
  BY DEF Commands
<1>2. toPanel' = Append(toPanel, packet)
  BY DEF Write
<1> HIDE DEF packet
<1>3. /\ packet.type = type => Pending(toPanel', type) = Pending(toPanel, type) \cup {packet.of}
      /\ packet.type # type => Pending(toPanel', type) = Pending(toPanel, type)
      /\ Ascends(toPanel, type)
           /\ (packet.type = type => \A n \in Pending(toPanel, type) : n < packet.of)
           => Ascends(toPanel', type)
  BY <1>1, <1>2, CommandAppend
<1> QED
  BY <1>1, <1>3

\* What is left when the panel takes a command.
LEMMA CommandTail ==
  ASSUME toPanel \in Seq(Commands), toPanel # <<>>, toPanel' = Tail(toPanel), NEW type,
         NEW first, first = Head(toPanel)
  PROVE  /\ toPanel' \in Seq(Commands) /\ first \in Commands
         /\ Pending(toPanel', type) \subseteq Pending(toPanel, type)
         /\ first.type = type =>
              Pending(toPanel, type) = Pending(toPanel', type) \cup {first.of}
         /\ first.type # type => Pending(toPanel, type) = Pending(toPanel', type)
         /\ Ascends(toPanel, type)
              => /\ Ascends(toPanel', type)
                 /\ first.type = type => \A n \in Pending(toPanel', type) : first.of < n
<1>1. \A p \in Commands : p.of \in 0..NumDevices
  BY PacketOf
<1> QED
  BY <1>1, PendingTail

\* What is left when the reader takes an answer.
LEMMA AnswerTail ==
  ASSUME fromPanel \in Seq(Answers), fromPanel # <<>>, fromPanel' = Tail(fromPanel), NEW type,
         NEW first, first = Head(fromPanel)
  PROVE  /\ fromPanel' \in Seq(Answers) /\ first \in Answers
         /\ Pending(fromPanel', type) \subseteq Pending(fromPanel, type)
         /\ first.type = type =>
              Pending(fromPanel, type) = Pending(fromPanel', type) \cup {first.of}
         /\ first.type # type => Pending(fromPanel, type) = Pending(fromPanel', type)
         /\ Ascends(fromPanel, type)
              => /\ Ascends(fromPanel', type)
                 /\ first.type = type => \A n \in Pending(fromPanel', type) : first.of < n
<1>1. \A p \in Answers : p.of \in 0..NumDevices
  BY PacketOf
<1> QED
  BY <1>1, PendingTail

\* What an answer adds to the others.
LEMMA AnswerAppend ==
  ASSUME fromPanel \in Seq(Answers), NEW packet \in Answers, fromPanel' = Append(fromPanel, packet), NEW type
  PROVE  /\ packet.type = type => Pending(fromPanel', type) = Pending(fromPanel, type) \cup {packet.of}
         /\ packet.type # type => Pending(fromPanel', type) = Pending(fromPanel, type)
         /\ Ascends(fromPanel, type)
              /\ (packet.type = type => \A n \in Pending(fromPanel, type) : n < packet.of)
              => Ascends(fromPanel', type)
<1>1. /\ packet.type = type => Pending(Append(fromPanel, packet), type) = Pending(fromPanel, type) \cup {packet.of}
      /\ packet.type # type => Pending(Append(fromPanel, packet), type) = Pending(fromPanel, type)
      /\ Ascends(fromPanel, type)
           /\ (packet.type = type => \A n \in Pending(fromPanel, type) : n < packet.of)
           => Ascends(Append(fromPanel, packet), type)
  BY PendingAppend
<1> QED
  BY <1>1

\* What an answer adds to what comes from the panel.
LEMMA AnswerAdds ==
  ASSUME fromPanel \in Seq(Answers), NEW sent \in {"STATUS", "DIAG"},
         NEW d \in Devices, d = Head(toPanel).of, Answer(sent), NEW type
  PROVE  /\ sent = type => Pending(fromPanel', type) = Pending(fromPanel, type) \cup {d}
         /\ sent # type => Pending(fromPanel', type) = Pending(fromPanel, type)
         /\ Ascends(fromPanel, type) /\ (sent = type => \A n \in Pending(fromPanel, type) : n < d)
              => Ascends(fromPanel', type)
<1> DEFINE packet == [type |-> sent, of |-> d]
<1>1. packet \in Answers /\ packet.type = sent /\ packet.of = d
  BY DEF Answers
<1>2. fromPanel' = Append(fromPanel, packet)
  BY DEF Answer
<1> HIDE DEF packet
<1>3. /\ packet.type = type => Pending(fromPanel', type) = Pending(fromPanel, type) \cup {packet.of}
      /\ packet.type # type => Pending(fromPanel', type) = Pending(fromPanel, type)
      /\ Ascends(fromPanel, type)
           /\ (packet.type = type => \A n \in Pending(fromPanel, type) : n < packet.of)
           => Ascends(fromPanel', type)
  BY <1>1, <1>2, AnswerAppend
<1> QED
  BY <1>1, <1>3

-----------------------------------------------------------------------------
(***************************************************************************)
(* Types.                                                                  *)
(***************************************************************************)
\* The probing thread stays in its code and in the list of devices.
LEMMA NextThreadTypes ==
  ASSUME ThreadTypes, EventTypes, RoundInv, Next
  PROVE  ThreadTypes' /\ RoundInv'
<1> USE ProbeAssumption DEF ThreadTypes, RoundInv, Round, Before, Asking, After, Points
<1>1. CASE UNCHANGED threadVars
  BY <1>1
<1>2. ASSUME pc \in Round, pc' \in Round \cup {"loop", "logout"}, UNCHANGED <<at, results>>,
             status' \in {status, None, statusResponse}, diagnostic' \in {diagnostic, diagResponse}
      PROVE  ThreadTypes' /\ RoundInv'
  BY <1>2 DEF EventTypes, None
<1>3. CASE NextDevice
  BY <1>3 DEF NextDevice, Devices, None
<1>4. CASE LoopEnds \/ Logout
  BY <1>4 DEF LoopEnds, Logout
<1>5. CASE ClearStatus \/ DropStatus \/ QueryStatus
  BY <1>2, <1>5 DEF ClearStatus, DropStatus, QueryStatus, WriteStep
<1>6. CASE AwaitStatus \/ TakeStatus
  BY <1>2, <1>6 DEF AwaitStatus, TakeStatus, AfterStatus
<1>7. CASE ClearDiag \/ DropDiag \/ StartDiagnostics \/ ForceInfo
  BY <1>2, <1>7 DEF ClearDiag, DropDiag, StartDiagnostics, ForceInfo, WriteStep
<1>8. CASE AwaitDiagnostic \/ StopDiagnostics \/ StopAnyway \/ TakeDiagnostic
  BY <1>2, <1>8 DEF AwaitDiagnostic, StopDiagnostics, StopAnyway, TakeDiagnostic, WriteStep
<1>9. CASE KeepResult
  <2>1. pc = "keep" /\ pc' = "loop" /\ at \in Devices /\ UNCHANGED <<at, status, diagnostic>>
    BY <1>9 DEF KeepResult
  <2>2. CASE status = None
    BY <1>9, <2>1, <2>2 DEF KeepResult
  <2>3. CASE status # None
    <3>1. [position |-> at, device |-> status, diagnostic |-> diagnostic] \in Infos
      BY <2>1, <2>3 DEF Infos, Devices, None
    <3>2. results' = Append(results, [position |-> at, device |-> status, diagnostic |-> diagnostic])
      BY <1>9, <2>3 DEF KeepResult
    <3>3. results' \in Seq(Infos)
      BY <3>1, <3>2
    <3> QED
      BY <2>1, <3>3
  <2> QED
    BY <2>2, <2>3
<1>10. CASE ReaderStep
  BY <1>1, <1>10 DEF ReaderStep, StoreResponse, SignalResponse, NoticeBreak, Reopen
<1>11. CASE RejectPin \/ PanelStep \/ LinkBreak \/ Done
  BY <1>1, <1>11 DEF RejectPin, PanelStep, LinkBreak, Done, vars
<1> QED
  BY <1>3, <1>4, <1>5, <1>6, <1>7, <1>8, <1>9, <1>10, <1>11 DEF Next, ThreadStep

\* A write puts a command of the device behind the others.
LEMMA Written ==
  ASSUME WireTypes, NEW type \in {"QUERY", "START", "FORCE", "STOP"}, NEW d \in Devices, Write(type, d)
  PROVE  /\ link = "up" /\ [type |-> type, of |-> d] \in Commands
         /\ toPanel' = Append(toPanel, [type |-> type, of |-> d]) /\ toPanel' \in Seq(Commands)
<1>1. [type |-> type, of |-> d] \in Commands
  BY DEF Commands
<1> QED
  BY <1>1 DEF Write, WireTypes

\* The wire carries commands of devices and answers of devices.
LEMMA NextWireTypes ==
  ASSUME ThreadTypes, WireTypes, RoundInv, Next
  PROVE  WireTypes'
<1>1. CASE UNCHANGED <<toPanel, fromPanel, breaks>> /\ link' \in {link, "closed", "up"}
  BY <1>1 DEF WireTypes
<1>2. ASSUME NEW from, NEW type \in {"QUERY", "START", "FORCE", "STOP"}, NEW to, from \in Round,
             WriteStep(from, type, to)
      PROVE  WireTypes'
  <2>1. at \in Devices /\ UNCHANGED <<fromPanel, breaks, link>>
    BY <1>2 DEF WriteStep, RoundInv
  <2>2. CASE Write(type, at)
    BY <2>1, <2>2, Written DEF WireTypes
  <2>3. CASE WriteFails
    BY <2>1, <2>3 DEF WriteFails, WireTypes
  <2> QED
    BY <1>2, <2>2, <2>3 DEF WriteStep
<1>3. CASE QueryStatus \/ StartDiagnostics \/ ForceInfo \/ StopDiagnostics
  BY <1>2, <1>3 DEF QueryStatus, StartDiagnostics, ForceInfo, StopDiagnostics, Round, Asking, After
<1>4. CASE StopAnyway
  <2>1. at \in Devices /\ UNCHANGED <<fromPanel, breaks, link>>
    BY <1>4 DEF StopAnyway, RoundInv, Round, After
  <2>2. CASE Write("STOP", at)
    BY <2>1, <2>2, Written DEF WireTypes
  <2>3. CASE WriteFails
    BY <2>1, <2>3 DEF WriteFails, WireTypes
  <2> QED
    BY <1>4, <2>2, <2>3 DEF StopAnyway
<1>5. CASE Logout
  <2>1. [type |-> "END", of |-> None] \in Commands
    BY DEF Commands
  <2>2. toPanel' \in Seq(Commands)
    BY <1>5, <2>1 DEF Logout, Write, WriteFails, WireTypes
  <2> QED
    BY <1>5, <2>2 DEF Logout, WireTypes
<1>6. CASE NextDevice \/ LoopEnds \/ ClearStatus \/ DropStatus \/ AwaitStatus \/ TakeStatus
  BY <1>1, <1>6 DEF NextDevice, LoopEnds, ClearStatus, DropStatus, AwaitStatus, TakeStatus
<1>7. CASE ClearDiag \/ DropDiag \/ AwaitDiagnostic \/ TakeDiagnostic \/ KeepResult
  BY <1>1, <1>7 DEF ClearDiag, DropDiag, AwaitDiagnostic, TakeDiagnostic, KeepResult
<1>8. CASE StoreResponse
  BY <1>8, HeadTailProperties DEF StoreResponse, WireTypes
<1>9. CASE SignalResponse \/ NoticeBreak \/ Reopen \/ RejectPin \/ Done
  BY <1>1, <1>9 DEF SignalResponse, NoticeBreak, Reopen, RejectPin, Done, vars
<1>10. CASE PanelStep
  <2>1. toPanel # <<>> /\ toPanel' = Tail(toPanel) /\ UNCHANGED <<link, breaks>>
    BY <1>10 DEF PanelStep, PanelStatus, PanelStart, PanelForce, PanelStop, PanelEnd, PanelTakes
  <2>2. toPanel' \in Seq(Commands) /\ Head(toPanel) \in Commands
    BY <2>1, HeadTailProperties DEF WireTypes
  <2>3. ASSUME NEW type \in {"STATUS", "DIAG"}, Head(toPanel).type # "END", Answer(type)
        PROVE  fromPanel' \in Seq(Answers)
    <3>1. [type |-> type, of |-> Head(toPanel).of] \in Answers
      BY <2>2, <2>3, PacketOf DEF Answers
    <3> QED
      BY <2>3, <3>1 DEF Answer, WireTypes
  <2>4. fromPanel' \in Seq(Answers)
    BY <1>10, <2>3 DEF PanelStep, PanelStatus, PanelStart, PanelForce, PanelStop, PanelEnd,
       PanelTakes, WireTypes
  <2> QED
    BY <2>1, <2>2, <2>4 DEF WireTypes
<1>11. CASE LinkBreak
  BY <1>11, PendingEmpty, ProbeAssumption DEF LinkBreak, WireTypes
<1> QED
  BY <1>3, <1>4, <1>5, <1>6, <1>7, <1>8, <1>9, <1>10, <1>11 DEF Next, ThreadStep, ReaderStep

\* The events and response fields keep their types.
LEMMA NextEventTypes ==
  ASSUME EventTypes, WireTypes, Next
  PROVE  EventTypes'
<1> USE DEF EventTypes
<1>1. CASE ThreadStep
  <2>1. 0 \in 0..NumDevices
    BY ProbeAssumption
  <2>2. CASE ClearStatus \/ ClearDiag
    BY <2>2 DEF ClearStatus, ClearDiag
  <2>3. CASE DropStatus \/ DropDiag
    BY <2>1, <2>3 DEF DropStatus, DropDiag, None
  <2>4. CASE UNCHANGED <<eventVars, rejected, reader>>
    BY <2>4
  <2> QED
    BY <1>1, <2>2, <2>3, <2>4
       DEF ThreadStep, NextDevice, LoopEnds, QueryStatus, AwaitStatus, TakeStatus,
           StartDiagnostics, ForceInfo, AwaitDiagnostic, StopDiagnostics, StopAnyway,
           TakeDiagnostic, KeepResult, Logout, WriteStep
<1>2. CASE StoreResponse
  <2>1. reader' \in Answers /\ reader'.of \in 0..NumDevices
    BY <1>2, HeadTailProperties, PacketOf DEF StoreResponse, WireTypes
  <2> QED
    BY <1>2, <2>1 DEF StoreResponse
<1>3. CASE SignalResponse \/ NoticeBreak \/ Reopen
  BY <1>3 DEF SignalResponse, NoticeBreak, Reopen
<1>4. CASE RejectPin \/ PanelStep \/ LinkBreak \/ Done
  BY <1>4 DEF RejectPin, PanelStep, LinkBreak, Done, vars
<1> QED
  BY <1>1, <1>2, <1>3, <1>4 DEF Next, ReaderStep

\* So do the panel's session, its devices, and the history.
LEMMA NextPanelTypes ==
  ASSUME PanelTypes, WireTypes, EventTypes, Next
  PROVE  PanelTypes'
<1> USE DEF PanelTypes
<1>1. CASE ThreadStep
  BY <1>1
     DEF ThreadStep, NextDevice, LoopEnds, ClearStatus, DropStatus, QueryStatus, AwaitStatus,
         TakeStatus, ClearDiag, DropDiag, StartDiagnostics, ForceInfo, AwaitDiagnostic,
         StopDiagnostics, StopAnyway, TakeDiagnostic, KeepResult, Logout, WriteStep,
         Expires, IsSet
<1>2. CASE ReaderStep \/ RejectPin \/ LinkBreak \/ Done
  BY <1>2 DEF ReaderStep, StoreResponse, SignalResponse, NoticeBreak, Reopen, RejectPin,
     LinkBreak, Done, vars
<1>3. CASE PanelStep
  <2>1. Head(toPanel) \in Commands
    BY <1>3, HeadTailProperties
       DEF PanelStep, PanelStatus, PanelStart, PanelForce, PanelStop, PanelEnd, PanelTakes, WireTypes
  <2>2. Head(toPanel).type # "END" => Head(toPanel).of \in Devices
    BY <2>1, PacketOf
  <2> QED
    BY <1>3, <2>2
       DEF PanelStep, PanelStatus, PanelStart, PanelForce, PanelStop, PanelEnd, PanelTakes
<1> QED
  BY <1>1, <1>2, <1>3 DEF Next

\* Every step keeps the types.
LEMMA NextTypeOK ==
  ASSUME TypeOK, RoundInv, Next
  PROVE  TypeOK' /\ RoundInv'
BY NextThreadTypes, NextWireTypes, NextEventTypes, NextPanelTypes DEF TypeOK

-----------------------------------------------------------------------------
(***************************************************************************)
(* Late answers.                                                           *)
(***************************************************************************)
\* Pending devices are numbers of the list.
LEMMA Numbers ==
  ASSUME TypeOK
  PROVE  /\ Queried \subseteq Int /\ Coming \subseteq Int /\ Listed \subseteq Int
         /\ at \in Int /\ status \in Int /\ statusResponse \in Int /\ None \in Int
         /\ 0 <= statusResponse /\ 0 <= status /\ 0 <= at
BY ProbeAssumption
   DEF TypeOK, ThreadTypes, EventTypes, Queried, Coming, Listed, Pending, None

\* What the list holds after a result is kept.
LEMMA Kept ==
  ASSUME TypeOK, RoundInv, KeepResult, status # None
  PROVE  /\ Listed' = Listed \cup {status}
         /\ Len(results) \in Nat /\ Len(results') = Len(results) + 1
         /\ \A i \in 1..Len(results) : results'[i] = results[i] /\ results[i] \in Infos
                                       /\ results[i].device \in Listed
         /\ results'[Len(results')] = [position |-> at, device |-> status, diagnostic |-> diagnostic]
<1> DEFINE info == [position |-> at, device |-> status, diagnostic |-> diagnostic]
           n == Len(results)
<1>1. at \in Devices /\ status \in Devices /\ diagnostic \in 0..NumDevices
  BY ProbeAssumption
     DEF KeepResult, RoundInv, Round, After, TypeOK, ThreadTypes, Devices, None
<1>2. info \in Infos /\ results' = Append(results, info) /\ results \in Seq(Infos)
      /\ info.device = status
  BY <1>1 DEF KeepResult, Infos, TypeOK, ThreadTypes
<1> HIDE DEF info
<1>3. /\ n \in Nat /\ Len(results') = n + 1
      /\ \A i \in 1..n : results'[i] = results[i] /\ results[i] \in Infos
      /\ results'[n + 1] = info
  BY <1>2, AppendProperties, LenProperties
<1>4. \A i \in 1..n : results[i].device \in Listed
  BY <1>3, ProbeAssumption DEF Listed, Infos, Devices
<1>5. 1..Len(results') = (1..n) \cup {n + 1}
  BY <1>3
<1>6. status \in 0..NumDevices
  BY DEF TypeOK, ThreadTypes
<1>7. Listed' = Listed \cup {status}
  BY <1>2, <1>3, <1>5, <1>6 DEF Listed
<1> QED
  BY <1>3, <1>4, <1>7 DEF info

\* Steps that add nothing to either queue and keep the thread's numbers.
LEMMA CalmLagInv ==
  ASSUME LagInv, Ascends(toPanel', "QUERY"), Ascends(fromPanel', "STATUS"),
         Queried' \subseteq Queried, Coming' \subseteq Coming,
         UNCHANGED <<at, results, statusResponse, status>>,
         pc' \in Before => pc \in Before,
         pc' \in Asking => pc \in Asking,
         pc' \in After => pc \in After
  PROVE  LagInv'
<1>1. Listed' = Listed
  BY DEF Listed
<1> QED
  BY <1>1 DEF LagInv

\* Whatever is late, the order of devices is kept.
LEMMA NextLagInv ==
  ASSUME TypeOK, RoundInv, LagInv, Next
  PROVE  LagInv'
<1> USE Numbers
<1>1. /\ toPanel \in Seq(Commands) /\ fromPanel \in Seq(Answers)
      /\ \A p \in Commands : p.of \in 0..NumDevices
      /\ \A p \in Answers : p.of \in 0..NumDevices
      /\ Ascends(toPanel, "QUERY") /\ Ascends(fromPanel, "STATUS")
  BY PacketOf DEF TypeOK, WireTypes, LagInv
<1>2. fromPanel' = fromPanel => Coming' = Coming /\ Ascends(fromPanel', "STATUS")
  BY <1>1 DEF Coming
<1>3. toPanel' = toPanel => Queried' = Queried /\ Ascends(toPanel', "QUERY")
  BY <1>1 DEF Queried
<1>4. ASSUME NEW type \in {"START", "FORCE", "STOP"}, NEW d \in Devices, Write(type, d)
      PROVE  Queried' = Queried /\ Ascends(toPanel', "QUERY")
  BY <1>1, <1>4, WriteAdds DEF Queried
<1>5. CASE NextDevice
  <2>1. Listed' = Listed
    BY <1>5 DEF NextDevice, Listed
  <2> QED
    BY <1>2, <1>3, <1>5, <2>1 DEF NextDevice, LagInv, Before, Asking, After
<1>6. CASE LoopEnds \/ ClearStatus
  BY <1>2, <1>3, <1>6, CalmLagInv DEF LoopEnds, ClearStatus, Before, Asking, After
<1>7. CASE DropStatus
  <2>1. Listed' = Listed
    BY <1>7 DEF DropStatus, Listed
  <2> QED
    BY <1>2, <1>3, <1>7, <2>1 DEF DropStatus, LagInv, Before, Asking, After, None
<1>8. CASE QueryStatus
  <2>1. CASE pc' = "logout"
    BY <1>2, <1>3, <1>8, <2>1, CalmLagInv
       DEF QueryStatus, WriteStep, WriteFails, Before, Asking, After
  <2>2. CASE Write("QUERY", at) /\ pc' = "awaitStatus"
    <3>1. at \in Devices
      BY <1>8 DEF QueryStatus, WriteStep, RoundInv, Round, Asking
    <3>3. /\ pc = "query" /\ UNCHANGED <<at, results, statusResponse, status>>
          /\ Listed' = Listed /\ Coming' = Coming
      BY <1>2, <1>8 DEF QueryStatus, WriteStep, Listed
    <3>4. \A n \in Queried : n < at
      BY <3>3 DEF LagInv, Before
    <3>5. Queried' = Queried \cup {at} /\ Ascends(toPanel', "QUERY")
      BY <1>1, <2>2, <3>1, <3>4, WriteAdds DEF Queried
    <3> QED
      BY <1>2, <1>8, <2>2, <3>3, <3>5 DEF QueryStatus, WriteStep, LagInv, Before, Asking, After
  <2> QED
    BY <1>8, <2>1, <2>2 DEF QueryStatus, WriteStep
<1>9. CASE AwaitStatus
  <2>1. CASE pc' = "takeStatus"
    BY <1>2, <1>3, <1>9, <2>1, CalmLagInv
       DEF AwaitStatus, AfterStatus, Before, Asking, After
  <2>2. CASE pc' \in After /\ status' = None
    <3>1. Listed' = Listed /\ pc' \notin Before \cup Asking
      BY <1>9, <2>2 DEF AwaitStatus, Listed, Before, Asking, After
    <3> QED
      BY <1>2, <1>3, <1>9, <2>2, <3>1 DEF AwaitStatus, LagInv
  <2> QED
    BY <1>9, <2>1, <2>2 DEF AwaitStatus, AfterStatus, After
<1>10. CASE TakeStatus
  <2>1. /\ pc = "takeStatus" /\ pc' \in After /\ pc' \notin Before \cup Asking /\ Listed' = Listed
        /\ status' = statusResponse /\ UNCHANGED <<at, results, statusResponse, toPanel, fromPanel>>
    BY <1>10 DEF TakeStatus, AfterStatus, Listed, Before, Asking, After
  <2>2. statusResponse # None => \A m \in Listed : m < statusResponse
    BY <2>1 DEF LagInv, Asking
  <2> QED
    BY <1>2, <1>3, <2>1, <2>2 DEF LagInv
<1>11. CASE ClearDiag \/ DropDiag \/ AwaitDiagnostic \/ TakeDiagnostic
  BY <1>2, <1>3, <1>11, CalmLagInv
     DEF ClearDiag, DropDiag, AwaitDiagnostic, TakeDiagnostic, Before, Asking, After
<1>12. CASE StartDiagnostics \/ ForceInfo \/ StopDiagnostics \/ StopAnyway
  <2>1. /\ pc \in After /\ pc' \in After \cup {"logout"}
        /\ UNCHANGED <<at, results, statusResponse, status, fromPanel>>
    BY <1>12 DEF StartDiagnostics, ForceInfo, StopDiagnostics, StopAnyway, WriteStep, After
  <2>2. pc' \notin Before \cup Asking /\ at \in Devices
    BY <2>1 DEF Before, Asking, After, RoundInv, Round
  <2>3. Queried' = Queried /\ Ascends(toPanel', "QUERY")
    BY <1>3, <1>4, <1>12, <2>2
       DEF StartDiagnostics, ForceInfo, StopDiagnostics, StopAnyway, WriteStep, WriteFails
  <2> QED
    BY <1>2, <2>1, <2>2, <2>3, CalmLagInv
<1>13. CASE KeepResult
  <2>1. /\ pc = "keep" /\ pc' = "loop" /\ pc' \notin Before \cup Asking \cup After
        /\ UNCHANGED <<at, status, statusResponse, toPanel, fromPanel>>
    BY <1>13 DEF KeepResult, Before, Asking, After
  <2>2. CASE status = None
    BY <1>2, <1>3, <1>13, <2>1, <2>2, CalmLagInv DEF KeepResult
  <2>3. CASE status # None
    <3>1. Listed' = Listed \cup {status}
      BY <1>13, <2>3, Kept
    <3>2. /\ status <= at /\ (statusResponse # None => status <= statusResponse)
          /\ \A n \in Coming \cup Queried : status < n
      BY <2>1, <2>3 DEF LagInv, After
    <3> QED
      BY <1>2, <1>3, <2>1, <3>1, <3>2 DEF LagInv
  <2> QED
    BY <2>2, <2>3
<1>14. CASE Logout
  <2>1. [type |-> "END", of |-> None] \in Commands
    BY DEF Commands
  <2>2. Queried' = Queried /\ Ascends(toPanel', "QUERY")
    <3>1. CASE Write("END", None)
      BY <1>1, <2>1, <3>1, CommandAppend DEF Write, Queried
    <3>2. CASE WriteFails
      BY <1>3, <3>2 DEF WriteFails
    <3> QED
      BY <1>14, <3>1, <3>2 DEF Logout
  <2> QED
    BY <1>2, <1>14, <2>2, CalmLagInv DEF Logout, Before, Asking, After
<1>15. CASE StoreResponse
  <2> DEFINE first == Head(fromPanel)
  <2>1. /\ fromPanel # <<>> /\ fromPanel' = Tail(fromPanel) /\ Listed' = Listed
        /\ UNCHANGED <<pc, at, results, status, toPanel>>
        /\ \/ first.type = "STATUS" /\ statusResponse' = first.of
           \/ first.type = "DIAG" /\ UNCHANGED statusResponse
    BY <1>15 DEF StoreResponse, Listed
  <2>2. /\ Ascends(fromPanel', "STATUS") /\ Coming' \subseteq Coming
        /\ first.type = "STATUS" =>
             Coming = Coming' \cup {first.of} /\ \A n \in Coming' : first.of < n
    BY <1>1, <2>1, AnswerTail DEF Coming
  <2>3. CASE first.type = "DIAG"
    BY <1>3, <2>1, <2>2, <2>3, CalmLagInv
  <2>4. CASE first.type = "STATUS"
    <3>1. /\ statusResponse' = first.of /\ first.of \in Coming
          /\ \A n \in Queried : first.of < n
          /\ \A m \in Listed : m < first.of
          /\ first.of <= at /\ (pc \in Before => first.of < at)
          /\ pc \in After /\ status # None => status < first.of
      BY <2>1, <2>2, <2>4 DEF LagInv
    <3>2. first.of \in Int
      BY <3>1
    <3> QED
      BY <1>3, <2>1, <2>2, <2>4, <3>1, <3>2 DEF LagInv
  <2> QED
    BY <2>1, <2>3, <2>4
<1>16. CASE SignalResponse \/ NoticeBreak \/ Reopen \/ RejectPin \/ Done
  BY <1>2, <1>3, <1>16, CalmLagInv DEF SignalResponse, NoticeBreak, Reopen, RejectPin, Done, vars
<1>17. CASE PanelStep
  <2> DEFINE first == Head(toPanel)
  <2>1. /\ toPanel # <<>> /\ toPanel' = Tail(toPanel) /\ Listed' = Listed
        /\ UNCHANGED <<pc, at, results, status, statusResponse>>
        /\ \/ UNCHANGED fromPanel
           \/ first.type = "QUERY" /\ Answer("STATUS")
           \/ first.type = "FORCE" /\ Answer("DIAG")
    BY <1>17 DEF PanelStep, PanelStatus, PanelStart, PanelForce, PanelStop, PanelEnd,
       PanelTakes, Listed
  <2>2. /\ first \in Commands /\ Ascends(toPanel', "QUERY") /\ Queried' \subseteq Queried
        /\ first.type = "QUERY" =>
             Queried = Queried' \cup {first.of} /\ \A n \in Queried' : first.of < n
    BY <1>1, <2>1, CommandTail DEF Queried
  <2>3. CASE UNCHANGED fromPanel
    BY <1>2, <2>1, <2>2, <2>3, CalmLagInv
  <2>4. first.type # "END" => first.of \in Devices
    BY <2>2, PacketOf
  <2>5. CASE first.type = "FORCE" /\ Answer("DIAG")
    <3>1. Coming' = Coming /\ Ascends(fromPanel', "STATUS")
      BY <1>1, <2>4, <2>5, AnswerAdds DEF Coming
    <3> QED
      BY <2>1, <2>2, <3>1, CalmLagInv
  <2>6. CASE first.type = "QUERY" /\ Answer("STATUS")
    <3>1. \A n \in Coming : n < first.of
      BY <2>2, <2>6 DEF LagInv
    <3>2. Coming' = Coming \cup {first.of} /\ Ascends(fromPanel', "STATUS")
      BY <1>1, <2>4, <2>6, <3>1, AnswerAdds DEF Coming
    <3> QED
      BY <2>1, <2>2, <2>6, <3>2 DEF LagInv
  <2> QED
    BY <2>1, <2>3, <2>5, <2>6
<1>18. CASE LinkBreak
  <2>1. Queried' = {} /\ Coming' = {} /\ Ascends(toPanel', "QUERY") /\ Ascends(fromPanel', "STATUS")
    BY <1>18, PendingEmpty DEF LinkBreak, Queried, Coming
  <2> QED
    BY <1>18, <2>1, CalmLagInv DEF LinkBreak
<1> QED
  BY <1>5, <1>6, <1>7, <1>8, <1>9, <1>10, <1>11, <1>12, <1>13, <1>14, <1>15, <1>16, <1>17, <1>18
     DEF Next, ThreadStep, ReaderStep

\* A kept result is newer than those in the list, and not newer than its round.
LEMMA NextLate ==
  ASSUME TypeOK, RoundInv, LagInv, LateAnswersOnlyLag, Next
  PROVE  LateAnswersOnlyLag'
<1>1. CASE UNCHANGED results
  BY <1>1 DEF LateAnswersOnlyLag
<1>2. CASE KeepResult
  <2>1. CASE status = None
    BY <1>1, <1>2, <2>1 DEF KeepResult
  <2>2. CASE status # None
    <3> DEFINE n == Len(results)
    <3>1. /\ n \in Nat /\ DOMAIN results = 1..n /\ DOMAIN results' = 1..(n + 1)
          /\ \A i \in 1..n : results'[i] = results[i] /\ results[i].device \in Listed
          /\ results'[n + 1].device = status /\ results'[n + 1].position = at
      <4>1. results \in Seq(Infos) /\ results' \in Seq(Infos)
        BY <1>2, NextThreadTypes DEF TypeOK, ThreadTypes
      <4>2. /\ n \in Nat /\ Len(results') = n + 1
            /\ \A i \in 1..n : results'[i] = results[i] /\ results[i].device \in Listed
            /\ results'[n + 1] = [position |-> at, device |-> status, diagnostic |-> diagnostic]
        BY <1>2, <2>2, Kept
      <4> QED
        BY <4>1, <4>2
    <3>2. status <= at /\ (\A m \in Listed : m < status)
      BY <1>2, <2>2 DEF KeepResult, LagInv, After
    <3>3. \A i \in 1..(n + 1) : i \in 1..n \/ i = n + 1
      BY <3>1
    <3>4. \A i \in DOMAIN results' : results'[i].device <= results'[i].position
      BY <3>1, <3>2, <3>3 DEF LateAnswersOnlyLag
    <3>5. ASSUME NEW i \in DOMAIN results', NEW j \in DOMAIN results', i < j
          PROVE  results'[i].device < results'[j].device
      <4>1. i \in 1..n
        BY <3>1, <3>5
      <4>2. CASE j = n + 1
        BY <3>1, <3>2, <4>1, <4>2
      <4>3. CASE j \in 1..n
        BY <3>1, <3>5, <4>1, <4>3 DEF LateAnswersOnlyLag
      <4> QED
        BY <3>1, <3>3, <3>5, <4>2, <4>3
    <3> QED
      BY <3>4, <3>5 DEF LateAnswersOnlyLag
  <2> QED
    BY <2>1, <2>2
<1>3. CASE ThreadStep
  BY <1>1, <1>2, <1>3
     DEF ThreadStep, NextDevice, LoopEnds, ClearStatus, DropStatus, QueryStatus, AwaitStatus,
         TakeStatus, ClearDiag, DropDiag, StartDiagnostics, ForceInfo, AwaitDiagnostic,
         StopDiagnostics, StopAnyway, TakeDiagnostic, Logout, WriteStep
<1>4. CASE ReaderStep \/ RejectPin \/ PanelStep \/ LinkBreak \/ Done
  BY <1>1, <1>4 DEF ReaderStep, StoreResponse, SignalResponse, NoticeBreak, Reopen, RejectPin,
     PanelStep, LinkBreak, Done, vars
<1> QED
  BY <1>3, <1>4 DEF Next

-----------------------------------------------------------------------------
(***************************************************************************)
(* What steps do to what is on its way.                                    *)
(***************************************************************************)
\* Nothing is on its way in a quiet world.
LEMMA QuietMeans ==
  ASSUME Quiet
  PROVE  NoStatus /\ NoDiagnostic
BY PendingEmpty DEF Quiet, NoStatus, NoDiagnostic, Queried, Coming, Forced, Diagnostics, NoAnswer

\* The thread adds its two requests, and takes nothing away.
LEMMA ThreadQueues ==
  ASSUME TypeOK, RoundInv, ThreadStep
  PROVE  /\ UNCHANGED <<fromPanel, reader, answered, breaks, link>>
         /\ Coming' = Coming /\ Diagnostics' = Diagnostics
         /\ \/ Queried' = Queried
            \/ pc = "query" /\ pc' = "awaitStatus" /\ Queried' = Queried \cup {at}
         /\ \/ Forced' = Forced
            \/ pc = "force" /\ pc' = "awaitDiag" /\ Forced' = Forced \cup {at}
         /\ Ascends(toPanel, "FORCE") /\ (pc = "force" => Forced = {}) => Ascends(toPanel', "FORCE")
<1>1. toPanel \in Seq(Commands)
  BY DEF TypeOK, WireTypes
<1>2. UNCHANGED <<fromPanel, reader, answered, breaks, link>>
  BY DEF ThreadStep, NextDevice, LoopEnds, ClearStatus, DropStatus, QueryStatus, AwaitStatus,
         TakeStatus, ClearDiag, DropDiag, StartDiagnostics, ForceInfo, AwaitDiagnostic,
         StopDiagnostics, StopAnyway, TakeDiagnostic, KeepResult, Logout, WriteStep
<1>3. Coming' = Coming /\ Diagnostics' = Diagnostics
  BY <1>2 DEF Coming, Diagnostics
<1>4. CASE UNCHANGED toPanel
  BY <1>2, <1>3, <1>4 DEF Queried, Forced
<1>5. ASSUME NEW sent \in {"QUERY", "START", "FORCE", "STOP"}, at \in Devices, Write(sent, at)
      PROVE  /\ sent = "QUERY" => Queried' = Queried \cup {at}
             /\ sent # "QUERY" => Queried' = Queried
             /\ sent = "FORCE" => Forced' = Forced \cup {at}
             /\ sent # "FORCE" => Forced' = Forced
             /\ Ascends(toPanel, "FORCE") /\ (sent = "FORCE" => Forced = {}) => Ascends(toPanel', "FORCE")
  BY <1>1, <1>5, WriteAdds DEF Queried, Forced
<1>6. CASE QueryStatus
  <2>1. at \in Devices
    BY <1>6 DEF QueryStatus, WriteStep, RoundInv, Round, Asking
  <2>2. CASE Write("QUERY", at) /\ pc = "query" /\ pc' = "awaitStatus"
    BY <1>2, <1>3, <1>5, <2>1, <2>2
  <2> QED
    BY <1>4, <1>6, <2>2 DEF QueryStatus, WriteStep, WriteFails
<1>7. CASE ForceInfo
  <2>1. at \in Devices
    BY <1>7 DEF ForceInfo, WriteStep, RoundInv, Round, After
  <2>2. CASE Write("FORCE", at) /\ pc = "force" /\ pc' = "awaitDiag"
    BY <1>2, <1>3, <1>5, <2>1, <2>2
  <2> QED
    BY <1>4, <1>7, <2>2 DEF ForceInfo, WriteStep, WriteFails
<1>8. CASE StartDiagnostics
  <2>1. at \in Devices
    BY <1>8 DEF StartDiagnostics, WriteStep, RoundInv, Round, After
  <2>2. CASE Write("START", at) /\ pc = "start"
    BY <1>2, <1>3, <1>5, <2>1, <2>2
  <2> QED
    BY <1>4, <1>8, <2>2 DEF StartDiagnostics, WriteStep, WriteFails
<1>9. CASE StopDiagnostics \/ StopAnyway
  <2>1. at \in Devices
    BY <1>9 DEF StopDiagnostics, StopAnyway, WriteStep, RoundInv, Round, After
  <2>2. CASE Write("STOP", at) /\ pc # "force"
    BY <1>2, <1>3, <1>5, <2>1, <2>2
  <2> QED
    BY <1>4, <1>9, <2>2 DEF StopDiagnostics, StopAnyway, WriteStep, WriteFails
<1>10. CASE Logout
  <2>1. [type |-> "END", of |-> None] \in Commands
    BY DEF Commands
  <2>2. CASE Write("END", None)
    <3>1. \A type \in {"QUERY", "FORCE"} :
            /\ Pending(toPanel', type) = Pending(toPanel, type)
            /\ Ascends(toPanel, type) => Ascends(toPanel', type)
      BY <1>1, <2>1, <2>2, CommandAppend DEF Write
    <3> QED
      BY <1>2, <1>3, <3>1 DEF Queried, Forced
  <2> QED
    BY <1>4, <1>10, <2>2 DEF Logout, WriteFails
<1> QED
  BY <1>4, <1>6, <1>7, <1>8, <1>9, <1>10
     DEF ThreadStep, NextDevice, LoopEnds, ClearStatus, DropStatus, AwaitStatus, TakeStatus,
         ClearDiag, DropDiag, AwaitDiagnostic, TakeDiagnostic, KeepResult

\* The panel turns a query into a status and a forced info into a diagnostic,
\* or into nothing.
LEMMA PanelQueues ==
  ASSUME TypeOK, PanelStep
  PROVE  /\ UNCHANGED <<threadVars, eventVars, rejected, reader, link, historyVars>>
         /\ \/ /\ UNCHANGED <<answered, Queried, Coming>>
            \/ \E d \in Devices :
                 /\ d \in Queried /\ Queried = Queried' \cup {d}
                 /\ Ascends(toPanel, "QUERY") => \A n \in Queried' : d < n
                 /\ \/ Coming' = Coming \cup {d} /\ answered' = answered \cup {d}
                    \/ UNCHANGED <<Coming, answered>>
         /\ \/ UNCHANGED <<Forced, Diagnostics>>
            \/ \E d \in Devices :
                 /\ d \in Forced /\ Forced = Forced' \cup {d}
                 /\ Ascends(toPanel, "FORCE") => \A n \in Forced' : d < n
                 /\ Diagnostics' \in {Diagnostics, Diagnostics \cup {d}}
         /\ Ascends(toPanel, "FORCE") => Ascends(toPanel', "FORCE")
         /\ Ascends(fromPanel, "DIAG") /\ (Forced # {} => Diagnostics = {}) => Ascends(fromPanel', "DIAG")
<1> DEFINE first == Head(toPanel)
<1>1. toPanel \in Seq(Commands) /\ fromPanel \in Seq(Answers)
  BY DEF TypeOK, WireTypes
<1>2. UNCHANGED <<threadVars, eventVars, rejected, reader, link, historyVars>>
  BY DEF PanelStep
<1>3. toPanel # <<>> /\ toPanel' = Tail(toPanel)
  BY DEF PanelStep, PanelStatus, PanelStart, PanelForce, PanelStop, PanelEnd, PanelTakes
<1>4. /\ first \in Commands
      /\ first.type = "QUERY" =>
           /\ Queried = Queried' \cup {first.of}
           /\ Ascends(toPanel, "QUERY") => \A n \in Queried' : first.of < n
      /\ first.type # "QUERY" => Queried' = Queried
  BY <1>1, <1>3, CommandTail DEF Queried
<1>5. /\ first.type = "FORCE" =>
           /\ Forced = Forced' \cup {first.of}
           /\ Ascends(toPanel, "FORCE") => \A n \in Forced' : first.of < n
      /\ first.type # "FORCE" => Forced' = Forced
      /\ Ascends(toPanel, "FORCE") => Ascends(toPanel', "FORCE")
  BY <1>1, <1>3, CommandTail DEF Forced
<1>6. first.type # "END" => first.of \in Devices
  BY <1>4, PacketOf
<1>7. UNCHANGED fromPanel =>
        UNCHANGED <<Coming, Diagnostics>> /\ (Ascends(fromPanel, "DIAG") => Ascends(fromPanel', "DIAG"))
  BY DEF Coming, Diagnostics
<1>8. CASE PanelStatus
  <2>1. first.type = "QUERY"
    BY <1>8 DEF PanelStatus, PanelTakes
  <2>2. CASE Answer("STATUS") /\ answered' = answered \cup {first.of}
    <3>1. /\ Coming' = Coming \cup {first.of} /\ Diagnostics' = Diagnostics
          /\ Ascends(fromPanel, "DIAG") => Ascends(fromPanel', "DIAG")
      BY <1>1, <1>6, <2>1, <2>2, AnswerAdds DEF Coming, Diagnostics
    <3> QED
      BY <1>2, <1>4, <1>5, <1>6, <2>1, <2>2, <3>1
  <2>3. CASE UNCHANGED <<fromPanel, answered>>
    BY <1>2, <1>4, <1>5, <1>6, <1>7, <2>1, <2>3
  <2> QED
    BY <1>8, <2>2, <2>3 DEF PanelStatus
<1>9. CASE PanelForce
  <2>1. first.type = "FORCE" /\ UNCHANGED answered
    BY <1>9 DEF PanelForce, PanelTakes
  <2>2. CASE Answer("DIAG")
    <3>1. /\ Diagnostics' = Diagnostics \cup {first.of} /\ Coming' = Coming
          /\ Ascends(fromPanel, "DIAG") /\ Diagnostics = {} => Ascends(fromPanel', "DIAG")
      BY <1>1, <1>6, <2>1, <2>2, AnswerAdds DEF Coming, Diagnostics
    <3> QED
      BY <1>2, <1>4, <1>5, <1>6, <2>1, <2>2, <3>1
  <2>3. CASE UNCHANGED fromPanel
    BY <1>2, <1>4, <1>5, <1>6, <1>7, <2>1, <2>3
  <2> QED
    BY <1>9, <2>2, <2>3 DEF PanelForce
<1>10. CASE PanelStart \/ PanelStop \/ PanelEnd
  <2>1. first.type \notin {"QUERY", "FORCE"} /\ UNCHANGED <<fromPanel, answered>>
    BY <1>10 DEF PanelStart, PanelStop, PanelEnd, PanelTakes
  <2> QED
    BY <1>2, <1>4, <1>5, <1>7, <2>1
<1> QED
  BY <1>8, <1>9, <1>10 DEF PanelStep

\* The reader takes one answer and puts it where the thread will look.
LEMMA ReaderQueues ==
  ASSUME TypeOK, StoreResponse
  PROVE  /\ reader = NoAnswer /\ reader' \in Answers
         /\ UNCHANGED <<threadVars, statusEvent, diagEvent, rejected, link, panelVars, historyVars>>
         /\ UNCHANGED <<toPanel, Queried, Forced>>
         /\ \/ /\ reader'.type = "STATUS" /\ statusResponse' = reader'.of /\ UNCHANGED diagResponse
               /\ reader'.of \in Coming /\ Coming = Coming' \cup {reader'.of}
               /\ Ascends(fromPanel, "STATUS") => \A n \in Coming' : reader'.of < n
               /\ UNCHANGED Diagnostics
            \/ /\ reader'.type = "DIAG" /\ diagResponse' = reader'.of /\ UNCHANGED statusResponse
               /\ reader'.of \in Diagnostics /\ Diagnostics = Diagnostics' \cup {reader'.of}
               /\ Ascends(fromPanel, "DIAG") => \A n \in Diagnostics' : reader'.of < n
               /\ UNCHANGED Coming
         /\ Ascends(fromPanel, "DIAG") => Ascends(fromPanel', "DIAG")
<1>1. fromPanel \in Seq(Answers) /\ fromPanel # <<>> /\ fromPanel' = Tail(fromPanel)
      /\ reader' = Head(fromPanel)
  BY DEF TypeOK, WireTypes, StoreResponse
<1>2. /\ reader' \in Answers
      /\ reader'.type = "STATUS" =>
           /\ Coming = Coming' \cup {reader'.of}
           /\ Ascends(fromPanel, "STATUS") => \A n \in Coming' : reader'.of < n
      /\ reader'.type # "STATUS" => Coming' = Coming
  BY <1>1, AnswerTail DEF Coming
<1>3. /\ reader'.type = "DIAG" =>
           /\ Diagnostics = Diagnostics' \cup {reader'.of}
           /\ Ascends(fromPanel, "DIAG") => \A n \in Diagnostics' : reader'.of < n
      /\ reader'.type # "DIAG" => Diagnostics' = Diagnostics
      /\ Ascends(fromPanel, "DIAG") => Ascends(fromPanel', "DIAG")
  BY <1>1, AnswerTail DEF Diagnostics
<1>4. UNCHANGED <<toPanel, Queried, Forced>>
  BY DEF StoreResponse, Queried, Forced
<1> QED
  BY <1>2, <1>3, <1>4 DEF StoreResponse

-----------------------------------------------------------------------------
(***************************************************************************)
(* As long as no wait has ended too early.                                 *)
(***************************************************************************)
\* What answers a query is the device that was queried.
LEMMA NextStatusInv ==
  ASSUME TypeOK, RoundInv, LagInv, StatusInv, Next, ~hurried'
  PROVE  StatusInv'
<1> USE DEF Before, Asking, After
<1>1. CASE ThreadStep
  <2>1. /\ UNCHANGED <<reader>> /\ Coming' = Coming
        /\ \/ Queried' = Queried
           \/ pc = "query" /\ pc' = "awaitStatus" /\ Queried' = Queried \cup {at}
    BY <1>1, ThreadQueues
  <2>2. NoStatus /\ Queried' = Queried => NoStatus'
    BY <2>1 DEF NoStatus
  <2>3. CASE pc' \in {"logout", "done"}
    BY <2>3 DEF StatusInv
  <2>4. CASE NextDevice \/ ClearStatus \/ DropStatus
    BY <2>1, <2>2, <2>4 DEF NextDevice, ClearStatus, DropStatus, StatusInv
  <2>5. CASE QueryStatus
    <3>1. CASE pc' = "awaitStatus"
      BY <2>1, <2>5, <3>1 DEF QueryStatus, WriteStep, StatusInv, NoStatus
    <3> QED
      BY <2>3, <2>5, <3>1 DEF QueryStatus, WriteStep
  <2>6. CASE AwaitStatus
    <3>1. pc = "awaitStatus" /\ pc' \in {"takeStatus", "clearDiag", "keep"} /\ UNCHANGED <<at, statusResponse>>
      BY <2>6 DEF AwaitStatus, AfterStatus
    <3>2. CASE statusEvent
      BY <2>1, <2>2, <2>6, <3>1, <3>2 DEF AwaitStatus, Expires, AfterStatus, StatusInv
    <3>3. CASE ~statusEvent
      <4>1. Quiet /\ status' = None /\ pc' \in After
        BY <2>6, <3>3 DEF AwaitStatus, Expires, IsSet, AfterStatus
      <4> QED
        BY <2>1, <2>2, <3>1, <4>1, QuietMeans DEF StatusInv
    <3> QED
      BY <3>2, <3>3
  <2>7. CASE TakeStatus
    BY <2>1, <2>2, <2>7 DEF TakeStatus, AfterStatus, StatusInv
  <2>8. CASE ClearDiag \/ DropDiag \/ AwaitDiagnostic \/ StopAnyway \/ TakeDiagnostic \/ KeepResult
    BY <2>1, <2>2, <2>8 DEF ClearDiag, DropDiag, AwaitDiagnostic, StopAnyway, TakeDiagnostic,
       KeepResult, StatusInv
  <2>9. CASE StartDiagnostics \/ ForceInfo \/ StopDiagnostics
    BY <2>1, <2>2, <2>3, <2>9 DEF StartDiagnostics, ForceInfo, StopDiagnostics, WriteStep, StatusInv
  <2> QED
    BY <1>1, <2>3, <2>4, <2>5, <2>6, <2>7, <2>8, <2>9 DEF ThreadStep, LoopEnds, Logout
<1>2. CASE StoreResponse
  <2>1. CASE reader'.type = "STATUS"
    <3>1. /\ UNCHANGED <<pc, at, status, statusEvent, Queried>>
          /\ statusResponse' = reader'.of /\ reader'.of \in Coming
          /\ Coming' \subseteq Coming /\ \A n \in Coming' : reader'.of < n
      BY <1>2, <2>1, ReaderQueues DEF LagInv
    <3>2. pc \in {"awaitStatus", "logout", "done"} /\ (pc = "awaitStatus" => ~statusEvent)
      BY <3>1 DEF StatusInv, NoStatus
    <3>3. CASE pc = "awaitStatus"
      <4>1. reader'.of = at /\ Coming' = {} /\ at \in Int
        BY <3>1, <3>3 DEF StatusInv, TypeOK, ThreadTypes
      <4>2. Queried = {}
        BY <3>1, <3>3, <4>1 DEF StatusInv, LagInv
      <4> QED
        BY <3>1, <3>2, <3>3, <4>1, <4>2 DEF StatusInv
    <3> QED
      BY <3>1, <3>2, <3>3 DEF StatusInv
  <2>2. CASE reader'.type # "STATUS"
    <3>1. /\ UNCHANGED <<pc, at, status, statusEvent, Queried, Coming, statusResponse>>
          /\ reader.type # "STATUS"
      BY <1>2, <2>2, ReaderQueues DEF NoAnswer
    <3>2. NoStatus => NoStatus'
      BY <2>2, <3>1 DEF NoStatus
    <3> QED
      BY <2>2, <3>1, <3>2 DEF StatusInv
  <2> QED
    BY <2>1, <2>2
<1>3. CASE SignalResponse
  <2>1. /\ UNCHANGED <<pc, at, status, statusResponse, Queried, Coming>> /\ reader'.type = "none"
        /\ statusEvent' = (statusEvent \/ reader.type = "STATUS")
    BY <1>3 DEF SignalResponse, Queried, Coming, NoAnswer
  <2>2. NoStatus => NoStatus'
    BY <2>1 DEF NoStatus
  <2>3. reader.type = "STATUS" => pc \in {"awaitStatus", "logout", "done"}
    BY DEF StatusInv, NoStatus
  <2> QED
    BY <2>1, <2>2, <2>3 DEF StatusInv, NoStatus
<1>4. CASE NoticeBreak \/ Reopen \/ RejectPin \/ Done
  <2>1. /\ UNCHANGED <<pc, at, status, statusResponse, statusEvent, reader, Queried, Coming>>
    BY <1>4 DEF NoticeBreak, Reopen, RejectPin, Done, vars, Queried, Coming
  <2> QED
    BY <2>1 DEF StatusInv, NoStatus
<1>5. CASE PanelStep
  <2>1. UNCHANGED <<pc, at, status, statusResponse, statusEvent, reader>>
    BY <1>5 DEF PanelStep
  <2>2. CASE UNCHANGED <<Queried, Coming>>
    BY <2>1, <2>2 DEF StatusInv, NoStatus
  <2>3. ASSUME NEW d \in Devices, d \in Queried, Queried = Queried' \cup {d},
               \A n \in Queried' : d < n, Coming' \subseteq Coming \cup {d}
        PROVE  StatusInv'
    <3>1. pc \in {"awaitStatus", "logout", "done"}
          /\ (pc = "awaitStatus" => ~statusEvent /\ reader.type # "STATUS")
      BY <2>3 DEF StatusInv, NoStatus
    <3>2. pc = "awaitStatus" => d = at /\ Queried' \cup Coming' \subseteq {at}
      BY <2>3 DEF StatusInv
    <3> QED
      BY <2>1, <3>1, <3>2 DEF StatusInv
  <2> QED
    BY <1>5, <2>2, <2>3, PanelQueues DEF LagInv
<1>6. CASE LinkBreak
  <2>1. Queried' = {} /\ Coming' = {}
    BY <1>6, PendingEmpty DEF LinkBreak, Queried, Coming
  <2> QED
    BY <1>6, <2>1 DEF LinkBreak, StatusInv, NoStatus
<1> QED
  BY <1>1, <1>2, <1>3, <1>4, <1>5, <1>6 DEF Next, ReaderStep

\* What answers a forced info is the device that was put into diagnostics.
LEMMA NextDiagnosticInv ==
  ASSUME TypeOK, RoundInv, DiagnosticInv, Next, ~hurried'
  PROVE  DiagnosticInv'
<1> USE DEF Before, Asking, After, Round
<1>1. CASE ThreadStep
  <2>1. /\ UNCHANGED <<reader, fromPanel>> /\ Diagnostics' = Diagnostics
        /\ \/ Forced' = Forced
           \/ pc = "force" /\ pc' = "awaitDiag" /\ Forced' = Forced \cup {at}
        /\ Ascends(toPanel, "FORCE") /\ (pc = "force" => Forced = {}) => Ascends(toPanel', "FORCE")
        /\ Ascends(fromPanel, "DIAG") => Ascends(fromPanel', "DIAG")
    BY <1>1, ThreadQueues
  <2>2. /\ NoDiagnostic /\ Forced' = Forced => NoDiagnostic'
        /\ NoDiagnostic /\ Forced' = Forced \cup {at} =>
             Forced' = {at} /\ Diagnostics' = {} /\ reader'.type # "DIAG"
    BY <2>1 DEF NoDiagnostic
  <2>3. CASE pc' \in {"logout", "done"}
    BY <2>3 DEF DiagnosticInv
  <2>4. pc' \notin {"logout", "done"} =>
          /\ pc \notin {"logout", "done"}
          /\ Ascends(toPanel', "FORCE") /\ Ascends(fromPanel', "DIAG")
    <3>1. pc' \notin {"logout", "done"} => pc \notin {"logout", "done"}
      BY <1>1 DEF ThreadStep, NextDevice, LoopEnds, ClearStatus, DropStatus, QueryStatus,
         AwaitStatus, TakeStatus, ClearDiag, DropDiag, StartDiagnostics, ForceInfo,
         AwaitDiagnostic, StopDiagnostics, StopAnyway, TakeDiagnostic, KeepResult, Logout, WriteStep
    <3> QED
      BY <2>1, <3>1 DEF DiagnosticInv, NoDiagnostic
  <2>5. CASE NextDevice \/ ClearStatus \/ DropStatus
    BY <2>1, <2>2, <2>4, <2>5 DEF NextDevice, ClearStatus, DropStatus, DiagnosticInv
  <2>6. CASE QueryStatus \/ StartDiagnostics \/ StopDiagnostics
    BY <2>1, <2>2, <2>3, <2>4, <2>6 DEF QueryStatus, StartDiagnostics, StopDiagnostics, WriteStep,
       DiagnosticInv
  <2>7. CASE AwaitStatus \/ TakeStatus
    BY <2>1, <2>2, <2>4, <2>7 DEF AwaitStatus, TakeStatus, AfterStatus, DiagnosticInv
  <2>8. CASE ClearDiag \/ DropDiag \/ StopAnyway
    BY <2>1, <2>2, <2>4, <2>8 DEF ClearDiag, DropDiag, StopAnyway, DiagnosticInv
  <2>9. CASE ForceInfo
    <3>1. CASE pc' = "awaitDiag"
      <4>1. /\ pc = "force" /\ NoDiagnostic /\ ~diagEvent /\ diagResponse \in {None, at}
            /\ diagnostic \in {None, at} /\ UNCHANGED <<at, diagEvent, diagResponse, diagnostic>>
        BY <2>9, <3>1 DEF ForceInfo, WriteStep, DiagnosticInv
      <4>2. Forced' \in {{}, {at}} /\ Diagnostics' = {} /\ reader'.type # "DIAG"
        BY <2>1, <2>2, <4>1 DEF NoDiagnostic
      <4> QED
        BY <2>4, <3>1, <4>1, <4>2 DEF DiagnosticInv
    <3> QED
      BY <2>3, <2>9, <3>1 DEF ForceInfo, WriteStep
  <2>10. CASE AwaitDiagnostic
    <3>1. /\ pc = "awaitDiag" /\ pc' \in {"stop", "stopAnyway"} /\ (pc' = "stop" => diagEvent)
          /\ UNCHANGED <<at, diagResponse, diagnostic>> /\ (~diagEvent => Quiet)
      BY <2>10 DEF AwaitDiagnostic, Expires, IsSet
    <3>2. NoDiagnostic'
      BY <2>1, <2>2, <3>1, QuietMeans DEF DiagnosticInv
    <3> QED
      BY <2>4, <3>1, <3>2 DEF DiagnosticInv
  <2>11. CASE TakeDiagnostic \/ KeepResult
    BY <2>1, <2>2, <2>4, <2>11 DEF TakeDiagnostic, KeepResult, DiagnosticInv
  <2> QED
    BY <1>1, <2>3, <2>5, <2>6, <2>7, <2>8, <2>9, <2>10, <2>11 DEF ThreadStep, LoopEnds, Logout
<1>2. CASE StoreResponse
  <2>1. /\ UNCHANGED <<pc, at, diagnostic, diagEvent, Forced, toPanel>>
        /\ reader.type # "DIAG"
        /\ Ascends(fromPanel, "DIAG") => Ascends(fromPanel', "DIAG")
    BY <1>2, ReaderQueues DEF NoAnswer
  <2>2. CASE reader'.type = "DIAG"
    <3>1. /\ diagResponse' = reader'.of /\ reader'.of \in Diagnostics
          /\ Diagnostics' \subseteq Diagnostics
          /\ Ascends(fromPanel, "DIAG") => \A n \in Diagnostics' : reader'.of < n
      BY <1>2, <2>2, ReaderQueues
    <3>2. pc \in {"awaitDiag", "logout", "done"} /\ (pc = "awaitDiag" => ~diagEvent)
      BY <3>1 DEF DiagnosticInv, NoDiagnostic
    <3>3. CASE pc = "awaitDiag"
      <4>1. reader'.of = at /\ at \in Int /\ Forced = {}
        BY <3>1, <3>3 DEF DiagnosticInv, TypeOK, ThreadTypes
      <4>2. Diagnostics' = {}
        BY <3>1, <3>3, <4>1 DEF DiagnosticInv
      <4> QED
        BY <2>1, <3>1, <3>2, <3>3, <4>1, <4>2 DEF DiagnosticInv
    <3> QED
      BY <2>1, <3>2, <3>3 DEF DiagnosticInv
  <2>3. CASE reader'.type # "DIAG"
    <3>1. UNCHANGED <<Diagnostics, diagResponse>>
      BY <1>2, <2>3, ReaderQueues
    <3>2. NoDiagnostic => NoDiagnostic'
      BY <2>1, <2>3, <3>1 DEF NoDiagnostic
    <3> QED
      BY <2>1, <2>3, <3>1, <3>2 DEF DiagnosticInv
  <2> QED
    BY <2>2, <2>3
<1>3. CASE SignalResponse
  <2>1. /\ UNCHANGED <<pc, at, diagnostic, diagResponse, Forced, Diagnostics, toPanel, fromPanel>>
        /\ reader'.type = "none"
        /\ diagEvent' = (diagEvent \/ reader.type = "DIAG")
    BY <1>3 DEF SignalResponse, Forced, Diagnostics, NoAnswer
  <2>2. NoDiagnostic => NoDiagnostic'
    BY <2>1 DEF NoDiagnostic
  <2>3. reader.type = "DIAG" => pc \in {"awaitDiag", "logout", "done"}
    BY DEF DiagnosticInv, NoDiagnostic
  <2> QED
    BY <2>1, <2>2, <2>3 DEF DiagnosticInv, NoDiagnostic
<1>4. CASE NoticeBreak \/ Reopen \/ RejectPin \/ Done
  <2>1. UNCHANGED <<pc, at, diagnostic, diagResponse, diagEvent, reader, Forced, Diagnostics, toPanel, fromPanel>>
    BY <1>4 DEF NoticeBreak, Reopen, RejectPin, Done, vars, Forced, Diagnostics
  <2> QED
    BY <2>1 DEF DiagnosticInv, NoDiagnostic
<1>5. CASE PanelStep
  <2>1. /\ UNCHANGED <<pc, at, diagnostic, diagResponse, diagEvent, reader>>
        /\ Ascends(toPanel, "FORCE") => Ascends(toPanel', "FORCE")
        /\ Ascends(fromPanel, "DIAG") /\ (Forced # {} => Diagnostics = {}) => Ascends(fromPanel', "DIAG")
    BY <1>5, PanelQueues
  <2>2. pc \notin {"logout", "done"} => Ascends(toPanel', "FORCE") /\ Ascends(fromPanel', "DIAG")
    BY <2>1 DEF DiagnosticInv, NoDiagnostic
  <2>3. CASE UNCHANGED <<Forced, Diagnostics>>
    BY <2>1, <2>2, <2>3 DEF DiagnosticInv, NoDiagnostic
  <2>4. ASSUME NEW d \in Devices, d \in Forced, Forced = Forced' \cup {d},
               Ascends(toPanel, "FORCE") => \A n \in Forced' : d < n,
               Diagnostics' \in {Diagnostics, Diagnostics \cup {d}}
        PROVE  DiagnosticInv'
    <3>1. pc \in {"awaitDiag", "logout", "done"}
          /\ (pc = "awaitDiag" => ~diagEvent /\ reader.type # "DIAG" /\ Diagnostics = {})
      BY <2>4 DEF DiagnosticInv, NoDiagnostic
    <3>2. pc = "awaitDiag" => d = at /\ Forced' = {} /\ Diagnostics' \subseteq {at}
      BY <2>4, <3>1 DEF DiagnosticInv, Devices
    <3> QED
      BY <2>1, <2>2, <3>1, <3>2 DEF DiagnosticInv
  <2> QED
    BY <1>5, <2>3, <2>4, PanelQueues
<1>6. CASE LinkBreak
  <2>1. /\ Forced' = {} /\ Diagnostics' = {}
        /\ Ascends(toPanel', "FORCE") /\ Ascends(fromPanel', "DIAG")
    BY <1>6, PendingEmpty DEF LinkBreak, Forced, Diagnostics
  <2> QED
    BY <1>6, <2>1 DEF LinkBreak, DiagnosticInv, NoDiagnostic
<1> QED
  BY <1>1, <1>2, <1>3, <1>4, <1>5, <1>6 DEF Next, ReaderStep

\* A result has the diagnostic of the device whose status it has.
LEMMA NextInfo ==
  ASSUME TypeOK, RoundInv, StatusInv, DiagnosticInv, Next, InfoIsOfOneDevice, ~hurried
  PROVE  InfoIsOfOneDevice'
<1>1. CASE UNCHANGED results
  BY <1>1 DEF InfoIsOfOneDevice
<1>2. CASE KeepResult
  <2>1. CASE status = None
    BY <1>1, <1>2, <2>1 DEF KeepResult
  <2>2. CASE status # None
    <3>1. status \in {None, at} /\ diagnostic \in {None, at}
      BY <1>2 DEF KeepResult, StatusInv, DiagnosticInv, After, Round
    <3>2. results \in Seq(Infos) /\ results' \in Seq(Infos)
      BY <1>2, NextThreadTypes DEF TypeOK, ThreadTypes
    <3>3. /\ Len(results) \in Nat /\ Len(results') = Len(results) + 1
          /\ \A i \in 1..Len(results) : results'[i] = results[i]
          /\ results'[Len(results) + 1] = [position |-> at, device |-> status, diagnostic |-> diagnostic]
      BY <1>2, <2>2, Kept
    <3> QED
      BY <2>2, <3>1, <3>2, <3>3 DEF InfoIsOfOneDevice
  <2> QED
    BY <2>1, <2>2
<1>3. CASE ThreadStep
  BY <1>1, <1>2, <1>3
     DEF ThreadStep, NextDevice, LoopEnds, ClearStatus, DropStatus, QueryStatus, AwaitStatus,
         TakeStatus, ClearDiag, DropDiag, StartDiagnostics, ForceInfo, AwaitDiagnostic,
         StopDiagnostics, StopAnyway, TakeDiagnostic, Logout, WriteStep
<1>4. CASE ReaderStep \/ RejectPin \/ PanelStep \/ LinkBreak \/ Done
  BY <1>1, <1>4 DEF ReaderStep, StoreResponse, SignalResponse, NoticeBreak, Reopen, RejectPin,
     PanelStep, LinkBreak, Done, vars
<1> QED
  BY <1>3, <1>4 DEF Next

\* While the link holds, what the panel has answered is listed or on its way.
LEMMA NextAnsweredInv ==
  ASSUME TypeOK, RoundInv, LagInv, StatusInv, AnsweredInv, Next, ~hurried', breaks' = 0
  PROVE  AnsweredInv'
<1> USE DEF Before, Asking, After
<1>1. CASE ThreadStep
  <2>1. /\ UNCHANGED <<reader, answered, link>> /\ Coming' = Coming
        /\ \/ Queried' = Queried
           \/ pc = "query" /\ pc' = "awaitStatus" /\ Queried' = Queried \cup {at}
    BY <1>1, ThreadQueues
  <2>2. NoStatus /\ Queried' = Queried => NoStatus'
    BY <2>1 DEF NoStatus
  <2>3. UNCHANGED results => UNCHANGED Listed
    BY DEF Listed
  <2>4. CASE NextDevice \/ LoopEnds \/ ClearStatus \/ DropStatus \/ Logout
    <3>1. /\ pc \in {"loop", "logout"} \cup Before /\ pc' \in {"logout", "done"} \cup Before
          /\ pc # "query" /\ UNCHANGED results
      BY <2>4 DEF NextDevice, LoopEnds, ClearStatus, DropStatus, Logout
    <3> QED
      BY <2>1, <2>2, <2>3, <3>1 DEF AnsweredInv
  <2>5. CASE QueryStatus
    <3>1. /\ pc = "query" /\ pc' = "awaitStatus" /\ UNCHANGED <<results, statusEvent>>
      BY <2>5 DEF QueryStatus, WriteStep, WriteFails, AnsweredInv
    <3> QED
      BY <2>1, <2>3, <3>1 DEF AnsweredInv, StatusInv, NoStatus
  <2>6. CASE AwaitStatus
    <3>1. /\ pc = "awaitStatus" /\ pc' \in {"takeStatus", "clearDiag", "keep"}
          /\ (pc' = "takeStatus" <=> statusEvent) /\ UNCHANGED <<at, statusResponse, results>>
          /\ ~statusEvent => Quiet /\ status' = None
      BY <2>6 DEF AwaitStatus, Expires, IsSet, AfterStatus
    <3>2. NoStatus
      BY <3>1, QuietMeans DEF StatusInv
    <3> QED
      BY <2>1, <2>2, <2>3, <3>1, <3>2 DEF AnsweredInv, NoStatus
  <2>7. CASE TakeStatus
    <3>1. at \in Devices /\ at # None
      BY <2>7, ProbeAssumption DEF TakeStatus, RoundInv, Round, Devices, None
    <3> QED
      BY <2>1, <2>2, <2>3, <2>7, <3>1 DEF TakeStatus, AfterStatus, AnsweredInv
  <2>8. CASE ClearDiag \/ DropDiag \/ AwaitDiagnostic \/ StopAnyway \/ TakeDiagnostic
    <3>1. pc \in After /\ pc' \in After /\ UNCHANGED <<status, results>>
      BY <2>8 DEF ClearDiag, DropDiag, AwaitDiagnostic, StopAnyway, TakeDiagnostic
    <3> QED
      BY <2>1, <2>2, <2>3, <3>1 DEF AnsweredInv
  <2>9. CASE StartDiagnostics \/ ForceInfo \/ StopDiagnostics
    <3>1. pc \in After /\ pc' \in After /\ UNCHANGED <<status, results>>
      BY <2>9 DEF StartDiagnostics, ForceInfo, StopDiagnostics, WriteStep, WriteFails, AnsweredInv
    <3> QED
      BY <2>1, <2>2, <2>3, <3>1 DEF AnsweredInv
  <2>10. CASE KeepResult
    <3>1. pc = "keep" /\ pc' = "loop"
      BY <2>10 DEF KeepResult
    <3>2. answered = Listed'
      <4>1. CASE status = None
        BY <2>3, <2>10, <3>1, <4>1 DEF KeepResult, AnsweredInv
      <4>2. CASE status # None
        BY <2>10, <3>1, <4>2, Kept DEF AnsweredInv
      <4> QED
        BY <4>1, <4>2
    <3> QED
      BY <2>1, <2>2, <3>1, <3>2 DEF AnsweredInv
  <2> QED
    BY <1>1, <2>4, <2>5, <2>6, <2>7, <2>8, <2>9, <2>10 DEF ThreadStep
<1>2. CASE StoreResponse
  <2>1. /\ UNCHANGED <<pc, at, status, statusEvent, answered, link, Queried>>
        /\ reader.type # "STATUS" /\ Listed' = Listed
    BY <1>2, ReaderQueues DEF NoAnswer, Listed
  <2>2. CASE reader'.type = "STATUS"
    <3>1. statusResponse' = reader'.of /\ reader'.of \in Coming
      BY <1>2, <2>2, ReaderQueues
    <3>2. pc = "awaitStatus" /\ reader'.of = at
      BY <3>1 DEF AnsweredInv, StatusInv, NoStatus
    <3> QED
      BY <2>1, <2>2, <3>1, <3>2 DEF AnsweredInv
  <2>3. CASE reader'.type # "STATUS"
    <3>1. UNCHANGED <<Coming, statusResponse>>
      BY <1>2, <2>3, ReaderQueues
    <3>2. NoStatus => NoStatus'
      BY <2>1, <2>3, <3>1 DEF NoStatus
    <3> QED
      BY <2>1, <2>3, <3>1, <3>2 DEF AnsweredInv
  <2> QED
    BY <2>2, <2>3
<1>3. CASE SignalResponse
  <2>1. /\ UNCHANGED <<pc, at, status, statusResponse, answered, link, Queried, Coming, Listed>>
        /\ reader'.type = "none"
        /\ statusEvent' = (statusEvent \/ reader.type = "STATUS")
    BY <1>3 DEF SignalResponse, Queried, Coming, NoAnswer, Listed
  <2>2. NoStatus => NoStatus'
    BY <2>1 DEF NoStatus
  <2> QED
    BY <2>1, <2>2 DEF AnsweredInv
<1>4. CASE RejectPin \/ Done
  <2>1. /\ UNCHANGED <<pc, at, status, statusResponse, statusEvent, reader, answered, link>>
        /\ UNCHANGED <<Queried, Coming, Listed>>
    BY <1>4 DEF RejectPin, Done, vars, Queried, Coming, Listed
  <2>2. NoStatus' <=> NoStatus
    BY <2>1 DEF NoStatus
  <2> QED
    BY <2>1, <2>2 DEF AnsweredInv
<1>5. CASE PanelStep
  <2>1. /\ UNCHANGED <<pc, at, status, statusResponse, statusEvent, reader, link>>
        /\ Listed' = Listed
    BY <1>5 DEF PanelStep, Listed
  <2>2. CASE UNCHANGED <<Queried, Coming, answered>>
    <3>1. NoStatus' <=> NoStatus
      BY <2>1, <2>2 DEF NoStatus
    <3> QED
      BY <2>1, <2>2, <3>1 DEF AnsweredInv
  <2>3. ASSUME NEW d \in Devices, d \in Queried,
               \/ Coming' = Coming \cup {d} /\ answered' = answered \cup {d}
               \/ UNCHANGED <<Coming, answered>>
        PROVE  AnsweredInv'
    <3>1. pc = "awaitStatus" /\ ~statusEvent /\ reader.type # "STATUS" /\ d = at
      BY <2>3 DEF AnsweredInv, StatusInv, NoStatus
    <3>2. Coming = {}
      <4>1. Coming \subseteq {at} /\ (\A m \in Coming : m < at) /\ at \in Int
        BY <2>3, <3>1 DEF StatusInv, LagInv, TypeOK, ThreadTypes
      <4> QED
        BY <4>1
    <3> QED
      BY <2>1, <2>3, <3>1, <3>2 DEF AnsweredInv
  <2> QED
    BY <1>5, <2>2, <2>3, PanelQueues
<1>6. breaks = 0 /\ ~NoticeBreak /\ ~Reopen /\ ~LinkBreak
  <2>1. breaks \in Nat
    BY ProbeAssumption DEF TypeOK, WireTypes
  <2>2. ~NoticeBreak /\ ~Reopen
    BY DEF NoticeBreak, Reopen, AnsweredInv
  <2>3. ~LinkBreak
    <3>1. LinkBreak => breaks' = breaks + 1
      BY DEF LinkBreak
    <3> QED
      BY <2>1, <3>1
  <2>4. UNCHANGED breaks
    BY <1>1, <1>5, <2>2, <2>3, ThreadQueues DEF Next, ReaderStep, StoreResponse, SignalResponse,
       RejectPin, Done, PanelStep, vars
  <2> QED
    BY <2>2, <2>3, <2>4
<1> QED
  BY <1>1, <1>2, <1>3, <1>4, <1>5, <1>6 DEF Next, ReaderStep

\* A wait that ended too early, and a break, are not forgotten.
LEMMA Remembered ==
  ASSUME TypeOK, Next
  PROVE  (hurried => hurried') /\ (breaks' = 0 => breaks = 0)
<1>1. breaks \in Nat
  BY ProbeAssumption DEF TypeOK, WireTypes
<1>2. CASE AwaitStatus \/ AwaitDiagnostic
  BY <1>2 DEF AwaitStatus, AwaitDiagnostic, Expires, IsSet, TypeOK, PanelTypes
<1>3. CASE LinkBreak
  BY <1>1, <1>3 DEF LinkBreak
<1>4. CASE ThreadStep
  BY <1>2, <1>4
     DEF ThreadStep, NextDevice, LoopEnds, ClearStatus, DropStatus, QueryStatus,
         TakeStatus, ClearDiag, DropDiag, StartDiagnostics, ForceInfo,
         StopDiagnostics, StopAnyway, TakeDiagnostic, KeepResult, Logout, WriteStep
<1>5. CASE ReaderStep \/ RejectPin \/ PanelStep \/ Done
  BY <1>5 DEF ReaderStep, StoreResponse, SignalResponse, NoticeBreak, Reopen, RejectPin,
     PanelStep, Done, vars
<1> QED
  BY <1>3, <1>4, <1>5 DEF Next

LEMMA NextTimelyInv ==
  ASSUME TypeOK, RoundInv, LagInv, TimelyInv, Next
  PROVE  TimelyInv'
<1>1. SUFFICES ASSUME ~hurried'
      PROVE  /\ StatusInv' /\ DiagnosticInv' /\ InfoIsOfOneDevice'
             /\ breaks' = 0 => AnsweredInv'
  BY DEF TimelyInv, InfoIsOfOneDevice
<1>2. ~hurried /\ StatusInv /\ DiagnosticInv /\ InfoIsOfOneDevice /\ (breaks = 0 => AnsweredInv)
  BY <1>1, Remembered DEF TimelyInv, InfoIsOfOneDevice
<1>3. StatusInv' /\ DiagnosticInv' /\ InfoIsOfOneDevice'
  BY <1>1, <1>2, NextStatusInv, NextDiagnosticInv, NextInfo
<1>4. breaks' = 0 => AnsweredInv'
  BY <1>1, <1>2, Remembered, NextAnsweredInv
<1> QED
  BY <1>3, <1>4

-----------------------------------------------------------------------------
(***************************************************************************)
(* Every start is followed by its stop.                                    *)
(***************************************************************************)
LEMMA StopsAppend ==
  ASSUME NEW queue \in Seq(Commands), NEW packet \in Commands, NEW i \in 0..Len(queue), NEW d
  PROVE  /\ Stops(queue, i, d) => Stops(Append(queue, packet), i, d)
         /\ NoStart(queue, i) /\ packet.type # "START" => NoStart(Append(queue, packet), i)
         /\ NoStart(queue, i) /\ packet.type = "STOP" /\ packet.of = d
              => Stops(Append(queue, packet), i, d)
<1> DEFINE grown == Append(queue, packet)
           n == Len(queue)
<1>1. /\ n \in Nat /\ Len(grown) = n + 1 /\ i \in 0..n
      /\ \A k \in 1..n : grown[k] = queue[k]
      /\ grown[n + 1] = packet
  BY AppendProperties, LenProperties
<1> HIDE DEF grown, n
<1>2. Stops(queue, i, d) => Stops(grown, i, d)
  <2>1. SUFFICES ASSUME Stops(queue, i, d) PROVE Stops(grown, i, d)
    OBVIOUS
  <2>2. PICK j \in (i + 1)..n :
          /\ queue[j].type = "STOP" /\ queue[j].of = d
          /\ \A k \in (i + 1)..(j - 1) : queue[k].type # "START"
    BY <2>1 DEF Stops, n
  <2>3. j \in (i + 1)..(n + 1) /\ j \in 1..n /\ \A k \in (i + 1)..(j - 1) : k \in 1..n
    BY <1>1, <2>2
  <2> QED
    BY <1>1, <2>2, <2>3 DEF Stops
<1>3. NoStart(queue, i) /\ packet.type # "START" => NoStart(grown, i)
  <2>1. \A k \in (i + 1)..(n + 1) : (k \in (i + 1)..n /\ k \in 1..n) \/ k = n + 1
    BY <1>1
  <2> QED
    BY <1>1, <2>1 DEF NoStart, n
<1>4. NoStart(queue, i) /\ packet.type = "STOP" /\ packet.of = d => Stops(grown, i, d)
  <2>1. n + 1 \in (i + 1)..(n + 1)
        /\ \A k \in (i + 1)..((n + 1) - 1) : k \in (i + 1)..n /\ k \in 1..n
    BY <1>1
  <2> QED
    BY <1>1, <2>1 DEF NoStart, Stops, n
<1> QED
  BY <1>2, <1>3, <1>4 DEF grown

LEMMA StopsTail ==
  ASSUME NEW queue \in Seq(Commands), queue # <<>>, NEW i \in 0..Len(Tail(queue)), NEW d
  PROVE  /\ Stops(queue, i + 1, d) => Stops(Tail(queue), i, d)
         /\ NoStart(queue, i + 1) => NoStart(Tail(queue), i)
<1> DEFINE rest == Tail(queue)
           n == Len(rest)
<1>1. /\ n \in Nat /\ Len(queue) = n + 1 /\ i \in 0..n
      /\ \A k \in 1..n : rest[k] = queue[k + 1]
  BY HeadTailProperties, LenProperties
<1> HIDE DEF rest, n
<1>2. Stops(queue, i + 1, d) => Stops(rest, i, d)
  <2>1. SUFFICES ASSUME Stops(queue, i + 1, d) PROVE Stops(rest, i, d)
    OBVIOUS
  <2>2. PICK j \in (i + 2)..(n + 1) :
          /\ queue[j].type = "STOP" /\ queue[j].of = d
          /\ \A k \in (i + 2)..(j - 1) : queue[k].type # "START"
    BY <1>1, <2>1 DEF Stops
  <2>3. j - 1 \in (i + 1)..n /\ j - 1 \in 1..n /\ (j - 1) + 1 = j
        /\ \A k \in (i + 1)..((j - 1) - 1) : k \in 1..n /\ k + 1 \in (i + 2)..(j - 1)
    BY <1>1, <2>2
  <2> QED
    BY <1>1, <2>2, <2>3 DEF Stops, n
<1>3. NoStart(queue, i + 1) => NoStart(rest, i)
  <2>1. \A k \in (i + 1)..n : k \in 1..n /\ k + 1 \in (i + 2)..(n + 1)
    BY <1>1
  <2> QED
    BY <1>1, <2>1 DEF NoStart, n
<1> QED
  BY <1>2, <1>3 DEF rest, n

\* What is to follow after all of a queue follows after its head, or is its head.
LEMMA StopsHead ==
  ASSUME NEW queue \in Seq(Commands), queue # <<>>, NEW d, Closing(queue, 0, d)
  PROVE  /\ Head(queue).type # "START"
         /\ ~(Head(queue).type = "STOP" /\ Head(queue).of = d) => Closing(Tail(queue), 0, d)
<1> DEFINE n == Len(queue)
<1>1. n \in Nat /\ n >= 1 /\ Head(queue) = queue[1] /\ Len(Tail(queue)) \in Nat
  BY HeadTailProperties, LenProperties
<1> HIDE DEF n
<1>2. CASE Stops(queue, 0, d)
  <2>1. PICK j \in 1..n :
          /\ queue[j].type = "STOP" /\ queue[j].of = d
          /\ \A k \in 1..(j - 1) : queue[k].type # "START"
    BY <1>2 DEF Stops, n
  <2>2. CASE j = 1
    BY <1>1, <2>1, <2>2
  <2>3. CASE j # 1
    <3>1. 1 \in 1..(j - 1) /\ j \in 2..n /\ \A k \in 2..(j - 1) : k \in 1..(j - 1)
      BY <1>1, <2>1, <2>3
    <3>2. Stops(queue, 0 + 1, d)
      BY <1>1, <2>1, <3>1 DEF Stops, n
    <3> QED
      BY <1>1, <2>1, <3>1, <3>2, StopsTail DEF Closing
  <2> QED
    BY <2>2, <2>3
<1>3. CASE NoStart(queue, 0) /\ Owes(d)
  <2>1. 1 \in 1..n /\ \A k \in 2..n : k \in 1..n
    BY <1>1
  <2>2. NoStart(queue, 0 + 1) /\ queue[1].type # "START"
    BY <1>3, <2>1 DEF NoStart, n
  <2> QED
    BY <1>1, <1>3, <2>2, StopsTail DEF Closing
<1> QED
  BY <1>2, <1>3 DEF Closing

\* A step that leaves the commands alone, and the thread's obligation unless
\* the link is gone.
LEMMA CalmStopInv ==
  ASSUME StopInv, UNCHANGED <<toPanel, diagnosing, breaks>>,
         \/ UNCHANGED link /\ \A d \in Devices : Owes(d) => Owes(d)'
         \/ link # "up",
         TypeOK
  PROVE  StopInv'
<1> USE DEF StopInv
<1>1. PICK lost \in SUBSET Devices, current \in Devices \cup {None} :
        /\ Cardinality(lost) <= breaks
        /\ diagnosing \subseteq lost \cup {current}
        /\ current # None => link = "up" /\ Closing(toPanel, 0, current)
  OBVIOUS
<1>2. CASE UNCHANGED link /\ \A d \in Devices : Owes(d) => Owes(d)'
  <2>1. \A i \in 1..Len(toPanel) : toPanel[i].type = "START" => toPanel[i].of \in Devices
    BY PacketOf DEF TypeOK, WireTypes
  <2>2. ASSUME NEW i \in 1..Len(toPanel'), toPanel'[i].type = "START"
        PROVE  Closing(toPanel, i, toPanel[i].of)'
    BY <1>2, <2>1, <2>2 DEF Closing
  <2>3. current # None => link' = "up" /\ Closing(toPanel, 0, current)'
    BY <1>1, <1>2 DEF Closing
  <2>4. link' # "up" => toPanel' = <<>>
    BY <1>2
  <2> QED
    BY <1>1, <2>2, <2>3, <2>4
<1>3. CASE link # "up"
  <2>1. toPanel' = <<>> /\ Len(toPanel') = 0 /\ current = None
    BY <1>1, <1>3
  <2> QED
    BY <1>1, <2>1
<1> QED
  BY <1>2, <1>3

\* A start makes the thread owe the stop, which only the stop settles.
LEMMA WriteStopInv ==
  ASSUME StopInv, UNCHANGED <<link, diagnosing, breaks>>, link = "up",
         NEW packet \in Commands, toPanel' = Append(toPanel, packet),
         \A d \in Devices : Owes(d) => Owes(d)' \/ (packet.type = "STOP" /\ packet.of = d),
         packet.type = "START" => Owes(packet.of)' /\ \A d \in Devices : ~Owes(d),
         TypeOK
  PROVE  StopInv'
<1> USE DEF StopInv
<1> DEFINE n == Len(toPanel)
<1>1. PICK lost \in SUBSET Devices, current \in Devices \cup {None} :
        /\ Cardinality(lost) <= breaks
        /\ diagnosing \subseteq lost \cup {current}
        /\ current # None => link = "up" /\ Closing(toPanel, 0, current)
  OBVIOUS
<1>2. /\ toPanel \in Seq(Commands) /\ n \in Nat /\ Len(toPanel') = n + 1
      /\ \A i \in 1..n : toPanel'[i] = toPanel[i] /\ toPanel[i] \in Commands
      /\ toPanel'[n + 1] = packet
  <2>1. toPanel \in Seq(Commands)
    BY DEF TypeOK, WireTypes
  <2> QED
    BY <2>1, AppendProperties, LenProperties
<1>3. ASSUME NEW i \in 0..n, NEW d \in Devices, Closing(toPanel, i, d)
      PROVE  Stops(toPanel', i, d) \/ (NoStart(toPanel', i) /\ Owes(d)')
  <2>1. /\ Stops(toPanel, i, d) => Stops(toPanel', i, d)
        /\ NoStart(toPanel, i) /\ packet.type # "START" => NoStart(toPanel', i)
        /\ NoStart(toPanel, i) /\ packet.type = "STOP" /\ packet.of = d => Stops(toPanel', i, d)
    BY <1>2, StopsAppend
  <2> QED
    BY <1>3, <2>1 DEF Closing
<1>4. ASSUME NEW i \in 1..Len(toPanel'), toPanel'[i].type = "START"
      PROVE  Closing(toPanel, i, toPanel[i].of)'
  <2>1. CASE i \in 1..n
    <3>1. toPanel'[i] = toPanel[i] /\ toPanel[i].of \in Devices /\ i \in 0..n
          /\ Closing(toPanel, i, toPanel[i].of)
      BY <1>2, <1>4, <2>1, PacketOf
    <3> QED
      BY <1>3, <3>1 DEF Closing
  <2>2. CASE i = n + 1
    <3>1. (i + 1)..Len(toPanel') = {}
      BY <1>2, <2>2
    <3>2. NoStart(toPanel', i)
      BY <3>1 DEF NoStart
    <3>3. Owes(packet.of)' /\ toPanel'[i] = packet
      BY <1>2, <1>4, <2>2
    <3> QED
      BY <3>2, <3>3 DEF Closing, Owes
  <2> QED
    BY <1>2, <1>4, <2>1, <2>2
<1>5. current # None => link' = "up" /\ Closing(toPanel, 0, current)'
  BY <1>1, <1>2, <1>3 DEF Closing
<1> QED
  BY <1>1, <1>4, <1>5

\* A start the panel takes is the only one without its stop.
LEMMA PanelStopInv ==
  ASSUME TypeOK, StopInv, PanelStep
  PROVE  StopInv'
<1> USE DEF StopInv
<1> DEFINE first == Head(toPanel)
           n == Len(toPanel')
<1>1. PICK lost \in SUBSET Devices, current \in Devices \cup {None} :
        /\ Cardinality(lost) <= breaks
        /\ diagnosing \subseteq lost \cup {current}
        /\ current # None => link = "up" /\ Closing(toPanel, 0, current)
  OBVIOUS
<1>2. /\ toPanel \in Seq(Commands) /\ toPanel # <<>> /\ toPanel' = Tail(toPanel)
      /\ UNCHANGED <<pc, at, link, breaks>> /\ link = "up"
  BY DEF TypeOK, WireTypes, PanelStep, PanelStatus, PanelStart, PanelForce, PanelStop, PanelEnd, PanelTakes
<1>3. /\ n \in Nat /\ Len(toPanel) = n + 1 /\ first = toPanel[1] /\ first \in Commands
      /\ \A i \in 1..n : toPanel'[i] = toPanel[i + 1] /\ toPanel[i + 1] \in Commands
  <2>1. toPanel' \in Seq(Commands) /\ Len(toPanel') = Len(toPanel) - 1 /\ Len(toPanel) \in Nat
        /\ toPanel # <<>> /\ \A i \in 1..Len(toPanel') : toPanel'[i] = toPanel[i + 1]
    BY <1>2, HeadTailProperties, LenProperties
  <2>2. n \in Nat /\ Len(toPanel) = n + 1 /\ \A i \in 1..n : i + 1 \in 1..Len(toPanel)
    BY <2>1, LenProperties
  <2> QED
    BY <1>2, <2>1, <2>2, HeadTailProperties
<1>4. ASSUME NEW i \in 0..n, NEW d, Closing(toPanel, i + 1, d)
      PROVE  Stops(toPanel', i, d) \/ (NoStart(toPanel', i) /\ Owes(d))
  <2>1. i \in 0..Len(Tail(toPanel))
    BY <1>2, <1>3
  <2>2. /\ Stops(toPanel, i + 1, d) => Stops(Tail(toPanel), i, d)
        /\ NoStart(toPanel, i + 1) => NoStart(Tail(toPanel), i)
    BY <1>2, <2>1, StopsTail
  <2> QED
    BY <1>2, <1>4, <2>2 DEF Closing, Owes
<1>5. ASSUME NEW i \in 1..n, toPanel'[i].type = "START"
      PROVE  Closing(toPanel, i, toPanel[i].of)'
  <2>1. i + 1 \in 1..Len(toPanel) /\ i \in 0..n /\ toPanel'[i] = toPanel[i + 1]
    BY <1>3
  <2>2. Closing(toPanel, i + 1, toPanel[i + 1].of)
    BY <1>5, <2>1
  <2> HIDE DEF n
  <2>3. PICK d : d = toPanel[i + 1].of
    OBVIOUS
  <2>4. Stops(toPanel', i, d) \/ (NoStart(toPanel', i) /\ Owes(d))
    BY <1>4, <2>1, <2>2, <2>3
  <2>5. Owes(d)' <=> Owes(d)
    BY <1>2 DEF Owes
  <2>6. toPanel'[i].of = d
    BY <2>1, <2>3
  <2> QED
    BY <2>4, <2>5, <2>6 DEF Closing, Owes
<1>6. \A d \in Devices :
        Closing(toPanel, 0, d) =>
          /\ first.type # "START"
          /\ ~(first.type = "STOP" /\ first.of = d) => Closing(toPanel, 0, d)'
  <2>1. ASSUME NEW d \in Devices, Closing(toPanel, 0, d)
        PROVE  /\ first.type # "START"
               /\ ~(first.type = "STOP" /\ first.of = d) => Closing(Tail(toPanel), 0, d)
    BY <1>2, <2>1, StopsHead
  <2> QED
    BY <1>2, <2>1 DEF Closing, Owes
<1>7. CASE PanelStart
  <2>1. first.type = "START" /\ first.of \in Devices
    BY <1>3, <1>7, PacketOf DEF PanelStart, PanelTakes
  <2>2. current = None
    BY <1>1, <1>6, <2>1
  <2>3. PICK d \in Devices : d = first.of
    BY <2>1
  <2>4. Closing(toPanel, 0, d)'
    <3>1. 1 \in 1..Len(toPanel) /\ 0 \in 0..n
      BY <1>3
    <3>2. Closing(toPanel, 0 + 1, first.of)
      BY <1>3, <2>1, <3>1
    <3> HIDE DEF n
    <3>3. Stops(toPanel', 0, d) \/ (NoStart(toPanel', 0) /\ Owes(d))
      BY <1>4, <2>3, <3>1, <3>2
    <3> QED
      BY <1>2, <3>3 DEF Closing, Owes
  <2>5. diagnosing \subseteq lost
    BY <1>1, <2>2 DEF TypeOK, PanelTypes, Devices, None
  <2>6. diagnosing' \subseteq lost \cup {d} /\ d \in Devices \cup {None}
    BY <1>7, <2>3, <2>5 DEF PanelStart
  <2> HIDE DEF n, first
  <2>7. \A i \in 1..Len(toPanel') : toPanel'[i].type = "START" => Closing(toPanel, i, toPanel[i].of)'
    BY <1>5 DEF n
  <2> QED
    BY <1>1, <1>2, <2>4, <2>6, <2>7
<1>8. CASE PanelStop
  <2>1. first.type = "STOP" /\ diagnosing' = diagnosing \ {first.of}
    BY <1>8 DEF PanelStop, PanelTakes
  <2>2. CASE first.of = current
    <3>1. diagnosing' \subseteq lost \cup {None}
      BY <1>1, <2>1, <2>2
    <3> QED
      BY <1>1, <1>2, <1>5, <3>1
  <2>3. CASE first.of # current
    <3>1. current # None => Closing(toPanel, 0, current)'
      BY <1>1, <1>6, <2>3
    <3> QED
      BY <1>1, <1>2, <1>5, <2>1, <3>1
  <2> QED
    BY <2>2, <2>3
<1>9. CASE PanelStatus \/ PanelForce \/ PanelEnd
  <2>1. first.type # "STOP" /\ UNCHANGED diagnosing
    BY <1>9 DEF PanelStatus, PanelForce, PanelEnd, PanelTakes
  <2>2. current # None => Closing(toPanel, 0, current)'
    BY <1>1, <1>6, <2>1
  <2> QED
    BY <1>1, <1>2, <1>5, <2>1, <2>2
<1> QED
  BY <1>7, <1>8, <1>9 DEF PanelStep

LEMMA NextStopInv ==
  ASSUME TypeOK, RoundInv, StopInv, Next
  PROVE  StopInv'
<1>1. CASE LinkBreak
  <2>1. PICK lost \in SUBSET Devices, current \in Devices \cup {None} :
          Cardinality(lost) <= breaks /\ diagnosing \subseteq lost \cup {current}
    BY DEF StopInv
  <2> DEFINE more == lost \cup ({current} \ {None})
  <2>2. more \in SUBSET Devices /\ Cardinality(more) <= breaks + 1
    <3>1. IsFiniteSet(Devices) /\ IsFiniteSet(lost)
      <4>1. IsFiniteSet(Devices)
        BY ProbeAssumption, FS_Interval DEF Devices
      <4> QED
        BY <4>1, FS_Subset
    <3>2. Cardinality(lost) \in Nat /\ breaks \in Nat
      BY <3>1, FS_CardinalityType DEF TypeOK, WireTypes
    <3>3. current # None => more = lost \cup {current} /\ current \in Devices
      OBVIOUS
    <3>4. Cardinality(lost \cup {current}) \in {Cardinality(lost), Cardinality(lost) + 1}
      BY <3>1, <3>2, FS_AddElement
    <3>5. current = None => more = lost
      OBVIOUS
    <3> HIDE DEF more
    <3>6. CASE current = None
      BY <2>1, <3>2, <3>5, <3>6
    <3>7. CASE current # None
      BY <2>1, <3>2, <3>3, <3>4, <3>7
    <3> QED
      BY <3>6, <3>7
  <2>3. diagnosing' \subseteq more \cup {None} /\ toPanel' = <<>> /\ Len(toPanel') = 0
        /\ breaks' = breaks + 1
    BY <1>1, <2>1 DEF LinkBreak
  <2> HIDE DEF more
  <2> QED
    BY <2>2, <2>3 DEF StopInv
<1>2. CASE ReaderStep \/ RejectPin \/ Done
  BY <1>2, CalmStopInv DEF ReaderStep, StoreResponse, SignalResponse, NoticeBreak, Reopen,
     RejectPin, Done, vars, Owes
<1>3. CASE ThreadStep
  <2>1. UNCHANGED <<link, diagnosing, breaks>>
    BY <1>3 DEF ThreadStep, NextDevice, LoopEnds, ClearStatus, DropStatus, QueryStatus,
       AwaitStatus, TakeStatus, ClearDiag, DropDiag, StartDiagnostics, ForceInfo,
       AwaitDiagnostic, StopDiagnostics, StopAnyway, TakeDiagnostic, KeepResult, Logout, WriteStep
  <2>2. CASE WriteFails
    BY <2>1, <2>2, CalmStopInv DEF WriteFails
  <2>3. CASE NextDevice \/ LoopEnds \/ ClearStatus \/ DropStatus \/ AwaitStatus \/ TakeStatus
             \/ ClearDiag \/ DropDiag \/ AwaitDiagnostic \/ TakeDiagnostic \/ KeepResult
    <3>1. UNCHANGED toPanel /\ \A d \in Devices : Owes(d) => Owes(d)'
      BY <2>3 DEF NextDevice, LoopEnds, ClearStatus, DropStatus, AwaitStatus, TakeStatus,
         ClearDiag, DropDiag, AwaitDiagnostic, TakeDiagnostic, KeepResult, AfterStatus, Owes
    <3> QED
      BY <2>1, <3>1, CalmStopInv
  <2>4. ASSUME NEW sent \in {"QUERY", "START", "FORCE", "STOP"}, Write(sent, at), at \in Devices,
               \A d \in Devices : Owes(d) => Owes(d)' \/ (sent = "STOP" /\ at = d),
               sent = "START" => Owes(at)' /\ \A d \in Devices : ~Owes(d), UNCHANGED at
        PROVE  StopInv'
    <3>1. PICK packet \in Commands :
            packet = [type |-> sent, of |-> at] /\ packet.type = sent /\ packet.of = at
      <4>1. [type |-> sent, of |-> at] \in [type : {"QUERY", "START", "FORCE", "STOP"}, of : Devices]
        BY <2>4
      <4>2. [type |-> sent, of |-> at].type = sent /\ [type |-> sent, of |-> at].of = at
        OBVIOUS
      <4> QED
        BY <4>1, <4>2, Zenon DEF Commands
    <3>2. link = "up" /\ toPanel' = Append(toPanel, packet)
      BY <2>4, <3>1 DEF Write
    <3>3. packet.type = "START" => Owes(packet.of)' /\ \A d \in Devices : ~Owes(d)
      BY <2>4, <3>1 DEF Owes
    <3>4. \A d \in Devices : Owes(d) => Owes(d)' \/ (packet.type = "STOP" /\ packet.of = d)
      BY <2>4, <3>1
    <3> QED
      BY <2>1, <3>2, <3>3, <3>4, WriteStopInv
  <2>5. pc \in Round => at \in Devices
    BY DEF RoundInv
  <2>6. CASE QueryStatus
    BY <2>2, <2>4, <2>5, <2>6 DEF QueryStatus, WriteStep, Owes, Round, Asking
  <2>7. CASE StartDiagnostics
    BY <2>2, <2>4, <2>5, <2>7 DEF StartDiagnostics, WriteStep, Owes, Round, After
  <2>8. CASE ForceInfo
    BY <2>2, <2>4, <2>5, <2>8 DEF ForceInfo, WriteStep, Owes, Round, After
  <2>9. CASE StopDiagnostics
    BY <2>2, <2>4, <2>5, <2>9 DEF StopDiagnostics, WriteStep, Owes, Round, After
  <2>10. CASE StopAnyway
    BY <2>2, <2>4, <2>5, <2>10 DEF StopAnyway, Owes, Round, After
  <2>11. CASE Logout /\ Write("END", None)
    <3> DEFINE packet == [type |-> "END", of |-> None]
    <3>1. packet \in Commands /\ packet.type = "END"
      BY DEF Commands
    <3>2. link = "up" /\ toPanel' = Append(toPanel, packet) /\ \A d \in Devices : ~Owes(d)
      BY <2>11 DEF Write, Logout, Owes
    <3> HIDE DEF packet
    <3> QED
      BY <2>1, <3>1, <3>2, WriteStopInv
  <2> QED
    BY <1>3, <2>2, <2>3, <2>6, <2>7, <2>8, <2>9, <2>10, <2>11 DEF ThreadStep, Logout
<1> QED
  BY <1>1, <1>2, <1>3, PanelStopInv DEF Next

-----------------------------------------------------------------------------
(***************************************************************************)
(* The theorems.                                                           *)
(***************************************************************************)
LEMMA InitInv == Init => Inv
<1> SUFFICES ASSUME Init PROVE Inv
  OBVIOUS
<1> USE DEF Init
<1>1. /\ Pending(toPanel, "QUERY") = {} /\ Pending(toPanel, "FORCE") = {}
      /\ Pending(fromPanel, "STATUS") = {} /\ Pending(fromPanel, "DIAG") = {}
      /\ Ascends(toPanel, "QUERY") /\ Ascends(fromPanel, "STATUS")
      /\ Ascends(toPanel, "FORCE") /\ Ascends(fromPanel, "DIAG")
  BY PendingEmpty
<1>2. /\ Listed = {} /\ Len(results) = 0 /\ DOMAIN results = {} /\ results \in Seq(Infos)
      /\ toPanel \in Seq(Commands) /\ fromPanel \in Seq(Answers) /\ Len(toPanel) = 0
  BY DEF Listed
<1>3. TypeOK
  <2>1. 0 \in 0..NumDevices /\ 0 \in 0..MaxBreaks
    BY ProbeAssumption
  <2> QED
    BY <1>2, <2>1 DEF TypeOK, ThreadTypes, EventTypes, WireTypes, PanelTypes, Points, None
<1>4. RoundInv
  BY DEF RoundInv, Round, Before, Asking, After
<1>5. LagInv
  BY <1>1, <1>2 DEF LagInv, Queried, Coming, Before, Asking, After, None
<1>6. LateAnswersOnlyLag
  BY <1>2 DEF LateAnswersOnlyLag
<1>7. StopInv
  <2>1. {} \in SUBSET Devices /\ None \in Devices \cup {None} /\ Cardinality({}) = 0
    BY FS_EmptySet
  <2> QED
    BY <1>2, <2>1 DEF StopInv
<1>8. NoStatus /\ NoDiagnostic
  BY <1>1 DEF NoStatus, NoDiagnostic, Queried, Coming, Forced, Diagnostics, NoAnswer
<1>9. TimelyInv
  <2>1. StatusInv
    BY <1>8 DEF StatusInv, Asking, After
  <2>2. DiagnosticInv
    BY <1>1, <1>8 DEF DiagnosticInv, Round, Before, Asking, After
  <2>3. AnsweredInv
    BY <1>2, <1>8 DEF AnsweredInv, Before, After
  <2> QED
    BY <1>2, <2>1, <2>2, <2>3 DEF TimelyInv
<1> QED
  BY <1>3, <1>4, <1>5, <1>6, <1>7, <1>9 DEF Inv

LEMMA NextInv == Inv /\ [Next]_vars => Inv'
<1>1. ASSUME Inv, Next PROVE Inv'
  BY <1>1, NextTypeOK, NextThreadTypes, NextLagInv, NextLate, NextStopInv, NextTimelyInv DEF Inv
<1>2. ASSUME Inv, UNCHANGED vars PROVE Inv'
  <2>1. Done \/ UNCHANGED vars
    BY <1>2
  <2> USE <1>2 DEF vars
  <2>2. UNCHANGED <<Queried, Coming, Forced, Diagnostics, Listed>>
    BY DEF Queried, Coming, Forced, Diagnostics, Listed
  <2>3. TypeOK' /\ RoundInv' /\ LateAnswersOnlyLag'
    BY DEF Inv, TypeOK, ThreadTypes, EventTypes, WireTypes, PanelTypes, RoundInv, LateAnswersOnlyLag
  <2>4. LagInv'
    BY <2>2 DEF Inv, LagInv
  <2>5. StopInv'
    BY CalmStopInv DEF Inv, Owes
  <2>6. NoStatus' = NoStatus /\ NoDiagnostic' = NoDiagnostic
    BY <2>2 DEF NoStatus, NoDiagnostic
  <2>7. TimelyInv'
    BY <2>2, <2>6 DEF Inv, TimelyInv, StatusInv, DiagnosticInv, AnsweredInv
  <2> QED
    BY <2>3, <2>4, <2>5, <2>7 DEF Inv
<1> QED
  BY <1>1, <1>2

\* The inductive invariant holds in every reachable state of the probe.
THEOREM ProbeInvariant == Spec => []Inv
<1> QED
  BY InitInv, NextInv, PTL DEF Spec

\* The probe's types, for any number of devices and link breaks.
THEOREM ProbeTypeCorrect == Spec => []TypeOK
<1>1. Inv => TypeOK
  BY DEF Inv
<1> QED
  BY <1>1, ProbeInvariant, PTL

\* No response is ever used twice, and none before its device was queried
\* (_query_single_device and the single response field of the reader thread).
THEOREM LateAnswersCorrect == Spec => []LateAnswersOnlyLag
<1>1. Inv => LateAnswersOnlyLag
  BY DEF Inv
<1> QED
  BY <1>1, ProbeInvariant, PTL

\* When the probe has ended, a device is left in diagnostics mode only by a
\* break of the link (_query_bus_device_diagnostics).
THEOREM StoppedCorrect == Spec => []DiagnosticsAreStopped
<1>1. Inv => DiagnosticsAreStopped
  <2>1. SUFFICES ASSUME Inv, pc = "done", toPanel = <<>> PROVE Cardinality(diagnosing) <= breaks
    BY DEF DiagnosticsAreStopped
  <2>2. PICK lost \in SUBSET Devices, current \in Devices \cup {None} :
          /\ Cardinality(lost) <= breaks
          /\ diagnosing \subseteq lost \cup {current}
          /\ current # None => link = "up" /\ Closing(toPanel, 0, current)
    BY <2>1 DEF Inv, StopInv
  <2>3. current = None
    BY <2>1, <2>2 DEF Closing, Stops, Owes
  <2>4. diagnosing \subseteq lost
    BY <2>1, <2>2, <2>3 DEF Inv, TypeOK, PanelTypes, Devices, None
  <2>5. IsFiniteSet(Devices)
    BY ProbeAssumption, FS_Interval DEF Devices
  <2>6. IsFiniteSet(lost)
    BY <2>5, FS_Subset
  <2>7. /\ Cardinality(diagnosing) <= Cardinality(lost) /\ Cardinality(lost) \in Nat
        /\ Cardinality(diagnosing) \in Nat
    BY <2>4, <2>6, FS_Subset, FS_CardinalityType
  <2>8. breaks \in Nat
    BY <2>1, ProbeAssumption DEF Inv, TypeOK, WireTypes
  <2> QED
    BY <2>2, <2>7, <2>8
<1> QED
  BY <1>1, ProbeInvariant, PTL

\* Unless an answer came too late, the diagnostics in a DeviceInfo are those of
\* the device whose status it holds (client.py:590).
THEOREM InfoCorrect == Spec => []InfoIsOfOneDevice
<1>1. Inv => InfoIsOfOneDevice
  BY DEF Inv, TimelyInv, InfoIsOfOneDevice
<1> QED
  BY <1>1, ProbeInvariant, PTL

\* Unless an answer came too late or the link broke, the finished probe lists
\* exactly the devices that responded (client.py:597).
THEOREM RespondersCorrect == Spec => []RespondersAreReported
<1>1. Inv => RespondersAreReported
  <2>1. SUFFICES ASSUME Inv, pc = "done", breaks = 0, ~hurried
        PROVE  {results[i].device : i \in DOMAIN results} = answered
    BY DEF RespondersAreReported
  <2>2. answered = Listed
    BY <2>1 DEF Inv, TimelyInv, AnsweredInv
  <2>3. DOMAIN results = 1..Len(results) /\ \A i \in 1..Len(results) : results[i] \in Infos
    BY <2>1 DEF Inv, TypeOK, ThreadTypes
  <2>4. \A i \in 1..Len(results) : results[i].device \in 0..NumDevices
    BY <2>3, ProbeAssumption DEF Infos, Devices
  <2> QED
    BY <2>2, <2>3, <2>4 DEF Listed
<1> QED
  BY <1>1, ProbeInvariant, PTL
=============================================================================
