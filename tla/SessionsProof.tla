---------------------------- MODULE SessionsProof ----------------------------
(***************************************************************************)
(* Proofs about Sessions, for any set of calls and any number of link      *)
(* breaks: first what holds of a panel that may be as late as it likes,    *)
(* then what needs its answers in time (Prompt), with the refinement of    *)
(* CommandService.                                                         *)
(***************************************************************************)
EXTENDS MCSessions, SequenceTheorems, TLAPS

USE DEF Calls, callVars, eventVars, flagVars, wireVars, panelVars

-----------------------------------------------------------------------------
(***************************************************************************)
(* Types.                                                                  *)
(***************************************************************************)
\* A new client has the declared types.
LEMMA InitTypeOK == Init => TypeOK
<1> SUFFICES ASSUME Init PROVE TypeOK
  OBVIOUS
<1>1. FlagTypes BY DEF Init, FlagTypes
<1>2. CallTypes BY BoundsAssumption DEF Init, CallTypes, Points, Outcomes
<1>3. WireTypes BY BoundsAssumption DEF Init, WireTypes
<1> QED BY <1>1, <1>2, <1>3 DEF TypeOK

\* A step of a call changes at most one flag, and sets it to a truth value.
LEMMA CallFlagTypes ==
  ASSUME FlagTypes, NEW c \in Calls, CallStep(c)
  PROVE  FlagTypes'
<1> USE DEF FlagTypes
<1>1. CASE CheckFails(c) BY <1>1 DEF CheckFails
<1>2. CASE CheckPasses(c) BY <1>2 DEF CheckPasses
<1>3. CASE Acquire(c) BY <1>3 DEF Acquire
<1>4. CASE SendEnd(c) BY <1>4 DEF SendEnd
<1>5. CASE RejectCode(c) BY <1>5 DEF RejectCode
<1>6. CASE SendCode(c) BY <1>6 DEF SendCode
<1>7. CASE ClearLogin(c) BY <1>7 DEF ClearLogin
<1>8. CASE ResetAuthError(c) BY <1>8 DEF ResetAuthError
<1>9. CASE AwaitLogin(c) BY <1>9 DEF AwaitLogin
<1>10. CASE ReadVerdict(c) BY <1>10 DEF ReadVerdict
<1>11. CASE SendCommand(c) BY <1>11 DEF SendCommand
<1>12. CASE ClearAck(c) BY <1>12 DEF ClearAck
<1>13. CASE AwaitAck(c) BY <1>13 DEF AwaitAck
<1>14. CASE ClearDone(c) BY <1>14 DEF ClearDone
<1>15. CASE AwaitDone(c) BY <1>15 DEF AwaitDone
<1>16. CASE ReadConfig(c) BY <1>16 DEF ReadConfig
<1>17. CASE QueryDevice(c) BY <1>17 DEF QueryDevice
<1>18. CASE AwaitDevice(c) BY <1>18 DEF AwaitDevice
<1>19. CASE FinishProbe(c) BY <1>19 DEF FinishProbe
<1>20. CASE Logout(c) BY <1>20 DEF Logout
<1>21. CASE Release(c) BY <1>21 DEF Release
<1> QED
  BY <1>1, <1>2, <1>3, <1>4, <1>5, <1>6, <1>7, <1>8, <1>9, <1>10, <1>11, <1>12, <1>13, <1>14, <1>15, <1>16, <1>17, <1>18, <1>19, <1>20, <1>21 DEF CallStep

\* A step of a call keeps program points, results and the lock in range.
LEMMA CallCallTypes ==
  ASSUME CallTypes, NEW c \in Calls, CallStep(c)
  PROVE  CallTypes'
<1> USE DEF CallTypes, Points, Locked, Outcomes, Goto, EndWith
<1>1. CASE CheckFails(c)
  BY <1>1 DEF CheckFails, PostReturn, Posts
<1>2. CASE CheckPasses(c)
  BY <1>2 DEF CheckPasses
<1>3. CASE Acquire(c)
  BY <1>3 DEF Acquire
<1>4. CASE SendEnd(c)
  BY <1>4, ZenonT(40) DEF SendEnd, WriteStep, Write, WriteFails
<1>5. CASE RejectCode(c)
  BY <1>5 DEF RejectCode
<1>6. CASE SendCode(c)
  BY <1>6, ZenonT(40) DEF SendCode, WriteStep, Write, WriteFails
<1>7. CASE ClearLogin(c)
  BY <1>7 DEF ClearLogin
<1>8. CASE ResetAuthError(c)
  BY <1>8 DEF ResetAuthError
<1>9. CASE AwaitLogin(c)
  BY <1>9 DEF AwaitLogin, WaitTimesOut
<1>10. CASE ReadVerdict(c)
  BY <1>10 DEF ReadVerdict
<1>11. CASE SendCommand(c)
  BY <1>11, ZenonT(40) DEF SendCommand, WriteStep, Write, WriteFails
<1>12. CASE ClearAck(c)
  BY <1>12 DEF ClearAck
<1>13. CASE AwaitAck(c)
  BY <1>13 DEF AwaitAck, WaitTimesOut
<1>14. CASE ClearDone(c)
  BY <1>14 DEF ClearDone
<1>15. CASE AwaitDone(c)
  BY <1>15 DEF AwaitDone, WaitTimesOut
<1>16. CASE ReadConfig(c)
  BY <1>16 DEF ReadConfig
<1>17. CASE QueryDevice(c)
  <2>1. left' \in [Calls -> 0..Devices]
    BY <1>17, BoundsAssumption DEF QueryDevice
  <2> QED
    BY <2>1, <1>17 DEF QueryDevice, WriteStep
<1>18. CASE AwaitDevice(c)
  BY <1>18 DEF AwaitDevice
<1>19. CASE FinishProbe(c)
  BY <1>19 DEF FinishProbe
<1>20. CASE Logout(c)
  BY <1>20 DEF Logout, Write, WriteFails
<1>21. CASE Release(c)
  BY <1>21 DEF Release, PostReturn, Posts
<1> QED
  BY <1>1, <1>2, <1>3, <1>4, <1>5, <1>6, <1>7, <1>8, <1>9, <1>10, <1>11, <1>12, <1>13, <1>14, <1>15, <1>16, <1>17, <1>18, <1>19, <1>20, <1>21 DEF CallStep

\* What is written, posted or answered is a packet of the protocol.
LEMMA PacketTypes ==
  ASSUME WireTypes, NEW c \in Calls
  PROVE  /\ \A t \in {"END", "CODE", "MODIFY", "EXPORT", "QUERY"} :
              Append(toPanel, [type |-> t, of |-> c]) \in Seq(Requests)
         /\ Append(posted, [type |-> "RETURN", of |-> c]) \in Seq(Posts)
<1>1. \A t \in {"END", "CODE", "MODIFY", "EXPORT", "QUERY"} :
        [type |-> t, of |-> c] \in Requests
  BY DEF Requests
<1>2. [type |-> "RETURN", of |-> c] \in Posts
  BY DEF Posts
<1> QED
  BY <1>1, <1>2 DEF WireTypes

\* A step of a call writes and posts packets of the right shape only.
LEMMA CallWireTypes ==
  ASSUME CallTypes, WireTypes, NEW c \in Calls, CallStep(c)
  PROVE  WireTypes'
<1> USE DEF WireTypes
<1>1. CASE CheckFails(c)
  BY <1>1, PacketTypes DEF CheckFails, PostReturn
<1>2. CASE CheckPasses(c)
  BY <1>2 DEF CheckPasses
<1>3. CASE Acquire(c)
  BY <1>3 DEF Acquire
<1>4. CASE SendEnd(c)
  BY <1>4, PacketTypes DEF SendEnd, WriteStep, Write, WriteFails
<1>5. CASE RejectCode(c)
  BY <1>5 DEF RejectCode
<1>6. CASE SendCode(c)
  BY <1>6, PacketTypes DEF SendCode, WriteStep, Write, WriteFails
<1>7. CASE ClearLogin(c)
  BY <1>7 DEF ClearLogin
<1>8. CASE ResetAuthError(c)
  BY <1>8 DEF ResetAuthError
<1>9. CASE AwaitLogin(c)
  BY <1>9 DEF AwaitLogin, WaitTimesOut
<1>10. CASE ReadVerdict(c)
  BY <1>10 DEF ReadVerdict
<1>11. CASE SendCommand(c)
  BY <1>11, PacketTypes DEF SendCommand, WriteStep, Write, WriteFails
<1>12. CASE ClearAck(c)
  BY <1>12 DEF ClearAck
<1>13. CASE AwaitAck(c)
  BY <1>13 DEF AwaitAck, WaitTimesOut
<1>14. CASE ClearDone(c)
  BY <1>14 DEF ClearDone
<1>15. CASE AwaitDone(c)
  BY <1>15 DEF AwaitDone, WaitTimesOut
<1>16. CASE ReadConfig(c)
  BY <1>16 DEF ReadConfig
<1>17. CASE QueryDevice(c)
  BY <1>17, PacketTypes, BoundsAssumption DEF QueryDevice, WriteStep, Write, WriteFails
<1>18. CASE AwaitDevice(c)
  BY <1>18 DEF AwaitDevice
<1>19. CASE FinishProbe(c)
  BY <1>19 DEF FinishProbe
<1>20. CASE Logout(c)
  BY <1>20, PacketTypes DEF Logout, Write, WriteFails
<1>21. CASE Release(c)
  BY <1>21, PacketTypes DEF Release, PostReturn
<1> QED
  BY <1>1, <1>2, <1>3, <1>4, <1>5, <1>6, <1>7, <1>8, <1>9, <1>10, <1>11, <1>12, <1>13, <1>14, <1>15, <1>16, <1>17, <1>18, <1>19, <1>20, <1>21 DEF CallStep

\* The loop, the reader, the panel and the link keep all types.
LEMMA OtherTypeOK ==
  ASSUME TypeOK, LoopStep \/ ReaderStep \/ PanelStep \/ LinkBreak
  PROVE  TypeOK'
<1>1. ASSUME NEW c \in Calls, Start(c) PROVE TypeOK'
  <2>1. FlagTypes' BY <1>1 DEF Start, FlagTypes, TypeOK
  <2>2. CallTypes' BY <1>1 DEF Start, CallTypes, TypeOK, Goto, Points
  <2>3. WireTypes' BY <1>1 DEF Start, WireTypes, TypeOK
  <2> QED BY <2>1, <2>2, <2>3 DEF TypeOK
<1>2. CASE HandleWrongCode
  <2>1. FlagTypes' BY <1>2 DEF HandleWrongCode, FlagTypes, TypeOK
  <2>2. CallTypes' BY <1>2 DEF HandleWrongCode, CallTypes, TypeOK
  <2>3. WireTypes' BY <1>2 DEF HandleWrongCode, WireTypes, TypeOK
  <2> QED BY <2>1, <2>2, <2>3 DEF TypeOK
<1>3. CASE Resume
  <2>1. FlagTypes' BY <1>3 DEF Resume, FlagTypes, TypeOK
  <2>2. CallTypes' BY <1>3 DEF Resume, CallTypes, TypeOK, Goto, Points
  <2>3. WireTypes' BY <1>3 DEF Resume, WireTypes, TypeOK
  <2> QED BY <2>1, <2>2, <2>3 DEF TypeOK
<1>4. CASE ReaderStep
  <2> USE <1>4 DEF ReaderStep
  <2>1. FlagTypes'
    BY DEF ReadAnswer, MarkAuthError, SignalAnswer, NoticeBreak, Reopen, FlagTypes, TypeOK
  <2>2. CallTypes'
    BY DEF ReadAnswer, MarkAuthError, SignalAnswer, NoticeBreak, Reopen, CallTypes, TypeOK
  <2>3. WireTypes'
    <3>1. CASE ReadAnswer
      <4>1. Head(fromPanel) \in Answers
        BY <3>1 DEF ReadAnswer, WireTypes, TypeOK
      <4>2. Head(fromPanel).type = "WRONG" => Head(fromPanel) \in Posts
        BY <4>1 DEF Answers, Posts
      <4>3. reader' \in {"LOGIN", "WRONG", "ACK", "DONE"}
        BY <3>1, <4>1 DEF ReadAnswer, Answers
      <4>4. posted' \in Seq(Posts)
        BY <3>1, <4>2 DEF ReadAnswer, WireTypes, TypeOK
      <4>5. fromPanel' \in Seq(Answers)
        BY <3>1 DEF ReadAnswer, WireTypes, TypeOK
      <4> QED
        BY <3>1, <4>3, <4>4, <4>5 DEF ReadAnswer, WireTypes, TypeOK
    <3>2. CASE MarkAuthError \/ SignalAnswer \/ NoticeBreak \/ Reopen
      BY <3>2 DEF MarkAuthError, SignalAnswer, NoticeBreak, Reopen, WireTypes, TypeOK
    <3> QED BY <3>1, <3>2
  <2> QED BY <2>1, <2>2, <2>3 DEF TypeOK
<1>5. CASE PanelStep
  <2> USE <1>5 DEF PanelStep
  <2>1. FlagTypes'
    BY DEF PanelEnd, PanelCode, PanelModify, PanelExport, PanelQuery, PanelCommand, FlagTypes, TypeOK
  <2>2. CallTypes'
    BY DEF CallTypes, TypeOK
  <2>3. WireTypes'
    <3> DEFINE Replies(types) == [i \in DOMAIN types |->
                                    [type |-> types[i], of |-> Head(toPanel).of]]
    <3>1. toPanel # <<>> /\ toPanel' = Tail(toPanel)
      BY DEF PanelEnd, PanelCode, PanelModify, PanelExport, PanelQuery, PanelCommand, PanelTakes
    <3>2. Head(toPanel).of \in Calls
      <4>1. Head(toPanel) \in Requests
        BY <3>1 DEF WireTypes, TypeOK
      <4> QED
        BY <4>1 DEF Requests
    <3>3. /\ Replies(<<>>) \in Seq(Answers)
          /\ Replies(<<"LOGIN">>) \in Seq(Answers)
          /\ Replies(<<"WRONG">>) \in Seq(Answers)
          /\ Replies(<<"ACK">>) \in Seq(Answers)
          /\ Replies(<<"ACK", "DONE">>) \in Seq(Answers)
      BY <3>2 DEF Answers
    <3>4. toPanel' \in Seq(Requests)
      BY <3>1 DEF WireTypes, TypeOK
    <3>5. \A s \in Seq(Answers) : fromPanel \o s \in Seq(Answers)
      BY DEF WireTypes, TypeOK
    <3>6. CASE PanelEnd
      BY <3>4, <3>6 DEF PanelEnd, WireTypes, TypeOK
    <3>7. CASE PanelCode
      BY <3>2, <3>3, <3>4, <3>5, <3>7 DEF PanelCode, Answer, WireTypes, TypeOK
    <3>8. ASSUME NEW type, NEW types, Replies(types) \in Seq(Answers),
                 PanelCommand(type, types)
          PROVE  WireTypes'
      <4>1. applied' \in [Calls -> Nat]
        BY <3>2, <3>8, SMTT(20) DEF PanelCommand, WireTypes, TypeOK
      <4>2. fromPanel' \in Seq(Answers)
        <5>1. CASE fromPanel' = fromPanel
          BY <5>1 DEF WireTypes, TypeOK
        <5>2. CASE fromPanel' = fromPanel \o Replies(types)
          BY <5>2, <3>5, <3>8
        <5> QED
          BY <5>1, <5>2, <3>8 DEF PanelCommand, Answer
      <4> QED
        BY <3>4, <3>8, <4>1, <4>2 DEF PanelCommand, WireTypes, TypeOK
    <3> QED
      BY <3>3, <3>6, <3>7, <3>8 DEF PanelModify, PanelExport, PanelQuery
  <2> QED BY <2>1, <2>2, <2>3 DEF TypeOK
<1>6. CASE LinkBreak
  <2>1. FlagTypes' BY <1>6 DEF LinkBreak, FlagTypes, TypeOK
  <2>2. CallTypes' BY <1>6 DEF LinkBreak, CallTypes, TypeOK
  <2>3. WireTypes' BY <1>6, BoundsAssumption DEF LinkBreak, WireTypes, TypeOK
  <2> QED BY <2>1, <2>2, <2>3 DEF TypeOK
<1> QED
  BY <1>1, <1>2, <1>3, <1>4, <1>5, <1>6 DEF LoopStep

\* So does every step of the system, whoever takes it.
LEMMA StepTypeOK == TypeOK /\ [Next]_vars => TypeOK'
<1> SUFFICES ASSUME TypeOK, [Next]_vars PROVE TypeOK'
  OBVIOUS
<1>1. ASSUME NEW c \in Calls, CallStep(c) PROVE TypeOK'
  BY <1>1, CallFlagTypes, CallCallTypes, CallWireTypes DEF TypeOK
<1>2. CASE UNCHANGED vars
  BY <1>2 DEF vars, TypeOK, FlagTypes, CallTypes, WireTypes
<1>3. CASE Idle
  BY <1>2, <1>3 DEF Idle
<1> QED
  BY <1>1, <1>2, <1>3, OtherTypeOK DEF Next

\* Every variable keeps its type, whatever the interleaving.
THEOREM TypeCorrect == Spec => []TypeOK
BY InitTypeOK, StepTypeOK, PTL DEF Spec

-----------------------------------------------------------------------------
(***************************************************************************)
(* OneCallPerSession along the changes of the queue.                       *)
(***************************************************************************)
\* Writing AUTH_END leaves nothing open behind it, whoever is the owner next.
LEMMA AppendEnd ==
  ASSUME NEW q \in Seq(Requests), NEW e \in Requests, e.type = "END",
         NEW standing, NEW owner, NEW next,
         OneCallPerSession(q, standing, owner)
  PROVE  OneCallPerSession(Append(q, e), standing, next)
<1> DEFINE r == Append(q, e)
<1>1. /\ r \in Seq(Requests) /\ Len(r) = Len(q) + 1
      /\ \A i \in 1..Len(q) : r[i] = q[i]
      /\ r[Len(r)] = e
  OBVIOUS
<1>2. \A i \in 1..Len(r) : ~NoEnd(r, i..Len(r))
  BY <1>1 DEF NoEnd
<1>3. ~NoEnd(r, 1..Len(r))
  BY <1>1 DEF NoEnd
<1>4. \A i, j \in 1..Len(r) : i <= j /\ NoEnd(r, i..j) =>
        i \in 1..Len(q) /\ j \in 1..Len(q) /\ NoEnd(q, i..j)
  BY <1>1 DEF NoEnd
<1>5. ASSUME NEW i \in 1..Len(r), NoEnd(r, 1..i), standing # NoCall
      PROVE  r[i].of = standing
  BY <1>1, <1>4, <1>5 DEF OneCallPerSession
<1>6. ASSUME NEW i \in 1..Len(r), NEW j \in 1..Len(r), i < j, NoEnd(r, i..j)
      PROVE  r[i].of = r[j].of
  BY <1>1, <1>4, <1>6 DEF OneCallPerSession
<1> HIDE DEF r
<1>7. OneCallPerSession(r, standing, next)
  BY <1>2, <1>3, <1>5, <1>6 DEF OneCallPerSession
<1> QED
  BY <1>7 DEF r

\* A call writes when it is the owner, or when nobody is and it becomes it.
LEMMA AppendOwn ==
  ASSUME NEW q \in Seq(Requests), NEW c \in Calls, NEW m \in Requests, m.of = c,
         NEW standing, NEW owner \in {c, NoCall},
         OneCallPerSession(q, standing, owner)
  PROVE  OneCallPerSession(Append(q, m), standing, c)
<1> DEFINE r == Append(q, m)
<1>1. /\ r \in Seq(Requests) /\ Len(r) = Len(q) + 1
      /\ \A i \in 1..Len(q) : r[i] = q[i]
      /\ r[Len(r)] = m
  OBVIOUS
<1>2. ASSUME NEW i \in 1..Len(q) PROVE q[i].of \in Calls
  <2>1. q[i] \in Requests
    OBVIOUS
  <2> QED
    BY <2>1 DEF Requests
<1>3. \A i \in 1..Len(r), j \in 1..Len(q) : NoEnd(r, i..j) => NoEnd(q, i..j)
  BY <1>1 DEF NoEnd
<1>4. \A i \in 1..Len(q) : NoEnd(r, i..Len(r)) => NoEnd(q, i..Len(q))
  BY <1>1 DEF NoEnd
<1>5. \A i \in 1..Len(q) : NoEnd(q, i..Len(q)) => q[i].of = c
  BY <1>2, CallsAssumption DEF OneCallPerSession
<1>6. NoEnd(q, 1..Len(q)) /\ standing # NoCall => standing = c
  BY CallsAssumption DEF OneCallPerSession
<1>7. \A i \in 1..Len(r) : NoEnd(r, i..Len(r)) => r[i].of = c
  BY <1>1, <1>4, <1>5
<1>8. NoEnd(r, 1..Len(r)) => NoEnd(q, 1..Len(q))
  BY <1>1 DEF NoEnd
<1>9. ASSUME NEW i \in 1..Len(r), NoEnd(r, 1..i), standing # NoCall
      PROVE  r[i].of = standing
  <2>1. CASE i \in 1..Len(q)
    BY <1>1, <1>3, <1>9, <2>1 DEF OneCallPerSession
  <2>2. CASE i = Len(r)
    BY <1>1, <1>6, <1>8, <1>9, <2>2
  <2> QED
    BY <1>1, <2>1, <2>2
<1>10. ASSUME NEW i \in 1..Len(r), NEW j \in 1..Len(r), i < j, NoEnd(r, i..j)
       PROVE  r[i].of = r[j].of
  <2>1. CASE j \in 1..Len(q)
    BY <1>1, <1>3, <1>10, <2>1 DEF OneCallPerSession
  <2>2. CASE j = Len(r)
    BY <1>1, <1>7, <1>10, <2>2
  <2> QED
    BY <1>1, <2>1, <2>2
<1> HIDE DEF r
<1>11. OneCallPerSession(r, standing, c)
  BY <1>6, <1>7, <1>8, <1>9, <1>10 DEF OneCallPerSession
<1> QED
  BY <1>11 DEF r

\* Handling the head: an AUTH_END closes the session, ...
LEMMA TailEnd ==
  ASSUME NEW q \in Seq(Requests), q # <<>>,
         NEW standing, NEW owner, OneCallPerSession(q, standing, owner)
  PROVE  OneCallPerSession(Tail(q), NoCall, owner)
<1> DEFINE r == Tail(q)
<1>1. /\ r \in Seq(Requests) /\ Len(r) = Len(q) - 1
      /\ \A i \in 1..Len(r) : r[i] = q[i + 1] /\ i + 1 \in 1..Len(q)
  OBVIOUS
<1>2. \A i \in 1..Len(r), j \in 1..Len(r) :
        NoEnd(r, i..j) => NoEnd(q, (i + 1)..(j + 1))
  BY <1>1 DEF NoEnd
<1>3. \A i \in 1..Len(r) : NoEnd(r, i..Len(r)) => r[i].of = owner
  BY <1>1, <1>2 DEF OneCallPerSession
<1>4. \A i, j \in 1..Len(r) : i < j /\ NoEnd(r, i..j) => r[i].of = r[j].of
  BY <1>1, <1>2 DEF OneCallPerSession
<1> QED
  BY <1>3, <1>4 DEF OneCallPerSession

\* ... any other packet is of the call that owns all packets up to the next
\* AUTH_END; an AUTH_CODE makes that call's session the standing one.
LEMMA TailOther ==
  ASSUME NEW q \in Seq(Requests), q # <<>>, Head(q).type # "END",
         NEW standing, NEW owner, OneCallPerSession(q, standing, owner),
         NEW new \in {standing, Head(q).of}
  PROVE  OneCallPerSession(Tail(q), new, owner)
<1> DEFINE r == Tail(q)
<1>1. /\ r \in Seq(Requests) /\ Len(r) = Len(q) - 1
      /\ \A i \in 1..Len(r) : r[i] = q[i + 1] /\ i + 1 \in 1..Len(q)
      /\ q[1] = Head(q) /\ 1 \in 1..Len(q)
  OBVIOUS
<1>2. \A j \in 1..Len(r) : NoEnd(r, 1..j) => NoEnd(q, 1..(j + 1))
  BY <1>1 DEF NoEnd
<1>3. \A i \in 1..Len(r) : NoEnd(r, 1..i) => r[i].of = Head(q).of
  BY <1>1, <1>2 DEF OneCallPerSession
<1>4. \A i \in 1..Len(r) : NoEnd(r, 1..i) /\ standing # NoCall => r[i].of = standing
  BY <1>1, <1>2 DEF OneCallPerSession
<1>5. ASSUME NoEnd(r, 1..Len(r)) PROVE NoEnd(q, 1..Len(q))
  <2>1. \A i \in 1..Len(q) : i = 1 \/ (i - 1 \in 1..Len(r) /\ q[i] = r[i - 1])
    BY <1>1
  <2> QED
    BY <1>1, <1>5, <2>1 DEF NoEnd
<1>6. NoEnd(r, 1..Len(r)) /\ new # NoCall => new = owner
  BY <1>1, <1>5 DEF OneCallPerSession
<1>7. OneCallPerSession(r, NoCall, owner)
  BY TailEnd
<1>8. \A i \in 1..Len(r) : NoEnd(r, 1..i) /\ new # NoCall => r[i].of = new
  BY <1>3, <1>4
<1> HIDE DEF r
<1>9. OneCallPerSession(r, new, owner)
  BY <1>6, <1>7, <1>8 DEF OneCallPerSession
<1> QED
  BY <1>9 DEF r

\* With no owner the queue ends closed, and any call may become the owner.
LEMMA Adopt ==
  ASSUME NEW q \in Seq(Requests), NEW c \in Calls,
         NEW standing, NEW owner \in {c, NoCall},
         OneCallPerSession(q, standing, owner)
  PROVE  OneCallPerSession(q, standing, c)
<1>1. ASSUME NEW i \in 1..Len(q) PROVE q[i].of \in Calls
  <2>1. q[i] \in Requests
    OBVIOUS
  <2> QED
    BY <2>1 DEF Requests
<1> QED
  BY <1>1, CallsAssumption DEF OneCallPerSession

\* An empty queue belongs to whoever will write first.
LEMMA EmptyQueue == ASSUME NEW owner PROVE OneCallPerSession(<<>>, NoCall, owner)
BY DEF OneCallPerSession

-----------------------------------------------------------------------------
(***************************************************************************)
(* The steps of a call, by what they do to the lock and to the queue.      *)
(***************************************************************************)
UserFlagKept == userInitiated' = userInitiated

StaysOutside(c) ==
  /\ pc[c] \notin Locked /\ pc'[c] \notin Locked
  /\ UNCHANGED <<lock, toPanel>> /\ UserFlagKept

Enters(c) ==
  /\ pc[c] \notin Locked /\ pc'[c] = "end"
  /\ lock = NoCall /\ lock' = c
  /\ UNCHANGED toPanel /\ UserFlagKept

Leaves(c) ==
  /\ pc[c] = "release" /\ pc'[c] \notin Locked
  /\ lock' = NoCall
  /\ UNCHANGED toPanel
  /\ userInitiated' = (userInitiated /\ op[c] # "modify")

\* The first AUTH_END, or its failure.
ClosesFirst(c) ==
  /\ pc[c] = "end"
  /\ UNCHANGED lock
  /\ \/ pc'[c] = "code" /\ Write(c, "END")
     \/ pc'[c] = "logout" /\ UNCHANGED toPanel
  /\ userInitiated' = (userInitiated \/ op[c] = "modify")

\* A step inside the session, writing nothing or a packet of the call's own.
Works(c) ==
  /\ pc[c] \in AfterCode \cup {"code"} /\ pc'[c] \in AfterCode
  /\ UNCHANGED lock /\ UserFlagKept
  /\ UNCHANGED toPanel \/ \E type \in {"CODE", "MODIFY", "EXPORT", "QUERY"} : Write(c, type)

ClosesLast(c) ==
  /\ pc[c] = "logout" /\ pc'[c] = "release"
  /\ UNCHANGED lock /\ UserFlagKept
  /\ Write(c, "END") \/ WriteFails

\* Seen from the session lock, every step of a call has one of a few shapes: it
\* takes the lock, gives it back, writes one packet, or touches neither.
LEMMA CallShapes ==
  ASSUME TypeOK, NEW c \in Calls, CallStep(c)
  PROVE  /\ \A d \in Calls \ {c} : pc'[d] = pc[d]
         /\ UNCHANGED <<op, link, session, stale, applied>>
         /\ \/ StaysOutside(c) \/ Enters(c) \/ Leaves(c) \/ ClosesFirst(c)
            \/ Works(c) \/ ClosesLast(c)
<1> USE DEF TypeOK, CallTypes, Goto, AfterCode, Locked, UserFlagKept
<1>1. CASE CheckFails(c)
  BY <1>1 DEF CheckFails, StaysOutside
<1>2. CASE CheckPasses(c)
  BY <1>2 DEF CheckPasses, StaysOutside
<1>3. CASE Acquire(c)
  BY <1>3 DEF Acquire, Enters
<1>4. CASE SendEnd(c)
  BY <1>4 DEF SendEnd, ClosesFirst, WriteStep, WriteFails
<1>5. CASE RejectCode(c)
  BY <1>5 DEF RejectCode, Works
<1>6. CASE SendCode(c)
  BY <1>6 DEF SendCode, Works, WriteStep, WriteFails
<1>7. CASE ClearLogin(c)
  BY <1>7 DEF ClearLogin, Works
<1>8. CASE ResetAuthError(c)
  BY <1>8 DEF ResetAuthError, Works
<1>9. CASE AwaitLogin(c)
  BY <1>9 DEF AwaitLogin, Works, WaitTimesOut
<1>10. CASE ReadVerdict(c)
  BY <1>10 DEF ReadVerdict, Works
<1>11. CASE SendCommand(c)
  BY <1>11 DEF SendCommand, Works, WriteStep, WriteFails
<1>12. CASE ClearAck(c)
  BY <1>12 DEF ClearAck, Works
<1>13. CASE AwaitAck(c)
  BY <1>13 DEF AwaitAck, Works, WaitTimesOut
<1>14. CASE ClearDone(c)
  BY <1>14 DEF ClearDone, Works
<1>15. CASE AwaitDone(c)
  BY <1>15 DEF AwaitDone, Works, WaitTimesOut
<1>16. CASE ReadConfig(c)
  BY <1>16 DEF ReadConfig, Works
<1>17. CASE QueryDevice(c)
  BY <1>17 DEF QueryDevice, Works, WriteStep, WriteFails
<1>18. CASE AwaitDevice(c)
  BY <1>18 DEF AwaitDevice, Works
<1>19. CASE FinishProbe(c)
  BY <1>19 DEF FinishProbe, Works
<1>20. CASE Logout(c)
  BY <1>20 DEF Logout, ClosesLast
<1>21. CASE Release(c)
  BY <1>21 DEF Release, Leaves
<1> QED
  BY <1>1, <1>2, <1>3, <1>4, <1>5, <1>6, <1>7, <1>8, <1>9, <1>10, <1>11, <1>12, <1>13, <1>14, <1>15, <1>16, <1>17, <1>18, <1>19, <1>20, <1>21 DEF CallStep

-----------------------------------------------------------------------------
(***************************************************************************)
(* The session invariant.                                                  *)
(***************************************************************************)
\* A new client holds no lock, has no flag up and nothing on the wire.
LEMMA InitSessionInv == Init => SessionInv
<1> SUFFICES ASSUME Init PROVE SessionInv
  OBVIOUS
<1>1. LockInv
  BY CallsAssumption DEF Init, LockInv, Locked
<1>2. UserFlagInv /\ LinkInv
  BY DEF Init, UserFlagInv, LinkInv
<1>3. OneCallPerSession(toPanel, Standing, Owner)
  BY EmptyQueue DEF Init, Standing
<1> QED
  BY <1>1, <1>2, <1>3 DEF SessionInv

\* A step of modify_section, export_config or probe_all_devices keeps the
\* packets on the wire grouped by session.
LEMMA CallSessionInv ==
  ASSUME TypeOK, TypeOK', SessionInv, NEW c \in Calls, CallStep(c)
  PROVE  SessionInv'
<1>1. /\ \A d \in Calls \ {c} : pc'[d] = pc[d]
      /\ UNCHANGED <<op, link, session, stale, applied>>
      /\ \/ StaysOutside(c) \/ Enters(c) \/ Leaves(c) \/ ClosesFirst(c)
         \/ Works(c) \/ ClosesLast(c)
  BY CallShapes
<1>2. Standing' = Standing
  BY <1>1 DEF Standing
<1>3. c # NoCall
  BY CallsAssumption
<1>4. toPanel \in Seq(Requests)
  BY DEF TypeOK, WireTypes
<1>5. \A t \in {"END", "CODE", "MODIFY", "EXPORT", "QUERY"} :
        [type |-> t, of |-> c] \in Requests
  BY DEF Requests
<1>6. LockInv
  BY DEF SessionInv
<1>7. OneCallPerSession(toPanel, Standing, Owner)
  BY DEF SessionInv
<1>8. (op[c] = "modify") <=> (c \in UserCalls)
  BY DEF TypeOK, CallTypes
<1> USE DEF Locked, AfterCode, UserFlagKept
<1>9. CASE StaysOutside(c)
  <2> USE <1>9 DEF StaysOutside
  <2>1. LockInv'
    BY <1>1, <1>6 DEF LockInv
  <2>2. UserFlagInv'
    BY <1>1, <1>6 DEF SessionInv, UserFlagInv, LockInv
  <2>3. Owner' = Owner
    BY <1>1, <1>6, CallsAssumption DEF Owner, LockInv, TypeOK, CallTypes
  <2> QED
    BY <1>1, <1>2, <1>7, <2>1, <2>2, <2>3 DEF SessionInv, LinkInv
<1>10. CASE Enters(c)
  <2> USE <1>10 DEF Enters
  <2>1. LockInv'
    BY <1>1, <1>3, <1>6, CallsAssumption DEF LockInv
  <2>2. UserFlagInv'
    BY CallsAssumption DEF SessionInv, UserFlagInv
  <2>3. Owner' = NoCall /\ Owner = NoCall
    BY DEF Owner
  <2> QED
    BY <1>1, <1>2, <1>7, <2>1, <2>2, <2>3 DEF SessionInv, LinkInv
<1>11. CASE Leaves(c)
  <2> USE <1>11 DEF Leaves
  <2>1. lock = c
    BY <1>6 DEF LockInv
  <2>2. LockInv'
    BY <1>1, <1>3, <1>6, <2>1, CallsAssumption DEF LockInv
  <2>3. UserFlagInv'
    BY <1>8, <2>1 DEF SessionInv, UserFlagInv
  <2>4. Owner' = NoCall /\ Owner = NoCall
    BY <2>1 DEF Owner
  <2> QED
    BY <1>1, <1>2, <1>7, <2>2, <2>3, <2>4 DEF SessionInv, LinkInv
<1>12. CASE ClosesFirst(c)
  <2> USE <1>12 DEF ClosesFirst
  <2>1. lock = c
    BY <1>6 DEF LockInv
  <2>2. LockInv'
    BY <1>1, <1>6, <2>1 DEF LockInv
  <2>3. UserFlagInv'
    BY <1>8, <2>1 DEF SessionInv, UserFlagInv
  <2>4. Owner = NoCall
    BY <2>1 DEF Owner
  <2>5. CASE pc'[c] = "code" /\ Write(c, "END")
    <3>1. OneCallPerSession(toPanel', Standing, Owner')
      BY <1>4, <1>5, <1>7, <2>5, AppendEnd DEF Write
    <3> QED
      BY <1>1, <1>2, <2>2, <2>3, <2>5, <3>1 DEF SessionInv, LinkInv, Write
  <2>6. CASE pc'[c] = "logout" /\ UNCHANGED toPanel
    <3>1. Owner' = c
      BY <1>3, <2>1, <2>6 DEF Owner
    <3>2. OneCallPerSession(toPanel', Standing', Owner')
      BY <1>2, <1>4, <1>7, <2>4, <2>6, <3>1, Adopt
    <3> QED
      BY <1>1, <1>2, <2>2, <2>3, <2>6, <3>2 DEF SessionInv, LinkInv
  <2> QED
    BY <2>5, <2>6
<1>13. CASE Works(c)
  <2> USE <1>13 DEF Works
  <2>1. lock = c
    BY <1>6 DEF LockInv
  <2>2. LockInv'
    BY <1>1, <1>6, <2>1 DEF LockInv
  <2>3. UserFlagInv'
    BY <2>1 DEF SessionInv, UserFlagInv
  <2>4. Owner \in {c, NoCall} /\ Owner' = c
    BY <1>3, <2>1 DEF Owner
  <2>5. CASE UNCHANGED toPanel
    <3>1. OneCallPerSession(toPanel', Standing', Owner')
      BY <1>2, <1>4, <1>7, <2>4, <2>5, Adopt
    <3> QED
      BY <1>1, <1>2, <2>2, <2>3, <2>5, <3>1 DEF SessionInv, LinkInv
  <2>6. ASSUME NEW type \in {"CODE", "MODIFY", "EXPORT", "QUERY"}, Write(c, type)
        PROVE  SessionInv'
    <3>1. OneCallPerSession(toPanel', Standing, Owner')
      BY <1>4, <1>5, <1>7, <2>4, <2>6, AppendOwn DEF Write
    <3> QED
      BY <1>1, <1>2, <2>2, <2>3, <2>6, <3>1 DEF SessionInv, LinkInv, Write
  <2> QED
    BY <2>5, <2>6
<1>14. CASE ClosesLast(c)
  <2> USE <1>14 DEF ClosesLast
  <2>1. lock = c
    BY <1>6 DEF LockInv
  <2>2. LockInv'
    BY <1>1, <1>6, <2>1 DEF LockInv
  <2>3. UserFlagInv'
    BY <2>1 DEF SessionInv, UserFlagInv
  <2>4. CASE Write(c, "END")
    <3>1. OneCallPerSession(toPanel', Standing, Owner')
      BY <1>4, <1>5, <1>7, <2>4, AppendEnd DEF Write
    <3> QED
      BY <1>1, <1>2, <2>2, <2>3, <2>4, <3>1 DEF SessionInv, LinkInv, Write
  <2>5. CASE WriteFails
    <3>1. toPanel' = <<>> /\ Standing' = NoCall
      BY <1>2, <2>5 DEF WriteFails, SessionInv, LinkInv
    <3> QED
      BY <1>1, <2>2, <2>3, <3>1, EmptyQueue DEF SessionInv, LinkInv
  <2> QED
    BY <2>4, <2>5
<1> QED
  BY <1>1, <1>9, <1>10, <1>11, <1>12, <1>13, <1>14

\* The panel takes packets off the head only, and opens or closes its session
\* by what it takes.
LEMMA PanelSessionInv ==
  ASSUME TypeOK, SessionInv, PanelStep
  PROVE  SessionInv'
<1>1. /\ toPanel \in Seq(Requests) /\ toPanel # <<>> /\ toPanel' = Tail(toPanel)
      /\ UNCHANGED <<callVars, lock, flagVars, link>>
  BY DEF PanelStep, PanelEnd, PanelCode, PanelModify, PanelExport, PanelQuery,
         PanelCommand, PanelTakes, TypeOK, WireTypes
<1>2. LockInv' /\ UserFlagInv' /\ Owner' = Owner /\ link = "up"
  BY <1>1 DEF SessionInv, LockInv, UserFlagInv, LinkInv, Owner
<1>3. OneCallPerSession(toPanel, Standing, Owner)
  BY DEF SessionInv
<1>4. OneCallPerSession(toPanel', Standing', Owner)
  <2>1. CASE PanelEnd
    <3>1. Standing' = NoCall
      BY <2>1 DEF PanelEnd, Standing
    <3> QED
      BY <1>1, <1>3, <3>1, TailEnd
  <2>2. CASE PanelCode
    <3>1. Head(toPanel).type # "END" /\ Standing' \in {Standing, Head(toPanel).of}
      BY <2>2 DEF PanelCode, PanelTakes, Standing
    <3> QED
      BY <1>1, <1>3, <3>1, TailOther
  <2>3. CASE PanelModify \/ PanelExport \/ PanelQuery
    <3>1. Head(toPanel).type # "END" /\ Standing' = Standing
      BY <2>3 DEF PanelModify, PanelExport, PanelQuery, PanelCommand, PanelTakes, Standing
    <3> QED
      BY <1>1, <1>3, <3>1, TailOther
  <2> QED
    BY <2>1, <2>2, <2>3 DEF PanelStep
<1> QED
  BY <1>1, <1>2, <1>4 DEF SessionInv, LinkInv

\* The loop, the reader and a breaking link leave lock and flag alone; a break
\* empties the wire.
LEMMA OtherSessionInv ==
  ASSUME TypeOK, TypeOK', SessionInv, LoopStep \/ ReaderStep \/ LinkBreak \/ UNCHANGED vars
  PROVE  SessionInv'
<1>1. ASSUME NEW c \in Calls, pc[c] \notin Locked, pc'[c] \notin Locked,
             pc' = [pc EXCEPT ![c] = pc'[c]],
             UNCHANGED <<lock, userInitiated, link, toPanel, session, stale>>
      PROVE  SessionInv'
  <2>1. LockInv'
    BY <1>1 DEF SessionInv, LockInv, TypeOK, CallTypes
  <2>2. lock # c
    BY <1>1 DEF SessionInv, LockInv
  <2>3. Owner' = Owner /\ UserFlagInv'
    BY <1>1, <2>2 DEF SessionInv, UserFlagInv, Owner, TypeOK, CallTypes
  <2> QED
    BY <1>1, <2>1, <2>3 DEF SessionInv, LinkInv, Standing
<1>2. ASSUME NEW c \in Calls, Start(c) PROVE SessionInv'
  BY <1>1, <1>2 DEF Start, Goto, Locked, TypeOK, CallTypes
<1>3. CASE Resume
  <2>1. Head(posted).of \in Calls
    <3>1. Head(posted) \in Posts
      BY <1>3 DEF Resume, TypeOK, WireTypes
    <3> QED
      BY <3>1 DEF Posts
  <2> QED
    BY <1>1, <1>3, <2>1 DEF Resume, Goto, Locked, TypeOK, CallTypes
<1>4. CASE HandleWrongCode \/ ReadAnswer \/ MarkAuthError \/ SignalAnswer \/ UNCHANGED vars
  BY <1>4 DEF HandleWrongCode, ReadAnswer, MarkAuthError, SignalAnswer, vars,
              SessionInv, LockInv, UserFlagInv, LinkInv, Owner, Standing
<1>5. CASE NoticeBreak \/ Reopen
  BY <1>5 DEF NoticeBreak, Reopen,
              SessionInv, LockInv, UserFlagInv, LinkInv, Owner, Standing
<1>6. CASE LinkBreak
  <2>1. toPanel' = <<>> /\ Standing' = NoCall
    BY <1>6 DEF LinkBreak, Standing
  <2>2. LockInv' /\ UserFlagInv'
    BY <1>6 DEF LinkBreak, SessionInv, LockInv, UserFlagInv
  <2> QED
    BY <2>1, <2>2, EmptyQueue DEF SessionInv, LinkInv
<1> QED
  BY <1>2, <1>3, <1>4, <1>5, <1>6 DEF LoopStep, ReaderStep

\* SessionInv is inductive, given the types.
LEMMA StepSessionInv == TypeOK /\ TypeOK' /\ SessionInv /\ [Next]_vars => SessionInv'
<1> SUFFICES ASSUME TypeOK, TypeOK', SessionInv, [Next]_vars PROVE SessionInv'
  OBVIOUS
<1>1. Idle => UNCHANGED vars
  BY DEF Idle
<1> QED
  BY <1>1, CallSessionInv, PanelSessionInv, OtherSessionInv DEF Next

\* In every reachable state lock, user flag and link agree with where the calls
\* are, and between two AUTH_ENDs all packets on the wire are of one call.
THEOREM SessionInvariant == Spec => [](TypeOK /\ SessionInv)
<1>1. Init => TypeOK /\ SessionInv
  BY InitTypeOK, InitSessionInv
<1>2. TypeOK /\ SessionInv /\ [Next]_vars => (TypeOK /\ SessionInv)'
  BY StepTypeOK, StepSessionInv
<1> QED
  BY <1>1, <1>2, PTL DEF Spec

-----------------------------------------------------------------------------
(***************************************************************************)
(* What follows from it.                                                   *)
(***************************************************************************)
\* The user flag is never up without a user's call in possession of the lock.
THEOREM UserFlagCorrect == Spec => []UserFlagMeansUserHoldsLock
<1>1. SessionInv => UserFlagMeansUserHoldsLock
  BY DEF SessionInv, UserFlagInv, UserFlagMeansUserHoldsLock
<1> QED
  BY <1>1, SessionInvariant, PTL

\* A free lock means a panel that is logged out or about to be.
THEOREM LogoutCorrect == Spec => []LoggedOutWhenFree
<1>1. TypeOK /\ SessionInv => LoggedOutWhenFree
  <2> SUFFICES ASSUME TypeOK, SessionInv, lock = NoCall, session # NoCall, ~stale
               PROVE  \E i \in DOMAIN toPanel : toPanel[i].type = "END"
    BY DEF LoggedOutWhenFree
  <2>1. Standing = session /\ Owner = NoCall
    BY DEF Standing, Owner
  <2>2. ~NoEnd(toPanel, 1..Len(toPanel))
    BY <2>1 DEF SessionInv, OneCallPerSession
  <2>3. DOMAIN toPanel = 1..Len(toPanel)
    BY DEF TypeOK, WireTypes
  <2> QED
    BY <2>2, <2>3 DEF NoEnd
<1> QED
  BY <1>1, SessionInvariant, PTL

\* The command at the head of the queue was sent by the call the panel is
\* logged in for.
LEMMA CommandIsOwn ==
  ASSUME TypeOK, SessionInv, toPanel # <<>>, Head(toPanel).type # "END",
         session # NoCall, ~stale
  PROVE  Head(toPanel).of = session
<1>1. toPanel \in Seq(Requests) /\ Head(toPanel) = toPanel[1] /\ 1 \in 1..Len(toPanel)
  BY DEF TypeOK, WireTypes
<1>2. NoEnd(toPanel, 1..1)
  BY <1>1 DEF NoEnd
<1>3. Standing = session
  BY DEF Standing
<1>4. NoEnd(toPanel, 1..1) /\ Standing # NoCall => toPanel[1].of = Standing
  BY <1>1 DEF SessionInv, OneCallPerSession
<1> QED
  BY <1>1, <1>2, <1>3, <1>4

\* Commands are carried out in the session of their own call.
THEOREM ExecutionCorrect == Spec => NoForeignExecution
<1> DEFINE Own == \A c \in Calls : applied'[c] # applied[c] => session = c \/ stale
<1>1. ASSUME TypeOK, SessionInv, Next PROVE Own
  <2>1. ASSUME NEW type, NEW answers, type # "END", PanelCommand(type, answers)
        PROVE  Own
    <3>1. toPanel # <<>> /\ Head(toPanel).type # "END"
      BY <2>1 DEF PanelCommand, PanelTakes
    <3>2. CASE session # NoCall /\ ~stale
      <4>1. Head(toPanel).of = session
        BY <1>1, <3>1, <3>2, CommandIsOwn
      <4>2. applied' = [applied EXCEPT ![Head(toPanel).of] = @ + 1]
        BY <2>1, <3>2 DEF PanelCommand
      <4>3. applied \in [Calls -> Nat]
        BY <1>1 DEF TypeOK, WireTypes
      <4>4. ASSUME NEW c \in Calls, applied'[c] # applied[c] PROVE session = c
        BY <4>1, <4>2, <4>3, <4>4
      <4> QED
        BY <4>4
    <3>3. CASE session = NoCall
      BY <2>1, <3>3 DEF PanelCommand
    <3>4. CASE stale
      BY <3>4
    <3> QED
      BY <3>2, <3>3, <3>4
  <2>2. CASE PanelModify \/ PanelExport \/ PanelQuery
    BY <2>1, <2>2 DEF PanelModify, PanelExport, PanelQuery
  <2>3. ASSUME NEW c \in Calls, CallStep(c) PROVE Own
    BY <1>1, <2>3, CallShapes
  <2>4. CASE LoopStep
    BY <2>4 DEF LoopStep, Start, HandleWrongCode, Resume
  <2>5. CASE ReaderStep
    BY <2>5 DEF ReaderStep, ReadAnswer, MarkAuthError, SignalAnswer, NoticeBreak, Reopen
  <2>6. CASE LinkBreak \/ Idle \/ PanelEnd \/ PanelCode
    BY <2>6 DEF LinkBreak, Idle, vars, PanelEnd, PanelCode
  <2> QED
    BY <1>1, <2>2, <2>3, <2>4, <2>5, <2>6 DEF Next, PanelStep
<1>2. TypeOK /\ SessionInv /\ [Next]_vars => [Own]_vars
  BY <1>1
<1> QED
  BY <1>2, SessionInvariant, PTL DEF Spec, NoForeignExecution

-----------------------------------------------------------------------------
(***************************************************************************)
(* The threads, events, lock and queues implement the command service: for *)
(* any calls, devices and link breaks, as long as no timeout expires while *)
(* an answer is on its way (Prompt).  The argument is that of the turn: a  *)
(* request is written only while nothing else is under way, so whatever    *)
(* the panel and the reader have in hand is the answer the holder of the   *)
(* session lock is waiting for.                                            *)
(***************************************************************************)

(***************************************************************************)
(* The turns of the holder of the session lock.                            *)
(***************************************************************************)
\* Only AUTH_ENDs, which nobody waits for.
Ends(q) == \A i \in 1..Len(q) : q[i].type = "END"

\* Nothing that asks for an answer is written, and no answer is on its way.
Calm == Ends(toPanel) /\ fromPanel = <<>> /\ reader = "idle"

\* The last packet written is c's request, not yet handled.
Asked(c, type) ==
  /\ toPanel # <<>> /\ fromPanel = <<>> /\ reader = "idle"
  /\ toPanel[Len(toPanel)].type = type /\ toPanel[Len(toPanel)].of = c
  /\ \A i \in 1..(Len(toPanel) - 1) : toPanel[i].type = "END"

\* The reader has r in hand and will find answers of these types.
Coming(r, types) ==
  /\ Ends(toPanel)
  /\ reader = r
  /\ Len(fromPanel) = Len(types)
  /\ \A i \in 1..Len(types) : fromPanel[i].type = types[i]

\* From the AUTH_CODE to its answer; WRONG means that the panel refused it.
LoginTurn(c) ==
  \/ Calm
  \/ Asked(c, "CODE") /\ c \notin accepted
  \/ Coming("idle", <<"LOGIN">>) \/ Coming("LOGIN", <<>>)
  \/ c \in refused /\ \/ Coming("idle", <<"WRONG">>)
                      \/ Coming("WRONG", <<>>) \/ Coming("MARKED", <<>>)

\* The end of an export is outstanding, or nothing is.
DoneTurn(c) ==
  \/ Calm
  \/ op[c] = "export" /\ (Coming("idle", <<"DONE">>) \/ Coming("DONE", <<>>))

\* From MODIFY_SECTION or EXPORT_CONFIG to the acknowledgement; only a command
\* that was carried out is acknowledged.
AckTurn(c) ==
  \/ Asked(c, IF op[c] = "modify" THEN "MODIFY" ELSE "EXPORT") /\ applied[c] = 0
  \/ /\ applied[c] = 1
     /\ \/ Coming("ACK", <<>>)
        \/ op[c] = "modify" /\ Coming("idle", <<"ACK">>)
        \/ op[c] = "export" /\ (Coming("idle", <<"ACK", "DONE">>) \/ Coming("ACK", <<"DONE">>))
  \/ DoneTurn(c)

\* A query is outstanding, the device not yet counted.
QueryTurn(c) ==
  \/ Calm
  \/ Asked(c, "QUERY") /\ applied[c] + left[c] < Devices

\* Where the holder has read the last answer and asked for nothing since.
Still == {"end", "code", "verdict", "command", "reading", "query", "logout", "release"}

\* Each program point and its turn.  An event seen up at a wait is the one the
\* call waits for: the answer has been read, and the flags are the answer's.
Turn(c) ==
  /\ pc[c] \in Still => Calm
  /\ pc[c] \in {"clear", "reset", "login"} => LoginTurn(c)
  /\ pc[c] \in {"reset", "login"} /\ loginEvent => Calm
  /\ pc[c] \in {"login", "verdict"} /\ authError => c \in refused
  /\ pc[c] \in {"ackClear", "ack"} => AckTurn(c)
  /\ pc[c] = "ack" /\ ackEvent => DoneTurn(c) /\ applied[c] = 1
  /\ pc[c] \in {"doneClear", "done"} => DoneTurn(c)
  /\ pc[c] = "done" /\ doneEvent => Calm
  /\ pc[c] = "queried" => QueryTurn(c)

\* Where a call has not taken the lock, and where it has sent no command.
Waiting == {"new", "check", "acquire"}
Unasked == Waiting \cup {"end", "code", "clear", "reset", "login", "verdict", "command"}

\* What the panel has done for c so far, by how far c has come.
Past(c) ==
  /\ pc[c] \in Waiting \cup {"end", "code"} => c \notin accepted
  /\ pc[c] \in Unasked /\ op[c] # "probe" => applied[c] = 0
  /\ pc[c] \in {"command", "ackClear", "ack"} => op[c] # "probe"
  /\ pc[c] \in {"doneClear", "done", "reading"} => op[c] = "export" /\ applied[c] = 1
  /\ pc[c] \in {"query", "queried"} => op[c] = "probe"
  /\ op[c] = "probe" => applied[c] + left[c] <= Devices
  /\ outcome[c] = "ok" /\ op[c] # "probe" => applied[c] = 1
  /\ outcome[c] = "auth" /\ c \in UserCalls => c \in refused

\* All of it, and that a session is that of an accepted code.
TurnInv ==
  /\ lock = NoCall => Calm
  /\ \A c \in Calls : Turn(c) /\ Past(c)
  /\ session # NoCall => session \in accepted
  /\ stale => session # NoCall

-----------------------------------------------------------------------------
(***************************************************************************)
(* The steps of the calls.                                                 *)
(***************************************************************************)
\* A new client has asked for nothing.
LEMMA InitTurnInv == Init => TurnInv
<1> SUFFICES ASSUME Init PROVE TurnInv
  OBVIOUS
<1>1. Calm
  BY DEF Init, Calm, Ends
<1>2. ASSUME NEW c \in Calls PROVE Turn(c) /\ Past(c)
  BY BoundsAssumption DEF Init, Turn, Past, Still, Waiting, Unasked
<1> QED
  BY <1>1, <1>2 DEF Init, TurnInv

\* The turns speak of the wire, the reader and the history only.
LEMMA TurnsFrame ==
  ASSUME UNCHANGED <<op, wireVars, reader, accepted, refused, applied>>,
         NEW c \in Calls, left'[c] = left[c]
  PROVE  /\ Calm' = Calm
         /\ LoginTurn(c)' = LoginTurn(c) /\ AckTurn(c)' = AckTurn(c)
         /\ DoneTurn(c)' = DoneTurn(c) /\ QueryTurn(c)' = QueryTurn(c)
<1>1. Calm' = Calm
  BY DEF Calm, Ends
<1>2. \A t : Asked(c, t)' = Asked(c, t)
  BY DEF Asked
<1>3. \A r, ts : Coming(r, ts)' = Coming(r, ts)
  BY DEF Coming, Ends
<1>4. LoginTurn(c)' = LoginTurn(c) /\ DoneTurn(c)' = DoneTurn(c)
  BY <1>1, <1>2, <1>3 DEF LoginTurn, DoneTurn
<1>5. AckTurn(c)' = AckTurn(c)
  BY <1>2, <1>3, <1>4 DEF AckTurn
<1>6. QueryTurn(c)' = QueryTurn(c)
  BY <1>1, <1>2 DEF QueryTurn
<1> QED
  BY <1>1, <1>4, <1>5, <1>6

\* A packet written while all is calm is the one request under way, unless it
\* is an AUTH_END.
LEMMA WriteTurns ==
  ASSUME TypeOK, Calm, NEW c \in Calls,
         NEW type \in {"END", "CODE", "MODIFY", "EXPORT", "QUERY"},
         Write(c, type), UNCHANGED <<fromPanel, reader>>
  PROVE  /\ type = "END" => Calm'
         /\ Asked(c, type)'
<1> DEFINE m == [type |-> type, of |-> c]
<1>1. toPanel \in Seq(Requests) /\ m \in Requests /\ toPanel' = Append(toPanel, m)
  BY DEF TypeOK, WireTypes, Requests, Write
<1>2. m.type = type /\ m.of = c
  OBVIOUS
<1> HIDE DEF m
<1>3. /\ Len(toPanel') = Len(toPanel) + 1 /\ Len(toPanel) \in Nat /\ toPanel' # <<>>
      /\ toPanel'[Len(toPanel')] = m
      /\ \A i \in 1..Len(toPanel) : toPanel'[i] = toPanel[i]
  BY <1>1
<1>4. type = "END" => Calm'
  BY <1>2, <1>3 DEF Calm, Ends
<1>5. Asked(c, type)'
  BY <1>2, <1>3 DEF Calm, Ends, Asked
<1> QED
  BY <1>4, <1>5

\* What no step of a call changes, and what steps outside the lock leave alone.
LEMMA CallFrame ==
  ASSUME TypeOK, NEW c \in Calls, CallStep(c)
  PROVE  /\ UNCHANGED <<op, pin, fromPanel, reader, link, panelVars>>
         /\ \A d \in Calls \ {c} :
              pc'[d] = pc[d] /\ left'[d] = left[d] /\ outcome'[d] = outcome[d]
         /\ \/ pc[c] \in Locked
            \/ UNCHANGED <<left, toPanel, eventVars>> /\ (lock' = lock \/ lock = NoCall)
<1> USE DEF TypeOK, CallTypes, Goto, EndWith, Locked
<1>1. CASE CheckFails(c)
  BY <1>1 DEF CheckFails
<1>2. CASE CheckPasses(c)
  BY <1>2 DEF CheckPasses
<1>3. CASE Acquire(c)
  BY <1>3 DEF Acquire
<1>4. CASE SendEnd(c)
  BY <1>4 DEF SendEnd, WriteStep
<1>5. CASE RejectCode(c)
  BY <1>5 DEF RejectCode
<1>6. CASE SendCode(c)
  BY <1>6 DEF SendCode, WriteStep
<1>7. CASE ClearLogin(c)
  BY <1>7 DEF ClearLogin
<1>8. CASE ResetAuthError(c)
  BY <1>8 DEF ResetAuthError
<1>9. CASE AwaitLogin(c)
  BY <1>9 DEF AwaitLogin, WaitTimesOut
<1>10. CASE ReadVerdict(c)
  BY <1>10 DEF ReadVerdict
<1>11. CASE SendCommand(c)
  BY <1>11 DEF SendCommand, WriteStep
<1>12. CASE ClearAck(c)
  BY <1>12 DEF ClearAck
<1>13. CASE AwaitAck(c)
  BY <1>13 DEF AwaitAck, WaitTimesOut
<1>14. CASE ClearDone(c)
  BY <1>14 DEF ClearDone
<1>15. CASE AwaitDone(c)
  BY <1>15 DEF AwaitDone, WaitTimesOut
<1>16. CASE ReadConfig(c)
  BY <1>16 DEF ReadConfig
<1>17. CASE QueryDevice(c)
  BY <1>17 DEF QueryDevice, WriteStep
<1>18. CASE AwaitDevice(c)
  BY <1>18 DEF AwaitDevice
<1>19. CASE FinishProbe(c)
  BY <1>19 DEF FinishProbe
<1>20. CASE Logout(c)
  BY <1>20 DEF Logout
<1>21. CASE Release(c)
  BY <1>21 DEF Release
<1> QED
  BY <1>1, <1>2, <1>3, <1>4, <1>5, <1>6, <1>7, <1>8, <1>9, <1>10, <1>11, <1>12, <1>13, <1>14, <1>15, <1>16, <1>17, <1>18, <1>19, <1>20, <1>21 DEF CallStep

\* A step of a call leaves the other calls where they were in their turns.
LEMMA OthersTurn ==
  ASSUME TypeOK, SessionInv, TurnInv, NEW c \in Calls, CallStep(c), NEW d \in Calls \ {c}
  PROVE  Turn(d)' /\ Past(d)'
<1>1. /\ UNCHANGED <<op, pin, fromPanel, reader, link, panelVars>>
      /\ pc'[d] = pc[d] /\ left'[d] = left[d] /\ outcome'[d] = outcome[d]
      /\ \/ pc[c] \in Locked
         \/ UNCHANGED <<left, toPanel, eventVars>> /\ (lock' = lock \/ lock = NoCall)
  BY CallFrame
<1>2. Turn(d) /\ Past(d)
  BY DEF TurnInv
<1>3. Past(d)'
  BY <1>1, <1>2 DEF Past
<1>4. CASE pc[d] \notin Locked
  BY <1>1, <1>3, <1>4 DEF Turn, Still, Locked
<1>5. CASE pc[d] \in Locked
  <2>1. pc[c] \notin Locked
    BY <1>5 DEF SessionInv, LockInv
  <2>2. UNCHANGED <<toPanel, eventVars>>
    BY <1>1, <2>1
  <2> QED
    BY <1>1, <1>2, <1>3, <2>2, TurnsFrame DEF Turn
<1> QED
  BY <1>3, <1>4, <1>5

\* A step of a call takes the call itself to its next turn.
LEMMA OwnTurn ==
  ASSUME Prompt, TypeOK, SessionInv, TurnInv, NEW c \in Calls, CallStep(c)
  PROVE  Turn(c)' /\ Past(c)' /\ (lock' = NoCall => Calm')
<1>1. UNCHANGED <<op, pin, fromPanel, reader, link, panelVars>>
  BY CallFrame
<1>2. pc \in [Calls -> Points] /\ outcome \in [Calls -> Outcomes]
  BY DEF TypeOK, CallTypes
<1>3. Turn(c) /\ Past(c) /\ (lock = NoCall => Calm)
  BY DEF TurnInv
<1>4. c # NoCall /\ (pc[c] \in Locked <=> lock = c)
  BY CallsAssumption DEF SessionInv, LockInv
<1>5. UNCHANGED <<toPanel, left>> =>
        /\ Calm' = Calm
        /\ LoginTurn(c)' = LoginTurn(c) /\ AckTurn(c)' = AckTurn(c)
        /\ DoneTurn(c)' = DoneTurn(c) /\ QueryTurn(c)' = QueryTurn(c)
  BY <1>1, TurnsFrame
<1>6. UNCHANGED toPanel => Calm' = Calm
  BY <1>1 DEF Calm, Ends
<1>7. Quiet => Calm
  BY DEF Quiet, Calm, Ends
<1>8. ASSUME Calm, NEW type \in {"END", "CODE", "MODIFY", "EXPORT", "QUERY"}, Write(c, type)
      PROVE  (type = "END" => Calm') /\ Asked(c, type)'
  BY <1>1, <1>8, WriteTurns
<1> USE <1>1, <1>2, <1>3, <1>4 DEF Goto, EndWith, Turn, Past, Still, Waiting, Unasked, Locked
<1>11. CASE CheckFails(c)
  BY <1>5, <1>6, <1>7, <1>11, CallsAssumption DEF CheckFails
<1>12. CASE CheckPasses(c)
  BY <1>5, <1>6, <1>7, <1>12 DEF CheckPasses
<1>13. CASE Acquire(c)
  BY <1>5, <1>6, <1>7, <1>13 DEF Acquire
<1>14. CASE SendEnd(c)
  <2>1. Calm'
    BY <1>6, <1>8, <1>14 DEF SendEnd, WriteStep, WriteFails
  <2> QED
    BY <1>14, <2>1 DEF SendEnd, WriteStep
<1>15. CASE RejectCode(c)
  BY <1>5, <1>6, <1>7, <1>15 DEF RejectCode
<1>16. CASE SendCode(c)
  <2>1. CASE pc'[c] = "clear" /\ Write(c, "CODE")
    <3>1. Calm /\ c \notin accepted'
      BY <1>16 DEF SendCode, WriteStep
    <3>2. Asked(c, "CODE")'
      BY <1>8, <2>1, <3>1
    <3>3. LoginTurn(c)'
      BY <3>1, <3>2 DEF LoginTurn
    <3> QED
      BY <1>16, <2>1, <3>3 DEF SendCode, WriteStep
  <2>2. CASE WriteFails
    BY <1>6, <1>16, <2>2 DEF SendCode, WriteStep, Write, WriteFails
  <2> QED
    BY <1>16, <2>1, <2>2 DEF SendCode, WriteStep
<1>17. CASE ClearLogin(c)
  BY <1>5, <1>6, <1>7, <1>17 DEF ClearLogin
<1>18. CASE ResetAuthError(c)
  BY <1>5, <1>6, <1>7, <1>18 DEF ResetAuthError
<1>19. CASE AwaitLogin(c)
  BY <1>5, <1>6, <1>7, <1>19 DEF AwaitLogin, WaitTimesOut
<1>20. CASE ReadVerdict(c)
  BY <1>5, <1>6, <1>7, <1>20 DEF ReadVerdict
<1>21. CASE SendCommand(c)
  <2>1. CASE pc'[c] = "ackClear" /\ ~WriteFails
    <3>1. AckTurn(c)'
      BY <1>8, <1>21, <2>1 DEF SendCommand, WriteStep, AckTurn
    <3> QED
      BY <1>21, <2>1, <3>1 DEF SendCommand, WriteStep
  <2>2. CASE WriteFails
    BY <1>6, <1>21, <2>2 DEF SendCommand, WriteStep, Write, WriteFails
  <2> QED
    BY <1>21, <2>1, <2>2 DEF SendCommand, WriteStep
<1>22. CASE ClearAck(c)
  BY <1>5, <1>6, <1>7, <1>22 DEF ClearAck
<1>23. CASE AwaitAck(c)
  <2>1. CASE ackEvent /\ op[c] = "modify"
    <3>1. Calm
      BY <1>23, <2>1 DEF AwaitAck, WaitTimesOut, DoneTurn
    <3> QED
      BY <1>5, <1>23, <2>1, <3>1 DEF AwaitAck, WaitTimesOut
  <2>2. CASE ~(ackEvent /\ op[c] = "modify")
    BY <1>5, <1>7, <1>23, <2>2 DEF AwaitAck, WaitTimesOut
  <2> QED
    BY <2>1, <2>2
<1>24. CASE ClearDone(c)
  BY <1>5, <1>6, <1>7, <1>24 DEF ClearDone
<1>25. CASE AwaitDone(c)
  BY <1>5, <1>6, <1>7, <1>25 DEF AwaitDone, WaitTimesOut
<1>26. CASE ReadConfig(c)
  BY <1>5, <1>6, <1>7, <1>26 DEF ReadConfig
<1>27. CASE QueryDevice(c)
  <2>1. left[c] \in Nat /\ left'[c] = left[c] - 1 /\ applied[c] \in Nat /\ Devices \in Nat
    BY <1>27, BoundsAssumption DEF QueryDevice, TypeOK, CallTypes, WireTypes
  <2>2. Calm /\ applied[c] + left[c] <= Devices
    BY <1>27 DEF QueryDevice, WriteStep
  <2>3. CASE pc'[c] = "queried" /\ Write(c, "QUERY")
    <3>1. QueryTurn(c)'
      BY <1>8, <1>27, <2>1, <2>2, <2>3 DEF QueryTurn
    <3> QED
      BY <1>27, <2>1, <2>2, <2>3, <3>1 DEF QueryDevice, WriteStep
  <2>4. CASE WriteFails
    <3>1. Calm'
      BY <1>6, <2>2, <2>4 DEF WriteFails
    <3> QED
      BY <1>27, <2>1, <2>2, <2>4, <3>1 DEF QueryDevice, WriteStep, Write, WriteFails
  <2> QED
    BY <1>27, <2>3, <2>4 DEF QueryDevice, WriteStep
<1>28. CASE AwaitDevice(c)
  BY <1>5, <1>6, <1>7, <1>28 DEF AwaitDevice
<1>29. CASE FinishProbe(c)
  BY <1>5, <1>6, <1>7, <1>29 DEF FinishProbe
<1>30. CASE Logout(c)
  <2>1. Calm'
    BY <1>6, <1>8, <1>30 DEF Logout, WriteFails
  <2> QED
    BY <1>30, <2>1 DEF Logout
<1>31. CASE Release(c)
  BY <1>5, <1>6, <1>7, <1>31 DEF Release
<1> QED
  BY <1>11, <1>12, <1>13, <1>14, <1>15, <1>16, <1>17, <1>18, <1>19, <1>20, <1>21, <1>22, <1>23, <1>24, <1>25, <1>26, <1>27, <1>28, <1>29, <1>30, <1>31 DEF CallStep

\* Turns survive a step that keeps the calls, the events and the history and
\* takes each turn to one of the same kind.
LEMMA TurnKept ==
  ASSUME UNCHANGED <<pc, op, left, outcome, accepted, refused, applied, eventVars>>,
         NEW c \in Calls, Turn(c) /\ Past(c),
         Calm => Calm', LoginTurn(c) => LoginTurn(c)', AckTurn(c) => AckTurn(c)',
         DoneTurn(c) => DoneTurn(c)', QueryTurn(c) => QueryTurn(c)'
  PROVE  Turn(c)' /\ Past(c)'
<1>1. Past(c)'
  BY DEF Past
<1>2. Turn(c)'
  BY DEF Turn
<1> QED
  BY <1>1, <1>2

-----------------------------------------------------------------------------
(***************************************************************************)
(* The steps of the panel, the reader, the loop and the link.              *)
(***************************************************************************)
\* The panel takes the head of the queue: an AUTH_END before the request, or
\* the request itself, which is then the only packet.
LEMMA TakeHead ==
  ASSUME TypeOK, toPanel # <<>>, toPanel' = Tail(toPanel)
  PROVE  /\ Ends(toPanel) => Head(toPanel).type = "END" /\ Ends(toPanel')
         /\ \A c, t : Asked(c, t) /\ t # "END" =>
              IF Head(toPanel).type = "END"
              THEN UNCHANGED <<fromPanel, reader>> => Asked(c, t)'
              ELSE Head(toPanel).type = t /\ Head(toPanel).of = c /\ toPanel' = <<>>
<1>1. /\ toPanel \in Seq(Requests) /\ Len(toPanel) \in Nat /\ Len(toPanel) > 0
      /\ Head(toPanel) = toPanel[1] /\ Len(toPanel') = Len(toPanel) - 1
      /\ \A i \in 1..Len(toPanel') : toPanel'[i] = toPanel[i + 1]
      /\ toPanel' \in Seq(Requests)
  BY DEF TypeOK, WireTypes
<1>2. Ends(toPanel) => Head(toPanel).type = "END" /\ Ends(toPanel')
  BY <1>1 DEF Ends
<1>3. ASSUME NEW c, NEW t, Asked(c, t), t # "END"
      PROVE  IF Head(toPanel).type = "END"
             THEN UNCHANGED <<fromPanel, reader>> => Asked(c, t)'
             ELSE Head(toPanel).type = t /\ Head(toPanel).of = c /\ toPanel' = <<>>
  <2>1. CASE Head(toPanel).type = "END"
    <3>1. Len(toPanel) # 1
      BY <1>1, <1>3, <2>1 DEF Asked
    <3>2. Len(toPanel') \in 1..Len(toPanel') /\ Len(toPanel') + 1 = Len(toPanel)
      BY <1>1, <3>1
    <3>4. toPanel' # <<>>
      <4>1. Len(toPanel') # 0
        BY <1>1, <3>2
      <4> QED
        BY <4>1
    <3>5. toPanel'[Len(toPanel')] = toPanel[Len(toPanel)]
      BY <1>1, <3>2
    <3>3. \A i \in 1..(Len(toPanel') - 1) : toPanel'[i].type = "END"
      BY <1>1, <1>3 DEF Asked
    <3> QED
      BY <1>3, <2>1, <3>3, <3>4, <3>5 DEF Asked
  <2>2. CASE Head(toPanel).type # "END"
    <3>1. Len(toPanel) = 1
      BY <1>1, <1>3, <2>2 DEF Asked
    <3>2. toPanel' = <<>>
      BY <1>1, <3>1
    <3> QED
      BY <1>1, <1>3, <2>2, <3>1, <3>2 DEF Asked
  <2> QED
    BY <2>1, <2>2
<1> QED
  BY <1>2, <1>3

\* A request at the head of the queue is the holder's, at the point where it
\* awaits the answer, and nothing else is under way.
LEMMA Requester ==
  ASSUME TypeOK, SessionInv, TurnInv, toPanel # <<>>, toPanel' = Tail(toPanel),
         Head(toPanel).type # "END",
         NEW c, c = Head(toPanel).of
  PROVE  /\ c \in Calls /\ lock = c /\ toPanel' = <<>>
         /\ fromPanel = <<>> /\ reader = "idle"
         /\ \/ /\ Head(toPanel).type = "CODE"
               /\ pc[c] = "clear" \/ (pc[c] \in {"reset", "login"} /\ ~loginEvent)
               /\ c \notin accepted
            \/ /\ Head(toPanel).type = IF op[c] = "modify" THEN "MODIFY" ELSE "EXPORT"
               /\ pc[c] = "ackClear" \/ (pc[c] = "ack" /\ ~ackEvent)
               /\ applied[c] = 0
            \/ /\ Head(toPanel).type = "QUERY"
               /\ pc[c] = "queried"
               /\ applied[c] + left[c] < Devices
<1>1. /\ ~Ends(toPanel)
      /\ \A d, t : Asked(d, t) /\ t # "END" =>
           Head(toPanel).type = t /\ d = c /\ toPanel' = <<>>
  BY TakeHead
<1>2. ~Calm /\ (\A r, ts : ~Coming(r, ts)) /\ \A d \in Calls : ~DoneTurn(d)
  BY <1>1 DEF Calm, Coming, DoneTurn
<1>3. lock \in Calls /\ Turn(lock) /\ Past(lock) /\ pc[lock] \in Locked
  BY <1>2 DEF TypeOK, CallTypes, TurnInv, SessionInv, LockInv
<1>4. ASSUME NEW t, t # "END", Asked(lock, t)
      PROVE  /\ c = lock /\ Head(toPanel).type = t
             /\ toPanel' = <<>> /\ fromPanel = <<>> /\ reader = "idle"
  BY <1>1, <1>4 DEF Asked
<1>5. CASE pc[lock] \in {"clear", "reset", "login"}
  <2>1. Asked(lock, "CODE") /\ lock \notin accepted
    BY <1>2, <1>3, <1>5 DEF Turn, LoginTurn
  <2>2. /\ c = lock /\ Head(toPanel).type = "CODE"
        /\ toPanel' = <<>> /\ fromPanel = <<>> /\ reader = "idle"
    BY <1>4, <2>1
  <2>3. pc[lock] = "clear" \/ ~loginEvent
    BY <1>2, <1>3, <1>5 DEF Turn
  <2>4. c \in Calls /\ lock = c
    BY <1>3, <2>2
  <2>5. pc[c] = "clear" \/ (pc[c] \in {"reset", "login"} /\ ~loginEvent)
    BY <1>5, <2>3, <2>4
  <2> QED
    BY <2>1, <2>2, <2>4, <2>5
<1>6. CASE pc[lock] \in {"ackClear", "ack"}
  <2>1. Asked(lock, IF op[lock] = "modify" THEN "MODIFY" ELSE "EXPORT") /\ applied[lock] = 0
    BY <1>2, <1>3, <1>6 DEF Turn, AckTurn
  <2>2. /\ c = lock /\ Head(toPanel).type = IF op[lock] = "modify" THEN "MODIFY" ELSE "EXPORT"
        /\ toPanel' = <<>> /\ fromPanel = <<>> /\ reader = "idle"
    BY <1>4, <2>1
  <2>3. pc[lock] = "ackClear" \/ ~ackEvent
    BY <1>2, <1>3, <1>6 DEF Turn
  <2>4. c \in Calls /\ lock = c
    BY <1>3, <2>2
  <2>5. pc[c] = "ackClear" \/ (pc[c] = "ack" /\ ~ackEvent)
    BY <1>6, <2>3, <2>4
  <2> QED
    BY <2>1, <2>2, <2>4, <2>5
<1>7. CASE pc[lock] = "queried"
  <2>1. Asked(lock, "QUERY") /\ applied[lock] + left[lock] < Devices
    BY <1>2, <1>3, <1>7 DEF Turn, QueryTurn
  <2> QED
    BY <1>3, <1>4, <1>7, <2>1
<1> QED
  BY <1>2, <1>3, <1>5, <1>6, <1>7 DEF Turn, Still, Locked

\* The panel answers the request of the holder and leaves all other calls alone.
LEMMA PanelTurn ==
  ASSUME TypeOK, SessionInv, TurnInv, PanelStep
  PROVE  TurnInv'
<1> DEFINE h == Head(toPanel)
<1>1. /\ toPanel # <<>> /\ toPanel' = Tail(toPanel)
      /\ UNCHANGED <<pc, op, left, outcome, pin, lock, eventVars, reader>>
  BY DEF PanelStep, PanelEnd, PanelCode, PanelModify, PanelExport, PanelQuery,
         PanelCommand, PanelTakes
<1>2. h \in Requests
  BY <1>1 DEF TypeOK, WireTypes
<1>3. CASE PanelEnd
  <2>1. h.type = "END" /\ UNCHANGED <<fromPanel, accepted, refused, applied>>
    BY <1>3 DEF PanelEnd, PanelTakes
  <2>2. Ends(toPanel) => Ends(toPanel')
    BY <1>1, TakeHead
  <2>3. Calm => Calm'
    BY <1>1, <2>1, <2>2 DEF Calm
  <2>4. \A r, ts : Coming(r, ts) => Coming(r, ts)'
    BY <1>1, <2>1, <2>2 DEF Coming
  <2>5. \A c, t : Asked(c, t) /\ t # "END" => Asked(c, t)'
    BY <1>1, <2>1, TakeHead
  <2>6. ASSUME NEW c \in Calls PROVE Turn(c)' /\ Past(c)'
    <3>1. LoginTurn(c) => LoginTurn(c)'
      BY <2>1, <2>3, <2>4, <2>5 DEF LoginTurn
    <3>2. DoneTurn(c) => DoneTurn(c)'
      BY <1>1, <2>3, <2>4 DEF DoneTurn
    <3>3. AckTurn(c) => AckTurn(c)'
      BY <1>1, <2>1, <2>4, <2>5, <3>2 DEF AckTurn
    <3>4. QueryTurn(c) => QueryTurn(c)'
      BY <1>1, <2>1, <2>3, <2>5 DEF QueryTurn
    <3>5. Turn(c) /\ Past(c)
      BY DEF TurnInv
    <3> QED
      BY <1>1, <2>1, <2>3, <3>1, <3>2, <3>3, <3>4, <3>5, TurnKept
  <2> QED
    BY <1>1, <1>3, <2>3, <2>6 DEF TurnInv, PanelEnd
<1>4. CASE h.type # "END"
  <2>0. PICK c \in Calls : c = h.of
    BY <1>2 DEF Requests
  <2>1. /\ c \in Calls /\ lock = c /\ toPanel' = <<>>
        /\ fromPanel = <<>> /\ reader = "idle"
        /\ \/ /\ h.type = "CODE"
              /\ pc[c] = "clear" \/ (pc[c] \in {"reset", "login"} /\ ~loginEvent)
              /\ c \notin accepted
           \/ /\ h.type = IF op[c] = "modify" THEN "MODIFY" ELSE "EXPORT"
              /\ pc[c] = "ackClear" \/ (pc[c] = "ack" /\ ~ackEvent)
              /\ applied[c] = 0
           \/ /\ h.type = "QUERY"
              /\ pc[c] = "queried"
              /\ applied[c] + left[c] < Devices
    BY <1>1, <1>4, <2>0, Requester
  <2>2. lock # NoCall
    BY <2>1, CallsAssumption
  <2>3. Turn(c) /\ Past(c)
    BY <2>1 DEF TurnInv
  <2>4. ASSUME NEW d \in Calls \ {c},
               accepted' \in {accepted, accepted \cup {c}}, refused \subseteq refused',
               applied'[d] = applied[d]
        PROVE  Turn(d)' /\ Past(d)'
    <3>1. pc[d] \notin Locked /\ Turn(d) /\ Past(d)
      BY <2>1, <2>4 DEF SessionInv, LockInv, TurnInv
    <3>2. Turn(d)'
      BY <1>1, <3>1 DEF Turn, Still, Locked
    <3>3. Past(d)'
      BY <1>1, <2>4, <3>1 DEF Past
    <3> QED
      BY <3>2, <3>3
  <2>5. Ends(toPanel')
    BY <2>1 DEF Ends
  <2> HIDE DEF h
  <2>6. CASE PanelCode
    <3>1. h.type = "CODE"
      BY <1>2, <2>6 DEF PanelCode, PanelTakes, h
    <3>2. (pc[c] = "clear" \/ (pc[c] \in {"reset", "login"} /\ ~loginEvent)) /\ applied' = applied
      BY <2>1, <2>6, <3>1 DEF PanelCode
    <3>3. \/ /\ accepted' = accepted \cup {c} /\ UNCHANGED refused
             /\ session' = c /\ stale' = FALSE
             /\ Len(fromPanel') = 1 /\ fromPanel'[1].type = "LOGIN"
          \/ /\ refused' = refused \cup {c} /\ UNCHANGED <<accepted, session, stale>>
             /\ Len(fromPanel') = 1 /\ fromPanel'[1].type = "WRONG"
      BY <2>0, <2>1, <2>6 DEF PanelCode, Answer, h
    <3>4. LoginTurn(c)'
      BY <1>1, <2>1, <2>5, <3>3 DEF LoginTurn, Coming
    <3>5. Turn(c)' /\ Past(c)'
      BY <1>1, <2>3, <3>2, <3>3, <3>4 DEF Turn, Past, Still, Waiting
    <3>6. session' # NoCall => session' \in accepted'
      BY <3>3 DEF TurnInv
    <3>7. stale' => session' # NoCall
      BY <3>3 DEF TurnInv
    <3> QED
      BY <1>1, <2>2, <2>4, <3>2, <3>3, <3>5, <3>6, <3>7 DEF TurnInv
  <2>7. ASSUME applied' \in {applied, [applied EXCEPT ![c] = @ + 1]},
               UNCHANGED <<session, accepted, refused, stale>>, Turn(c)', Past(c)'
        PROVE  TurnInv'
    <3>1. \A d \in Calls \ {c} : applied'[d] = applied[d]
      BY <2>1, <2>7 DEF TypeOK, WireTypes
    <3> QED
      BY <1>1, <2>2, <2>4, <2>7, <3>1 DEF TurnInv
  <2>8. CASE PanelModify \/ PanelExport
    <3>1. /\ h.type = IF op[c] = "modify" THEN "MODIFY" ELSE "EXPORT"
          /\ pc[c] = "ackClear" \/ (pc[c] = "ack" /\ ~ackEvent)
          /\ applied[c] = 0
          /\ op[c] # "probe"
      BY <2>1, <2>3, <2>8 DEF PanelModify, PanelExport, PanelCommand, PanelTakes, Past, h
    <3>2. op \in [Calls -> {"modify", "export", "probe"}]
      BY DEF TypeOK, CallTypes
    <3>3. UNCHANGED <<session, accepted, refused, stale>>
      BY <2>8 DEF PanelModify, PanelExport, PanelCommand
    <3>4. CASE session = NoCall
      <4>1. UNCHANGED <<applied, fromPanel>>
        BY <2>8, <3>4 DEF PanelModify, PanelExport, PanelCommand
      <4>2. AckTurn(c)'
        BY <1>1, <2>1, <2>5, <4>1 DEF AckTurn, DoneTurn, Calm
      <4>3. Turn(c)' /\ Past(c)'
        BY <1>1, <2>3, <3>1, <3>3, <4>1, <4>2 DEF Turn, Past, Still
      <4> QED
        BY <2>7, <3>3, <4>1, <4>3
    <3>5. CASE session # NoCall
      <4>1. applied' = [applied EXCEPT ![c] = @ + 1]
        BY <2>0, <2>8, <3>5 DEF PanelModify, PanelExport, PanelCommand, h
      <4>2. applied'[c] = 1
        BY <3>1, <4>1 DEF TypeOK, WireTypes
      <4>3. AckTurn(c)'
        <5>1. CASE op[c] = "modify"
          <6>1. Len(fromPanel') = 1 /\ fromPanel'[1].type = "ACK"
            BY <2>1, <2>8, <3>1, <3>5, <5>1
            DEF PanelModify, PanelExport, PanelCommand, PanelTakes, Answer, h
          <6> QED
            BY <1>1, <2>1, <2>5, <4>2, <5>1, <6>1 DEF AckTurn, Coming
        <5>2. CASE op[c] = "export"
          <6>1. Answer(<<"ACK", "DONE">>)
            BY <2>8, <3>1, <3>5, <5>2
            DEF PanelModify, PanelExport, PanelCommand, PanelTakes, h
          <6>2. Len(fromPanel') = 2 /\ fromPanel'[1].type = "ACK" /\ fromPanel'[2].type = "DONE"
            BY <2>1, <6>1 DEF Answer
          <6> QED
            BY <1>1, <2>1, <2>5, <4>2, <5>2, <6>2 DEF AckTurn, Coming
        <5> QED
          BY <3>1, <3>2, <5>1, <5>2
      <4>4. Turn(c)' /\ Past(c)'
        BY <1>1, <2>3, <3>1, <3>3, <4>2, <4>3 DEF Turn, Past, Still, Waiting, Unasked
      <4> QED
        BY <2>7, <3>3, <4>1, <4>4
    <3> QED
      BY <3>4, <3>5
  <2>9. CASE PanelQuery
    <3>1. pc[c] = "queried" /\ applied[c] + left[c] < Devices
      BY <2>1, <2>9 DEF PanelQuery, PanelCommand, PanelTakes, h
    <3>2. UNCHANGED <<session, accepted, refused, stale, op>> /\ op[c] = "probe"
      BY <1>1, <2>3, <2>9, <3>1 DEF PanelQuery, PanelCommand, Past
    <3>3. fromPanel' = <<>>
      BY <2>1, <2>9 DEF PanelQuery, PanelCommand, Answer
    <3>4. QueryTurn(c)'
      BY <1>1, <2>1, <2>5, <3>3 DEF QueryTurn, Calm
    <3>5. applied' \in {applied, [applied EXCEPT ![c] = @ + 1]}
      BY <2>0, <2>9 DEF PanelQuery, PanelCommand, h
    <3>6. applied'[c] + left[c] <= Devices
      BY <3>1, <3>5, BoundsAssumption DEF TypeOK, WireTypes, CallTypes
    <3>7. Turn(c)' /\ Past(c)'
      BY <1>1, <2>3, <3>1, <3>2, <3>4, <3>6 DEF Turn, Past, Still, Waiting, Unasked
    <3> QED
      BY <2>7, <3>2, <3>5, <3>7
  <2> QED
    BY <1>4, <2>6, <2>8, <2>9 DEF PanelStep, PanelEnd, PanelTakes, h
<1> QED
  BY <1>3, <1>4 DEF PanelStep, PanelEnd, PanelTakes, PanelCode, PanelModify, PanelExport, PanelQuery, PanelCommand

\* What the reader has, or is about to have, is the answer the holder awaits.
LEMMA ReaderTurn ==
  ASSUME TypeOK, SessionInv, TurnInv, ReaderStep
  PROVE  TurnInv'
<1>1. /\ UNCHANGED <<callVars, lock, panelVars, toPanel>>
      /\ Ends(toPanel) => Ends(toPanel')
  BY DEF ReaderStep, ReadAnswer, MarkAuthError, SignalAnswer, NoticeBreak, Reopen, Ends
<1>2. ASSUME \A c \in Calls : Turn(c)' /\ Past(c)', lock = NoCall => Calm' PROVE TurnInv'
  BY <1>1, <1>2 DEF TurnInv
<1>3. \A c \in Calls : Turn(c) /\ Past(c)
  BY DEF TurnInv
<1>4. CASE NoticeBreak \/ Reopen
  <2>1. UNCHANGED <<fromPanel, reader, eventVars>>
    BY <1>4 DEF NoticeBreak, Reopen
  <2>2. \A c \in Calls : Turn(c)' /\ Past(c)'
    BY <1>1, <1>3, <2>1, TurnsFrame, TurnKept
  <2>3. Calm' = Calm
    BY <1>1, <2>1 DEF Calm, Ends
  <2> QED
    BY <1>2, <2>2, <2>3 DEF TurnInv
<1>5. CASE ReadAnswer
  <2>1. /\ reader = "idle" /\ fromPanel # <<>> /\ fromPanel \in Seq(Answers)
        /\ reader' = fromPanel[1].type /\ fromPanel' = Tail(fromPanel)
        /\ UNCHANGED eventVars
    BY <1>5 DEF ReadAnswer, TypeOK, WireTypes
  <2>2. ~Calm /\ (\A c, t : ~Asked(c, t)) /\ \A r, ts : r # "idle" => ~Coming(r, ts)
    BY <2>1 DEF Calm, Asked, Coming
  <2>3. /\ Len(fromPanel') = Len(fromPanel) - 1 /\ Len(fromPanel) \in Nat
        /\ \A i \in 1..Len(fromPanel') : fromPanel'[i] = fromPanel[i + 1]
    BY <2>1
  <2>4. /\ Coming("idle", <<"LOGIN">>) => Coming("LOGIN", <<>>)'
        /\ Coming("idle", <<"WRONG">>) => Coming("WRONG", <<>>)'
        /\ Coming("idle", <<"ACK">>) => Coming("ACK", <<>>)'
        /\ Coming("idle", <<"DONE">>) => Coming("DONE", <<>>)'
    BY <1>1, <2>1, <2>3 DEF Coming
  <2>5. Coming("idle", <<"ACK", "DONE">>) => Coming("ACK", <<"DONE">>)'
    <3> SUFFICES ASSUME Coming("idle", <<"ACK", "DONE">>) PROVE Coming("ACK", <<"DONE">>)'
      OBVIOUS
    <3>1. /\ Ends(toPanel) /\ Len(fromPanel) = 2
          /\ fromPanel[1].type = "ACK" /\ fromPanel[2].type = "DONE"
      BY DEF Coming
    <3>2. Len(fromPanel') = 1 /\ fromPanel'[1].type = "DONE" /\ reader' = "ACK"
      BY <2>1, <2>3, <3>1
    <3> QED
      BY <1>1, <3>1, <3>2 DEF Coming
  <2>6. ASSUME NEW c \in Calls PROVE Turn(c)' /\ Past(c)'
    <3>1. LoginTurn(c) => LoginTurn(c)'
      BY <1>1, <2>2, <2>4 DEF LoginTurn
    <3>2. DoneTurn(c) => DoneTurn(c)'
      BY <1>1, <2>2, <2>4 DEF DoneTurn
    <3>3. AckTurn(c) => AckTurn(c)'
      BY <1>1, <2>2, <2>4, <2>5, <3>2 DEF AckTurn
    <3>4. ~QueryTurn(c)
      BY <2>2 DEF QueryTurn
    <3> QED
      BY <1>1, <1>3, <2>1, <2>2, <3>1, <3>2, <3>3, <3>4, TurnKept
  <2> QED
    BY <1>2, <2>2, <2>6 DEF TurnInv
<1>6. CASE MarkAuthError \/ SignalAnswer
  <2>1. reader # "idle" /\ UNCHANGED fromPanel
    BY <1>6 DEF MarkAuthError, SignalAnswer
  <2>2. ~Calm /\ (\A c, t : ~Asked(c, t)) /\ \A r, ts : r # reader => ~Coming(r, ts)
    BY <2>1 DEF Calm, Asked, Coming
  <2>3. \A c \in Calls : Past(c)'
    BY <1>1, <1>3 DEF Past
  <2>4. ASSUME NEW c \in Calls PROVE Turn(c)'
    <3>1. Turn(c) /\ ~QueryTurn(c)
      BY <1>3, <2>2 DEF QueryTurn
    <3>2. CASE MarkAuthError
      <4>1. reader = "WRONG" /\ reader' = "MARKED" /\ UNCHANGED <<loginEvent, ackEvent, doneEvent>>
        BY <3>2 DEF MarkAuthError
      <4>2. ~DoneTurn(c) /\ ~AckTurn(c)
        BY <2>2, <4>1 DEF DoneTurn, AckTurn
      <4>3. LoginTurn(c) => LoginTurn(c)' /\ c \in refused
        BY <1>1, <2>1, <2>2, <4>1 DEF LoginTurn, Coming
      <4> QED
        BY <1>1, <2>2, <3>1, <4>1, <4>2, <4>3 DEF Turn, Still
    <3>3. CASE SignalAnswer
      <4>1. /\ reader' = "idle" /\ authError' = authError
            /\ loginEvent' = (loginEvent \/ reader \in {"LOGIN", "MARKED"})
            /\ ackEvent' = (ackEvent \/ reader = "ACK")
            /\ doneEvent' = (doneEvent \/ reader = "DONE")
        BY <3>3 DEF SignalAnswer
      <4>2. \A r : Coming(r, <<>>) => Calm'
        <5>1. Len(fromPanel) = 0 => fromPanel = <<>>
          BY DEF TypeOK, WireTypes
        <5> QED
          BY <1>1, <2>1, <4>1, <5>1 DEF Coming, Calm
      <4>3. LoginTurn(c) => Calm'
        BY <2>1, <2>2, <4>2 DEF LoginTurn
      <4>4. DoneTurn(c) => Calm' /\ reader = "DONE"
        BY <2>1, <2>2, <4>2 DEF DoneTurn
      <4>5. Coming("ACK", <<"DONE">>) => Coming("idle", <<"DONE">>)'
        BY <1>1, <2>1, <4>1 DEF Coming
      <4>6. AckTurn(c) => DoneTurn(c)' /\ (reader = "ACK" => applied[c] = 1)
        BY <1>1, <2>1, <2>2, <4>2, <4>4, <4>5 DEF AckTurn, DoneTurn
      <4>7. DoneTurn(c)' => AckTurn(c)'
        BY DEF AckTurn
      <4>8. Calm' => LoginTurn(c)' /\ DoneTurn(c)'
        BY DEF LoginTurn, DoneTurn
      <4> QED
        BY <1>1, <2>2, <3>1, <4>1, <4>3, <4>4, <4>6, <4>7, <4>8 DEF Turn
    <3> QED
      BY <1>6, <3>2, <3>3
  <2> QED
    BY <1>2, <2>2, <2>3, <2>4 DEF TurnInv
<1> QED
  BY <1>4, <1>5, <1>6 DEF ReaderStep

\* The loop only moves calls that are not in possession of the lock.
LEMMA LoopTurn ==
  ASSUME TypeOK, SessionInv, TurnInv, LoopStep \/ UNCHANGED vars
  PROVE  TurnInv'
<1>1. /\ UNCHANGED <<op, left, outcome, lock, eventVars, reader, wireVars, panelVars>>
  BY DEF LoopStep, Start, HandleWrongCode, Resume, vars
<1>2. /\ Calm' = Calm
      /\ \A c \in Calls : LoginTurn(c)' = LoginTurn(c) /\ AckTurn(c)' = AckTurn(c)
           /\ DoneTurn(c)' = DoneTurn(c) /\ QueryTurn(c)' = QueryTurn(c)
  BY <1>1, TurnsFrame DEF Calm, Ends
<1>3. \A c \in Calls : Turn(c) /\ Past(c)
  BY DEF TurnInv
<1>4. ASSUME NEW c \in Calls, pc'[c] = pc[c] PROVE Turn(c)' /\ Past(c)'
  BY <1>1, <1>2, <1>3, <1>4 DEF Turn, Past
<1>5. ASSUME NEW c \in Calls,
             \/ pc[c] = "new" /\ pc'[c] = "check"
             \/ pc'[c] = "returned"
      PROVE  Turn(c)' /\ Past(c)'
  BY <1>1, <1>3, <1>5 DEF Turn, Past, Still, Waiting, Unasked
<1>6. ASSUME NEW c \in Calls
      PROVE  pc'[c] = pc[c] \/ (pc[c] = "new" /\ pc'[c] = "check") \/ pc'[c] = "returned"
  BY DEF LoopStep, Start, HandleWrongCode, Resume, vars, Goto, TypeOK, CallTypes
<1> QED
  BY <1>1, <1>2, <1>4, <1>5, <1>6 DEF TurnInv

\* A broken link takes what was on it; what the reader has in hand remains.
LEMMA LinkTurn ==
  ASSUME TypeOK, SessionInv, TurnInv, LinkBreak
  PROVE  TurnInv'
<1>1. /\ UNCHANGED <<callVars, lock, eventVars, reader, accepted, refused, applied>>
      /\ toPanel' = <<>> /\ fromPanel' = <<>>
      /\ session' \in {session, NoCall} /\ stale' = (session' # NoCall)
  BY DEF LinkBreak
<1>2. Ends(toPanel') /\ (reader = "idle" => Calm')
  BY <1>1 DEF Ends, Calm
<1>3. (Calm => Calm') /\ (\A c, t : Asked(c, t) => Calm')
      /\ \A r, ts : Coming(r, ts) => reader = r /\ Coming(r, <<>>)'
  BY <1>1, <1>2 DEF Calm, Asked, Coming
<1>4. ASSUME NEW c \in Calls PROVE Turn(c)' /\ Past(c)'
  <2>1. LoginTurn(c) => LoginTurn(c)'
    BY <1>1, <1>2, <1>3 DEF LoginTurn
  <2>2. DoneTurn(c) => DoneTurn(c)'
    BY <1>1, <1>2, <1>3 DEF DoneTurn
  <2>3. AckTurn(c) => AckTurn(c)'
    <3>1. Calm' => DoneTurn(c)'
      BY DEF DoneTurn
    <3> QED
      BY <1>1, <1>2, <1>3, <2>2, <3>1 DEF AckTurn
  <2>4. QueryTurn(c) => QueryTurn(c)'
    BY <1>3 DEF QueryTurn
  <2>5. Turn(c) /\ Past(c)
    BY DEF TurnInv
  <2> QED
    BY <1>1, <1>3, <2>1, <2>2, <2>3, <2>4, <2>5, TurnKept
<1> QED
  BY <1>1, <1>3, <1>4 DEF TurnInv

\* TurnInv is inductive while answers are prompt.
LEMMA StepTurnInv ==
  ASSUME Prompt, TypeOK, SessionInv, TurnInv, [Next]_vars
  PROVE  TurnInv'
<1>1. ASSUME NEW c \in Calls, CallStep(c) PROVE TurnInv'
  <2>1. \A d \in Calls : Turn(d)' /\ Past(d)'
    BY <1>1, OthersTurn, OwnTurn
  <2>2. UNCHANGED panelVars
    BY <1>1, CallFrame
  <2>3. lock' = NoCall => Calm'
    BY <1>1, OwnTurn
  <2> QED
    BY <2>1, <2>2, <2>3 DEF TurnInv
<1>2. Idle => UNCHANGED vars
  BY DEF Idle
<1> QED
  BY <1>1, <1>2, PanelTurn, ReaderTurn, LoopTurn, LinkTurn DEF Next

-----------------------------------------------------------------------------
(***************************************************************************)
(* What follows, while answers are prompt.                                 *)
(***************************************************************************)
\* In every reachable state what is under way between client and panel is what
\* the holder of _session_lock waits for.
THEOREM TurnInvariant ==
  ASSUME Prompt
  PROVE  Spec => [](TypeOK /\ SessionInv /\ TurnInv)
<1>1. Init => TypeOK /\ SessionInv /\ TurnInv
  BY InitTypeOK, InitSessionInv, InitTurnInv
<1>2. TypeOK /\ SessionInv /\ TurnInv /\ [Next]_vars => (TypeOK /\ SessionInv /\ TurnInv)'
  BY StepTypeOK, StepSessionInv, StepTurnInv
<1> QED
  BY <1>1, <1>2, PTL DEF Spec

\* A modify_section or export_config that returns has had its command carried
\* out exactly once.
THEOREM OkCorrect == ASSUME Prompt PROVE Spec => []OkMeansApplied
<1>1. TurnInv => OkMeansApplied
  BY DEF TurnInv, Past, OkMeansApplied
<1> QED
  BY <1>1, TurnInvariant, PTL

\* A user's modify_section raises JablotronAuthError only when the panel refused
\* the very code that user typed.
THEOREM AuthErrorCorrect == ASSUME Prompt PROVE Spec => []AuthErrorMeansRefused
<1>1. TurnInv => AuthErrorMeansRefused
  BY DEF TurnInv, Past, AuthErrorMeansRefused
<1> QED
  BY <1>1, TurnInvariant, PTL

-----------------------------------------------------------------------------
(***************************************************************************)
(* The refinement.                                                         *)
(***************************************************************************)
\* Where a call has been started and has not ended.
Underway == Locked \cup {"check", "acquire"}

\* What the caller sees, by the program point.
LEMMA StatusAt ==
  ASSUME NEW c
  PROVE  /\ pc[c] = "new" => Status(c) = "new"
         /\ pc[c] \in Underway => Status(c) = "running"
         /\ pc[c] \in {"return", "returned"} =>
              Status(c) = IF outcome[c] = "ok" THEN "ok" ELSE "failed"
BY DEF Status, Underway, Locked

\* The same of the next state.
LEMMA StatusNext ==
  ASSUME NEW c
  PROVE  /\ pc'[c] = "new" => Status(c)' = "new"
         /\ pc'[c] \in Underway => Status(c)' = "running"
         /\ pc'[c] \in {"return", "returned"} =>
              Status(c)' = IF outcome'[c] = "ok" THEN "ok" ELSE "failed"
BY DEF Status, Underway, Locked

\* Nobody sees a difference unless program point or result differ.
LEMMA StatusKept ==
  ASSUME NEW c, pc'[c] = pc[c], outcome'[c] = outcome[c]
  PROVE  Status(c)' = Status(c)
BY DEF Status

\* A step of a call leaves it under way, ends it before it took the lock, or
\* ends it with the result it has.
LEMMA CallMoves ==
  ASSUME TypeOK, NEW c \in Calls, CallStep(c)
  PROVE  /\ pc[c] \in Underway
         /\ \/ pc'[c] \in Underway
            \/ pc'[c] = "return" /\ outcome'[c] \in {"link", "auth"}
            \/ pc'[c] = "return" /\ pc[c] = "release" /\ UNCHANGED outcome
<1> USE DEF TypeOK, CallTypes, Goto, EndWith, Locked, Underway
<1>1. CASE CheckFails(c)
  BY <1>1 DEF CheckFails
<1>2. CASE CheckPasses(c)
  BY <1>2 DEF CheckPasses
<1>3. CASE Acquire(c)
  BY <1>3 DEF Acquire
<1>4. CASE SendEnd(c)
  BY <1>4 DEF SendEnd, WriteStep
<1>5. CASE RejectCode(c)
  BY <1>5 DEF RejectCode
<1>6. CASE SendCode(c)
  BY <1>6 DEF SendCode, WriteStep
<1>7. CASE ClearLogin(c)
  BY <1>7 DEF ClearLogin
<1>8. CASE ResetAuthError(c)
  BY <1>8 DEF ResetAuthError
<1>9. CASE AwaitLogin(c)
  BY <1>9 DEF AwaitLogin, WaitTimesOut
<1>10. CASE ReadVerdict(c)
  BY <1>10 DEF ReadVerdict
<1>11. CASE SendCommand(c)
  BY <1>11 DEF SendCommand, WriteStep
<1>12. CASE ClearAck(c)
  BY <1>12 DEF ClearAck
<1>13. CASE AwaitAck(c)
  BY <1>13 DEF AwaitAck, WaitTimesOut
<1>14. CASE ClearDone(c)
  BY <1>14 DEF ClearDone
<1>15. CASE AwaitDone(c)
  BY <1>15 DEF AwaitDone, WaitTimesOut
<1>16. CASE ReadConfig(c)
  BY <1>16 DEF ReadConfig
<1>17. CASE QueryDevice(c)
  BY <1>17 DEF QueryDevice, WriteStep
<1>18. CASE AwaitDevice(c)
  BY <1>18 DEF AwaitDevice
<1>19. CASE FinishProbe(c)
  BY <1>19 DEF FinishProbe
<1>20. CASE Logout(c)
  BY <1>20 DEF Logout
<1>21. CASE Release(c)
  BY <1>21 DEF Release
<1> QED
  BY <1>1, <1>2, <1>3, <1>4, <1>5, <1>6, <1>7, <1>8, <1>9, <1>10, <1>11, <1>12, <1>13, <1>14, <1>15, <1>16, <1>17, <1>18, <1>19, <1>20, <1>21 DEF CallStep

\* A new client is a new service.
LEMMA InitRefines == Init => Abstract!Init
<1> SUFFICES ASSUME Init PROVE Abstract!Init
  OBVIOUS
<1>1. [c \in Calls |-> Status(c)] = [c \in Calls |-> "new"]
  BY StatusAt DEF Init
<1>2. [c \in Calls |-> pin[c] = "valid"] \in [Calls -> BOOLEAN]
  OBVIOUS
<1> QED
  BY <1>1, <1>2 DEF Init, Abstract!Init

\* A step of a call, seen from its caller: it goes on, fails or succeeds.
LEMMA CallRefines ==
  ASSUME TypeOK, TurnInv, NEW c \in Calls, CallStep(c)
  PROVE  [Abstract!Next]_(Abstract!vars)
<1> DEFINE st == [d \in Calls |-> Status(d)]
<1>1. /\ UNCHANGED <<op, pin, session, stale, applied>>
      /\ \A d \in Calls \ {c} : Status(d)' = Status(d)
  BY CallFrame, StatusKept
<1>2. UNCHANGED [d \in Calls |-> pin[d] = "valid"]
  BY <1>1
<1>3. st' = [st EXCEPT ![c] = Status(c)']
  BY <1>1
<1>4. Status(c) = "running"
  BY CallMoves, StatusAt
<1>5. CASE pc'[c] \in Underway
  <2>1. Status(c)' = "running"
    BY <1>5, StatusNext
  <2>2. st' = st
    BY <1>1, <1>4, <2>1
  <2> QED
    BY <1>1, <1>2, <2>2 DEF Abstract!vars
<1>6. CASE pc'[c] = "return" /\ Status(c)' = "failed"
  <2>1. Abstract!Fail(c)
    BY <1>1, <1>2, <1>3, <1>4, <1>6 DEF Abstract!Fail
  <2> QED
    BY <2>1 DEF Abstract!Next
<1>7. CASE pc'[c] = "return" /\ Status(c)' = "ok"
  <2>1. outcome'[c] = "ok"
    BY <1>7, StatusNext
  <2>2. outcome[c] = "ok"
    BY <1>7, <2>1, CallMoves DEF Underway, Locked
  <2>3. op[c] # "probe" => applied[c] = 1
    BY <2>2 DEF TurnInv, Past
  <2>4. Abstract!Succeed(c)
    BY <1>1, <1>2, <1>3, <1>4, <1>7, <2>3 DEF Abstract!Succeed
  <2> QED
    BY <2>4 DEF Abstract!Next
<1> QED
  BY <1>5, <1>6, <1>7, CallMoves, StatusNext

\* A step of the panel admits a call, carries out its command or closes.
LEMMA PanelRefines ==
  ASSUME TypeOK, SessionInv, TurnInv, PanelStep
  PROVE  [Abstract!Next]_(Abstract!vars)
<1> DEFINE st == [d \in Calls |-> Status(d)]
           gen == [d \in Calls |-> pin[d] = "valid"]
<1>1. /\ toPanel # <<>> /\ toPanel' = Tail(toPanel)
      /\ UNCHANGED <<pc, op, outcome, pin>>
  BY DEF PanelStep, PanelEnd, PanelCode, PanelModify, PanelExport, PanelQuery,
         PanelCommand, PanelTakes
<1>2. st' = st /\ gen' = gen
  BY <1>1, StatusKept
<1>3. PICK c \in Calls : c = Head(toPanel).of
  <2>1. Head(toPanel) \in Requests
    BY <1>1 DEF TypeOK, WireTypes
  <2> QED
    BY <2>1 DEF Requests
<1>4. CASE PanelEnd
  <2>1. UNCHANGED applied /\ session' = NoCall /\ stale' = FALSE
    BY <1>4 DEF PanelEnd
  <2>2. CASE session = NoCall
    <3>1. ~stale
      BY <2>2 DEF TurnInv
    <3>2. stale' = stale
      BY <2>1, <3>1 DEF TypeOK, FlagTypes
    <3> QED
      BY <1>1, <1>2, <2>1, <2>2, <3>2 DEF Abstract!vars
  <2>3. CASE session # NoCall
    <3>1. Abstract!Close
      BY <1>1, <1>2, <2>1, <2>3 DEF Abstract!Close
    <3> QED
      BY <3>1 DEF Abstract!Next
  <2> QED
    BY <2>2, <2>3
<1>5. CASE ~PanelEnd
  <2>1. Head(toPanel).type # "END"
    BY <1>5 DEF PanelStep, PanelCode, PanelModify, PanelExport, PanelQuery,
                PanelCommand, PanelTakes
  <2>2. /\ lock = c
        /\ \/ Head(toPanel).type = "CODE" /\ c \notin accepted
           \/ /\ Head(toPanel).type = IF op[c] = "modify" THEN "MODIFY" ELSE "EXPORT"
              /\ pc[c] \in {"ackClear", "ack"} /\ applied[c] = 0
           \/ /\ Head(toPanel).type = "QUERY"
              /\ pc[c] = "queried" /\ applied[c] + left[c] < Devices
    BY <1>1, <1>3, <2>1, Requester
  <2>3. Status(c) = "running"
    BY <2>2, StatusAt DEF SessionInv, LockInv, Underway
  <2>4. session # NoCall /\ ~stale => session = c
    BY <1>1, <1>3, <2>1, CommandIsOwn
  <2>5. CASE PanelCode
    <3>1. Head(toPanel).type = "CODE" /\ c \notin accepted
      BY <2>2, <2>5 DEF PanelCode, PanelTakes
    <3>2. session = NoCall \/ stale
      BY <2>4, <3>1 DEF TurnInv
    <3>3. CASE pin[c] = "valid"
      <4>1. Abstract!Admit(c)
        BY <1>1, <1>2, <1>3, <2>3, <2>5, <3>2, <3>3 DEF PanelCode, Abstract!Admit
      <4> QED
        BY <4>1 DEF Abstract!Next
    <3>4. CASE pin[c] # "valid"
      BY <1>1, <1>2, <1>3, <2>5, <3>4 DEF PanelCode, Abstract!vars
    <3> QED
      BY <3>3, <3>4
  <2>6. CASE PanelModify \/ PanelExport \/ PanelQuery
    <3>1. UNCHANGED <<session, stale>>
      BY <2>6 DEF PanelModify, PanelExport, PanelQuery, PanelCommand
    <3>2. CASE session = NoCall
      BY <1>1, <1>2, <2>6, <3>1, <3>2
      DEF PanelModify, PanelExport, PanelQuery, PanelCommand, Abstract!vars
    <3>3. CASE session # NoCall
      <4>1. applied' = [applied EXCEPT ![c] = @ + 1]
        BY <1>3, <2>6, <3>3 DEF PanelModify, PanelExport, PanelQuery, PanelCommand
      <4>2. applied[c] \in Nat /\ left[c] \in Nat /\ Devices \in Nat
        BY BoundsAssumption DEF TypeOK, WireTypes, CallTypes
      <4>3. applied[c] < IF op[c] = "probe" THEN Devices ELSE 1
        <5>1. CASE PanelQuery
          <6>1. pc[c] = "queried" /\ applied[c] + left[c] < Devices
            BY <2>2, <5>1 DEF PanelQuery, PanelCommand, PanelTakes
          <6>2. op[c] = "probe"
            BY <6>1 DEF TurnInv, Past
          <6> QED
            BY <4>2, <6>1, <6>2
        <5>2. CASE PanelModify \/ PanelExport
          <6>1. pc[c] \in {"ackClear", "ack"} /\ applied[c] = 0
            BY <2>2, <5>2 DEF PanelModify, PanelExport, PanelCommand, PanelTakes
          <6>2. op[c] # "probe"
            BY <6>1 DEF TurnInv, Past
          <6> QED
            BY <6>1, <6>2
        <5> QED
          BY <2>6, <5>1, <5>2
      <4>4. Abstract!Apply(c)
        BY <1>1, <1>2, <2>3, <2>4, <3>1, <3>3, <4>1, <4>3
        DEF Abstract!Apply, Abstract!Allowance
      <4> QED
        BY <4>4 DEF Abstract!Next
    <3> QED
      BY <3>2, <3>3
  <2> QED
    BY <1>5, <2>5, <2>6 DEF PanelStep
<1> QED
  BY <1>4, <1>5

\* The loop begins a call; the reader is not seen; a broken link closes the
\* session, tears it or meets none.
LEMMA OtherRefines ==
  ASSUME TypeOK, TurnInv, LoopStep \/ ReaderStep \/ LinkBreak \/ UNCHANGED vars
  PROVE  [Abstract!Next]_(Abstract!vars)
<1> DEFINE st == [d \in Calls |-> Status(d)]
           gen == [d \in Calls |-> pin[d] = "valid"]
<1>1. ASSUME NEW c \in Calls, Start(c) PROVE Abstract!Next
  <2>1. /\ UNCHANGED <<op, pin, outcome, session, stale, applied>>
        /\ pc[c] = "new" /\ pc'[c] = "check"
        /\ \A d \in Calls \ {c} : pc'[d] = pc[d]
    BY <1>1 DEF Start, Goto, TypeOK, CallTypes
  <2>2. Status(c) = "new" /\ Status(c)' = "running"
    BY <2>1, StatusAt, StatusNext DEF Underway
  <2>3. \A d \in Calls \ {c} : Status(d)' = Status(d)
    BY <2>1, StatusKept
  <2>4. st' = [st EXCEPT ![c] = "running"] /\ gen' = gen
    BY <2>1, <2>2, <2>3
  <2>5. Abstract!Begin(c)
    BY <2>1, <2>2, <2>4 DEF Abstract!Begin
  <2> QED
    BY <2>5 DEF Abstract!Next
<1>2. ASSUME UNCHANGED <<op, pin, outcome, session, stale, applied>>,
             \A d \in Calls : Status(d)' = Status(d)
      PROVE  UNCHANGED Abstract!vars
  <2>1. st' = st /\ gen' = gen
    BY <1>2
  <2> QED
    BY <1>2, <2>1 DEF Abstract!vars
<1>3. CASE Resume
  <2>1. UNCHANGED <<op, pin, outcome, session, stale, applied>>
    BY <1>3 DEF Resume
  <2>2. ASSUME NEW d \in Calls PROVE Status(d)' = Status(d)
    <3>1. pc'[d] = pc[d] \/ (pc[d] = "return" /\ pc'[d] = "returned")
      BY <1>3 DEF Resume, Goto, TypeOK, CallTypes
    <3> QED
      BY <2>1, <3>1, StatusKept, StatusAt, StatusNext
  <2> QED
    BY <1>2, <2>1, <2>2
<1>4. CASE HandleWrongCode \/ ReaderStep \/ UNCHANGED vars
  <2>1. UNCHANGED <<pc, op, pin, outcome, session, stale, applied>>
    BY <1>4 DEF HandleWrongCode, ReaderStep, ReadAnswer, MarkAuthError, SignalAnswer,
                NoticeBreak, Reopen, vars
  <2> QED
    BY <1>2, <2>1, StatusKept
<1>5. CASE LinkBreak
  <2>1. /\ UNCHANGED <<pc, op, pin, outcome, applied>>
        /\ session' \in {session, NoCall} /\ stale' = (session' # NoCall)
    BY <1>5 DEF LinkBreak
  <2>2. st' = st /\ gen' = gen
    BY <2>1, StatusKept
  <2>3. CASE session = NoCall
    <3>1. ~stale /\ session' = session /\ ~stale'
      BY <2>1, <2>3 DEF TurnInv
    <3>2. stale' = stale
      BY <2>1, <3>1 DEF TypeOK, FlagTypes
    <3> QED
      BY <2>1, <2>2, <3>1, <3>2 DEF Abstract!vars
  <2>4. CASE session # NoCall /\ session' = NoCall
    <3>1. stale' = FALSE
      BY <2>1, <2>4
    <3>2. Abstract!Close
      BY <2>1, <2>2, <2>4, <3>1 DEF Abstract!Close
    <3> QED
      BY <3>2 DEF Abstract!Next
  <2>5. CASE session # NoCall /\ session' = session
    <3>1. stale' = TRUE
      BY <2>1, <2>5
    <3>2. Abstract!Tear
      BY <2>1, <2>2, <2>5, <3>1 DEF Abstract!Tear
    <3> QED
      BY <3>2 DEF Abstract!Next
  <2> QED
    BY <2>1, <2>3, <2>4, <2>5
<1> QED
  BY <1>1, <1>3, <1>4, <1>5 DEF LoopStep

\* Every step of the threads, the panel or the link is one of the service's.
LEMMA StepRefines ==
  ASSUME TypeOK, SessionInv, TurnInv, [Next]_vars
  PROVE  [Abstract!Next]_(Abstract!vars)
<1>1. Idle => UNCHANGED vars
  BY DEF Idle
<1> QED
  BY <1>1, CallRefines, PanelRefines, OtherRefines DEF Next

\* The authenticated command path of the client, with its threads, events and
\* session lock, is the one-at-a-time service of CommandService.
THEOREM ServiceCorrect == ASSUME Prompt PROVE Spec => ImplementsCommandService
<1>1. TypeOK /\ SessionInv /\ TurnInv /\ [Next]_vars => [Abstract!Next]_(Abstract!vars)
  BY StepRefines
<1> QED
  BY <1>1, InitRefines, TurnInvariant, PTL DEF Spec, ImplementsCommandService, Abstract!Spec
=============================================================================
