--------------------------- MODULE PanelDataProof ---------------------------
(***************************************************************************)
(* Proofs about module PanelData and the modules it is made of: what the   *)
(* framing of Reports brings across, what the decoders of Payloads read,   *)
(* and what the entities show of the panel.                                *)
(***************************************************************************)
EXTENDS PanelData, SequenceLemmas

-----------------------------------------------------------------------------
(***************************************************************************)
(* The body of a report.                                                   *)
(***************************************************************************)
LEMMA ByteIsNat == Byte \subseteq Nat
BY DEF Byte

\* Packets are made of bytes.
LEMMA PacketParts ==
  ASSUME NEW p \in Packets
  PROVE  p.type \in Byte \ {0} /\ p.data \in Seq(Byte) /\ Len(p.data) \in Nat
<1>1. p.type \in Byte \ {0} /\ p.data \in Seq(Byte)
  BY DEF Packets
<1> QED
  BY <1>1, LenProperties

\* Pairs of anything.
LEMMA Pair ==
  ASSUME NEW T, NEW a \in T, NEW b \in T
  PROVE  <<a, b>> \in Seq(T) /\ Len(<<a, b>>) = 2 /\ <<a, b>>[1] = a /\ <<a, b>>[2] = b
OBVIOUS

\* A frame is two bytes and the data.
LEMMA FrameParts ==
  ASSUME NEW p \in Packets
  PROVE  /\ Frame(p) \in Seq(Nat) /\ Len(Frame(p)) = 2 + Len(p.data)
         /\ Frame(p)[1] = p.type /\ Frame(p)[2] = Len(p.data)
         /\ \A j \in 1..Len(p.data) : Frame(p)[2 + j] = p.data[j]
         /\ Len(p.data) \in Byte => Frame(p) \in Seq(Byte)
<1> DEFINE head == <<p.type, Len(p.data)>>
<1>1. p.type \in Byte \ {0} /\ p.data \in Seq(Byte) /\ Len(p.data) \in Nat /\ p.type \in Nat
  BY PacketParts, ByteIsNat
<1>2. head \in Seq(Nat) /\ Len(head) = 2 /\ head[1] = p.type /\ head[2] = Len(p.data)
  BY <1>1, Pair
<1>3. Len(p.data) \in Byte => head \in Seq(Byte)
  BY <1>1, Pair
<1>4. Frame(p) = head \o p.data
  BY DEF Frame
<1>5. p.data \in Seq(Nat)
  BY <1>1, SeqMonotonic, ByteIsNat
<1>6. Frame(p) \in Seq(Nat) /\ Len(Frame(p)) = 2 + Len(p.data)
  BY <1>2, <1>4, <1>5
<1>7. Frame(p)[1] = p.type /\ Frame(p)[2] = Len(p.data)
  BY <1>2, <1>4, <1>5
<1>8. \A j \in 1..Len(p.data) : Frame(p)[2 + j] = p.data[j]
  BY <1>2, <1>4, <1>5
<1>9. Len(p.data) \in Byte => Frame(p) \in Seq(Byte)
  BY <1>1, <1>3, <1>4
<1> QED
  BY <1>6, <1>7, <1>8, <1>9

\* No packets, no bytes.
LEMMA BodyNone == Body(<<>>) = <<>>
<1>1. [k \in DOMAIN <<>> |-> Frame(<<>>[k])] = <<>>
  OBVIOUS
<1> QED
  BY <1>1, FlattenNone DEF Body

\* The frames of packets in a row.
LEMMA FramesType ==
  ASSUME NEW ps \in Seq(Packets)
  PROVE  [k \in DOMAIN ps |-> Frame(ps[k])] \in Seq(Seq(Nat))
<1>1. \A k \in 1..Len(ps) : Frame(ps[k]) \in Seq(Nat)
  BY FrameParts
<1> QED
  BY <1>1

\* A body is a sequence of numbers.
LEMMA BodyType ==
  ASSUME NEW ps \in Seq(Packets)
  PROVE  Body(ps) \in Seq(Nat)
BY FramesType, FlattenType DEF Body

\* A packet more puts its frame behind the body.
LEMMA BodyAppend ==
  ASSUME NEW ps \in Seq(Packets), NEW p \in Packets
  PROVE  /\ Body(Append(ps, p)) = Body(ps) \o Frame(p)
         /\ Len(Body(Append(ps, p))) = Len(Body(ps)) + 2 + Len(p.data)
<1> DEFINE frames == [k \in DOMAIN ps |-> Frame(ps[k])]
           more == [k \in DOMAIN Append(ps, p) |-> Frame(Append(ps, p)[k])]
<1>1. frames \in Seq(Seq(Nat)) /\ Frame(p) \in Seq(Nat)
  BY FramesType, FrameParts
<1>2. more = Append(frames, Frame(p))
  OBVIOUS
<1>3. Body(ps) = FlattenSeq(frames) /\ Body(Append(ps, p)) = FlattenSeq(more)
  BY DEF Body
<1>4. FlattenSeq(Append(frames, Frame(p))) = FlattenSeq(frames) \o Frame(p)
  <2> HIDE DEF frames
  <2> QED
    BY <1>1, FlattenAppend
<1>5. Body(Append(ps, p)) = Body(ps) \o Frame(p)
  BY <1>2, <1>3, <1>4
<1>6. Body(ps) \in Seq(Nat)
  BY BodyType
<1>7. Len(Frame(p)) = 2 + Len(p.data) /\ Len(p.data) \in Nat
  BY FrameParts, PacketParts
<1> HIDE DEF frames, more
<1>8. Len(Body(ps) \o Frame(p)) = Len(Body(ps)) + Len(Frame(p)) /\ Len(Body(ps)) \in Nat
  BY <1>1, <1>6, ConcatProperties, LenProperties
<1> DEFINE whole == Body(Append(ps, p))
           size == Len(p.data)
<1>9. whole = Body(ps) \o Frame(p) /\ Len(Frame(p)) = 2 + size /\ size \in Nat
  BY <1>5, <1>7
<1>10. Len(whole) = Len(Body(ps)) + 2 + size
  <2> HIDE DEF whole, size
  <2> QED
    BY <1>8, <1>9
<1> QED
  BY <1>5, <1>10

\* One packet more of a row.
LEMMA PrefixGrows ==
  ASSUME NEW T, NEW ps \in Seq(T), NEW k \in Nat, k < Len(ps)
  PROVE  /\ SubSeq(ps, 1, k) \in Seq(T) /\ Len(SubSeq(ps, 1, k)) = k
         /\ ps[k + 1] \in T
         /\ SubSeq(ps, 1, k + 1) = Append(SubSeq(ps, 1, k), ps[k + 1])
<1>1. SubSeq(ps, 1, k) \in Seq(T) /\ Len(SubSeq(ps, 1, k)) = k /\ ps[k + 1] \in T
  OBVIOUS
<1>2. SubSeq(ps, 1, k + 1) \in Seq(T) /\ Len(SubSeq(ps, 1, k + 1)) = k + 1
  OBVIOUS
<1>3. \A j \in 1..(k + 1) :
        SubSeq(ps, 1, k + 1)[j] = Append(SubSeq(ps, 1, k), ps[k + 1])[j]
  OBVIOUS
<1>4. Append(SubSeq(ps, 1, k), ps[k + 1]) \in Seq(T)
  BY <1>1
<1> QED
  BY <1>1, <1>2, <1>3, <1>4, SeqEqual

\* The body of the first packets is how the body of all begins.
LEMMA BodyBegins ==
  ASSUME NEW ps \in Seq(Packets), NEW k \in 0..Len(ps)
  PROVE  LET first == Body(SubSeq(ps, 1, k)) IN
         /\ Len(first) <= Len(Body(ps))
         /\ \A j \in 1..Len(first) : Body(ps)[j] = first[j]
<1> DEFINE first(n) == Body(SubSeq(ps, 1, n))
           Begins(n) == /\ Len(first(n)) <= Len(Body(ps))
                        /\ \A j \in 1..Len(first(n)) : Body(ps)[j] = first(n)[j]
           S == {m \in Nat : m <= Len(ps) => Begins(Len(ps) - m)}
<1>1. 0 \in S
  <2>1. SubSeq(ps, 1, Len(ps) - 0) = ps
    OBVIOUS
  <2>2. first(Len(ps) - 0) = Body(ps)
    BY <2>1
  <2>3. Body(ps) \in Seq(Nat)
    BY BodyType
  <2> QED
    BY <2>2, <2>3
<1>2. ASSUME NEW m \in Nat, m \in S PROVE m + 1 \in S
  <2> DEFINE n == Len(ps) - (m + 1)
  <2> SUFFICES ASSUME m + 1 <= Len(ps) PROVE Begins(n)
    OBVIOUS
  <2>1. n \in Nat /\ n < Len(ps) /\ n + 1 = Len(ps) - m
    OBVIOUS
  <2>2. Begins(n + 1)
    BY <1>2, <2>1
  <2>3. /\ SubSeq(ps, 1, n) \in Seq(Packets) /\ ps[n + 1] \in Packets
        /\ SubSeq(ps, 1, n + 1) = Append(SubSeq(ps, 1, n), ps[n + 1])
    <3> HIDE DEF n
    <3> QED
      BY <2>1, PrefixGrows
  <2>4. first(n + 1) = first(n) \o Frame(ps[n + 1])
    BY <2>3, BodyAppend
  <2>5. first(n) \in Seq(Nat) /\ Frame(ps[n + 1]) \in Seq(Nat) /\ Len(Body(ps)) \in Nat
    <3> HIDE DEF n, S
    <3>1. Body(SubSeq(ps, 1, n)) \in Seq(Nat) /\ Body(ps) \in Seq(Nat)
      BY <2>3, BodyType
    <3>2. Frame(ps[n + 1]) \in Seq(Nat)
      BY <2>3, FrameParts
    <3> QED
      BY <3>1, <3>2, LenProperties
  <2>6. Len(first(n)) <= Len(first(n + 1)) /\ \A j \in 1..Len(first(n)) : first(n + 1)[j] = first(n)[j]
    <3> DEFINE a == first(n)
               b == Frame(ps[n + 1])
    <3>1. a \in Seq(Nat) /\ b \in Seq(Nat) /\ first(n + 1) = a \o b
      BY <2>4, <2>5
    <3> HIDE DEF a, b, first
    <3>2. Len(a) <= Len(a \o b) /\ \A j \in 1..Len(a) : (a \o b)[j] = a[j]
      BY <3>1
    <3> QED
      BY <3>1, <3>2 DEF a
  <2>7. Len(first(n)) \in Nat /\ Len(first(n + 1)) \in Nat
    <3>1. first(n) \o Frame(ps[n + 1]) \in Seq(Nat)
      <4> HIDE DEF first, n, S
      <4> QED
        BY <2>5, ConcatProperties
    <3>2. first(n + 1) \in Seq(Nat)
      <4> HIDE DEF first, n, S
      <4> QED
        BY <2>4, <3>1
    <3> HIDE DEF first, n, S
    <3> QED
      BY <2>5, <3>2, LenProperties
  <2> HIDE DEF n, first
  <2> QED
    BY <2>2, <2>5, <2>6, <2>7
<1>3. \A m \in Nat : m \in S
  <2> HIDE DEF S
  <2> QED
    BY <1>1, <1>2, Induction
<1>4. Len(ps) - k \in S /\ Len(ps) - k \in Nat /\ Len(ps) - (Len(ps) - k) = k
  BY <1>3
<1> QED
  BY <1>4

\* The packet behind the first k, where it is in the body.
LEMMA NextFrame ==
  ASSUME NEW ps \in Seq(Packets), NEW k \in Nat, k < Len(ps)
  PROVE  LET n == Len(Body(SubSeq(ps, 1, k)))
             p == ps[k + 1] IN
         /\ n \in Nat /\ n + 2 + Len(p.data) <= Len(Body(ps))
         /\ Body(ps)[n + 1] = p.type /\ Body(ps)[n + 2] = Len(p.data)
         /\ \A j \in 1..Len(p.data) : Body(ps)[n + 2 + j] = p.data[j]
         /\ Body(SubSeq(ps, 1, k + 1)) = Body(SubSeq(ps, 1, k)) \o Frame(p)
         /\ Len(Body(SubSeq(ps, 1, k + 1))) = n + 2 + Len(p.data)
<1> DEFINE first == Body(SubSeq(ps, 1, k))
           more == Body(SubSeq(ps, 1, k + 1))
           p == ps[k + 1]
           frame == Frame(p)
           bytes == p.data
           all == Body(ps)
<1>1. /\ SubSeq(ps, 1, k) \in Seq(Packets) /\ p \in Packets
      /\ SubSeq(ps, 1, k + 1) = Append(SubSeq(ps, 1, k), p)
  BY PrefixGrows
<1>2. more = first \o frame
  BY <1>1, BodyAppend
<1>3. Len(more) <= Len(all) /\ \A j \in 1..Len(more) : all[j] = more[j]
  BY BodyBegins, k + 1 \in 0..Len(ps)
<1>4. first \in Seq(Nat) /\ all \in Seq(Nat)
  BY <1>1, BodyType
<1>5. bytes \in Seq(Byte)
  BY <1>1, PacketParts
<1>6. /\ frame \in Seq(Nat) /\ Len(frame) = 2 + Len(bytes)
      /\ frame[1] = p.type /\ frame[2] = Len(bytes)
      /\ \A j \in 1..Len(bytes) : frame[2 + j] = bytes[j]
  BY <1>1, FrameParts
<1> HIDE DEF first, more, frame, bytes, all
<1>7. Len(first) \in Nat /\ Len(bytes) \in Nat /\ Len(more) = Len(first) + 2 + Len(bytes)
  <2> HIDE DEF p
  <2>1. frame \in Seq(Nat)
    BY <1>6
  <2>2. Len(first \o frame) = Len(first) + Len(frame)
    BY <1>4, <2>1
  <2> QED
    BY <1>2, <1>4, <1>5, <1>6, <2>2, SMTT(20)
<1>8. Len(first) + 2 + Len(bytes) <= Len(all)
  BY <1>3, <1>7
<1>9. ASSUME NEW j \in 1..(2 + Len(bytes)) PROVE all[Len(first) + j] = frame[j]
  <2>1. Len(first) + j \in 1..Len(more)
    BY <1>7
  <2>2. (first \o frame)[Len(first) + j] = frame[j]
    BY <1>4, <1>5, <1>6
  <2> QED
    BY <1>2, <1>3, <2>1, <2>2
<1>10. all[Len(first) + 1] = frame[1] /\ all[Len(first) + 2] = frame[2]
  BY <1>7, <1>9
<1>11. ASSUME NEW j \in 1..Len(bytes) PROVE all[Len(first) + 2 + j] = bytes[j]
  <2>1. 2 + j \in 1..(2 + Len(bytes)) /\ Len(first) + (2 + j) = Len(first) + 2 + j
    BY <1>7
  <2> QED
    BY <1>6, <1>9, <2>1
<1> QED
  BY <1>2, <1>6, <1>7, <1>8, <1>10, <1>11 DEF first, more, frame, bytes, all

\* A body that fits a report is made of bytes.
LEMMA BodyBytes ==
  ASSUME NEW ps \in Seq(Packets), Len(Body(ps)) <= 255
  PROVE  Body(ps) \in Seq(Byte)
<1> DEFINE S == {k \in Nat : k <= Len(ps) => Body(SubSeq(ps, 1, k)) \in Seq(Byte)}
<1>1. 0 \in S
  <2>1. SubSeq(ps, 1, 0) = <<>> /\ <<>> \in Seq(Byte)
    OBVIOUS
  <2>2. Body(SubSeq(ps, 1, 0)) = <<>>
    BY <2>1, BodyNone
  <2> QED
    BY <2>1, <2>2
<1>2. ASSUME NEW k \in Nat, k \in S PROVE k + 1 \in S
  <2> SUFFICES ASSUME k < Len(ps) PROVE Body(SubSeq(ps, 1, k + 1)) \in Seq(Byte)
    OBVIOUS
  <2> DEFINE first == Body(SubSeq(ps, 1, k))
             p == ps[k + 1]
             size == Len(p.data)
  <2>1. first \in Seq(Byte)
    BY <1>2
  <2>2. /\ Len(first) \in Nat /\ Len(first) + 2 + size <= Len(Body(ps))
        /\ Body(SubSeq(ps, 1, k + 1)) = first \o Frame(p)
    BY NextFrame
  <2>3. Body(ps) \in Seq(Nat) /\ p \in Packets
    BY BodyType
  <2>4. size \in Nat /\ Len(Body(ps)) \in Nat
    BY <2>3, PacketParts, LenProperties
  <2>5. size \in Byte
    <3> HIDE DEF first, size
    <3> QED
      BY <2>2, <2>4 DEF Byte
  <2>6. Frame(p) \in Seq(Byte)
    BY <2>3, <2>5, FrameParts
  <2> HIDE DEF first, p
  <2>7. first \o Frame(p) \in Seq(Byte)
    BY <2>1, <2>6, ConcatProperties
  <2> QED
    BY <2>2, <2>7
<1>3. \A k \in Nat : k \in S
  <2> HIDE DEF S
  <2> QED
    BY <1>1, <1>2, Induction
<1>4. SubSeq(ps, 1, Len(ps)) = ps
  OBVIOUS
<1>5. Body(SubSeq(ps, 1, Len(ps))) \in Seq(Byte)
  BY <1>3
<1> QED
  BY <1>4, <1>5, Zenon

-----------------------------------------------------------------------------
(***************************************************************************)
(* The wire.                                                               *)
(***************************************************************************)
\* A body that fits, padded: a report of bytes that begins with the body.
LEMMA PaddedBody ==
  ASSUME NEW ps \in Seq(Packets), Len(Body(ps)) <= ReportSize
  PROVE  /\ Padded(Body(ps)) \in [1..ReportSize -> Byte]
         /\ \A j \in 1..Len(Body(ps)) : Padded(Body(ps))[j] = Body(ps)[j]
         /\ \A j \in (Len(Body(ps)) + 1)..ReportSize : Padded(Body(ps))[j] = 0
<1> DEFINE body == Body(ps)
           zeros == [k \in 1..(ReportSize - Len(body)) |-> 0]
<1>1. ReportSize \in Nat /\ ReportSize <= 255 /\ 0 \in Byte
  BY ReportsAssumption DEF Byte
<1>2. Len(body) <= ReportSize /\ Len(body) \in Nat
  BY BodyType, LenProperties
<1>3. body \in Seq(Byte)
  <2>1. Len(body) <= 255
    <3> HIDE DEF body
    <3> QED
      BY <1>1, <1>2
  <2> QED
    BY <2>1, BodyBytes
<1> HIDE DEF body
<1>4. zeros \in Seq(Byte) /\ Len(zeros) = ReportSize - Len(body)
  BY <1>1, <1>2
<1>5. Padded(body) = body \o zeros
  BY DEF Padded
<1>6. body \o zeros \in Seq(Byte) /\ Len(body \o zeros) = ReportSize
  BY <1>1, <1>2, <1>3, <1>4
<1>7. \A j \in 1..Len(body) : (body \o zeros)[j] = body[j]
  BY <1>1, <1>2, <1>3, <1>4
<1>8. \A j \in (Len(body) + 1)..ReportSize : (body \o zeros)[j] = 0
  BY <1>1, <1>2, <1>3, <1>4
<1>9. body \o zeros \in [1..ReportSize -> Byte]
  <2> HIDE DEF zeros
  <2> QED
    BY <1>6, LenProperties
<1> QED
  BY <1>5, <1>7, <1>8, <1>9 DEF body

\* The packets found so far are the consumed part of the report and, when it is
\* known what was sent, the first of the packets sent.
WireInv ==
  /\ WireTypeOK
  /\ pc \in {"idle", "encode"} => report = <<>> /\ i = 0 /\ packets = <<>>
  /\ pc = "idle" => sent = <<>> /\ to = "integration"
  /\ pc \in {"decode", "done"} =>
       /\ report \in [1..ReportSize -> Byte]
       /\ Body(packets) = SubSeq(report, 1, i)
       /\ sent # <<>> => /\ Len(Body(sent)) <= ReportSize /\ report = Padded(Body(sent))
                         /\ Len(packets) <= Len(sent)
                         /\ packets = SubSeq(sent, 1, Len(packets))
  /\ pc = "done" /\ sent # <<>> => packets = sent

\* It says what the property does.
LEMMA WireInvDecodes == WireInv => DecodesTheReport
BY DEF WireInv, DecodesTheReport

\* The steps of the wire, one by one.
LEMMA SendKeepsWire ==
  ASSUME WireInv, NEW ps \in Seq(Packets), NEW reader \in {"panel", "integration"},
         Send(ps, reader)
  PROVE  WireInv'
BY DEF WireInv, WireTypeOK, Send

LEMMA ClearKeepsWire ==
  ASSUME WireInv, Clear
  PROVE  WireInv'
BY ReportsAssumption DEF WireInv, WireTypeOK, Clear

LEMMA EncodeKeepsWire ==
  ASSUME WireInv, Encode
  PROVE  WireInv'
<1>1. sent \in Seq(Packets) /\ packets = <<>> /\ i = 0 /\ Len(Body(sent)) <= ReportSize
  BY DEF WireInv, WireTypeOK, Encode
<1>2. report' \in [1..ReportSize -> Byte]
  BY <1>1, PaddedBody DEF Encode
<1>3. SubSeq(report', 1, 0) = <<>> /\ SubSeq(sent, 1, 0) = <<>> /\ Len(<<>>) = 0
  BY <1>1
<1>4. Len(sent) \in Nat
  BY <1>1
<1>5. WireTypeOK'
  BY <1>1, <1>2 DEF WireInv, WireTypeOK, Encode
<1>6. Body(packets)' = SubSeq(report, 1, i)'
  BY <1>1, <1>3, BodyNone DEF Encode
<1>7. /\ Len(Body(sent'))  <= ReportSize /\ report' = Padded(Body(sent'))
      /\ Len(packets') <= Len(sent') /\ packets' = SubSeq(sent', 1, Len(packets'))
  BY <1>1, <1>3, <1>4 DEF Encode
<1> QED
  BY <1>2, <1>5, <1>6, <1>7 DEF WireInv, Encode

\* What decode_report cuts out of the report is a packet, and its frame is the
\* bytes it has been cut from.
LEMMA PacketCut ==
  ASSUME WireInv, pc = "decode", HasPacket
  PROVE  LET p == [type |-> report[i + 1], data |-> SubSeq(report, i + 3, End)] IN
         /\ p \in Packets /\ End \in (i + 2)..ReportSize
         /\ Len(p.data) = report[i + 2]
         /\ \A j \in 1..Len(p.data) : p.data[j] = report[i + 2 + j]
         /\ Body(packets) \o Frame(p) = SubSeq(report, 1, End)
<1> DEFINE size == report[i + 2]
           data == SubSeq(report, i + 3, End)
           p == [type |-> report[i + 1], data |-> data]
<1>1. /\ report \in [1..ReportSize -> Byte] /\ i \in Nat /\ i + 1 < ReportSize
      /\ report[i + 1] # 0 /\ ReportSize \in Nat /\ Body(packets) = SubSeq(report, 1, i)
  BY ReportsAssumption DEF WireInv, WireTypeOK, HasPacket
<1>2. size \in Nat /\ report[i + 1] \in Byte \ {0} /\ size \in Byte
  <2>1. i + 1 \in 1..ReportSize /\ i + 2 \in 1..ReportSize
    BY <1>1
  <2> QED
    BY <1>1, <2>1, ByteIsNat
<1>3. End = i + 2 + size /\ End \in (i + 2)..ReportSize
  BY <1>1, <1>2 DEF End, HasPacket
<1>4. data \in Seq(Byte) /\ Len(data) = size /\ \A j \in 1..size : data[j] = report[i + 2 + j]
  <2>1. \A j \in (i + 3)..End : report[j] \in Byte
    BY <1>1, <1>3
  <2> HIDE DEF size
  <2>2. End - (i + 3) + 1 = size /\ (i + 3 <= End <=> 1 <= size)
    BY <1>1, <1>2, <1>3
  <2>3. i + 3 \in Int /\ End \in Int
    BY <1>1, <1>3
  <2>4. /\ data \in Seq(Byte) /\ Len(data) = IF i + 3 <= End THEN End - (i + 3) + 1 ELSE 0
        /\ \A j \in 1..(End - (i + 3) + 1) : data[j] = report[i + 3 + j - 1]
    BY <2>1, <2>3, SubSeqProperties
  <2>5. ASSUME NEW j \in 1..size PROVE data[j] = report[i + 2 + j]
    <3>1. i + 3 + j - 1 = i + 2 + j
      BY <1>1
    <3> QED
      BY <2>2, <2>4, <3>1
  <2> QED
    BY <1>2, <2>2, <2>4, <2>5
<1>5. p \in Packets
  BY <1>2, <1>4 DEF Packets
<1>6. Body(packets) \o Frame(p) = SubSeq(report, 1, End)
  <2> DEFINE before == SubSeq(report, 1, i)
             frame == Frame(p)
             after == SubSeq(report, 1, End)
  <2>1. /\ frame \in Seq(Byte) /\ Len(frame) = 2 + size
        /\ frame[1] = report[i + 1] /\ frame[2] = report[i + 2]
        /\ \A j \in 1..size : frame[2 + j] = report[i + 2 + j]
    <3>1. p.type = report[i + 1] /\ p.data = data /\ size = report[i + 2]
      OBVIOUS
    <3> HIDE DEF p, size, data
    <3> QED
      BY <1>2, <1>4, <1>5, <3>1, FrameParts
  <2>2. /\ before \in Seq(Byte) /\ Len(before) = i
        /\ \A j \in 1..i : before[j] = report[j]
    BY <1>1
  <2>3. /\ after \in Seq(Byte) /\ Len(after) = i + 2 + size
        /\ \A j \in 1..(i + 2 + size) : after[j] = report[j]
    BY <1>1, <1>3
  <2> HIDE DEF before, frame, after, size, data, p
  <2>4. /\ i \in Nat /\ size \in Nat /\ before \in Seq(Byte) /\ frame \in Seq(Byte)
        /\ Len(before) = i /\ Len(frame) = 2 + size
    BY <1>1, <1>2, <2>1, <2>2
  <2>5. /\ before \o frame \in Seq(Byte) /\ Len(before \o frame) = i + 2 + size
        /\ \A j \in 1..(i + 2 + size) :
             (before \o frame)[j] = IF j <= i THEN before[j] ELSE frame[j - i]
    BY <2>4
  <2>6. ASSUME NEW j \in 1..(i + 2 + size) PROVE (before \o frame)[j] = after[j]
    <3>1. after[j] = report[j] /\ i \in Nat /\ size \in Nat
      BY <2>3, <2>4
    <3>2. CASE j <= i
      BY <2>2, <2>5, <3>1, <3>2
    <3>3. CASE j > i
      <4>1. (before \o frame)[j] = frame[j - i] /\ j - i \in 1..(2 + size)
        BY <2>5, <3>1, <3>3
      <4>2. CASE j = i + 1
        <5>1. j - i = 1
          BY <3>1, <4>2
        <5> QED
          BY <2>1, <3>1, <4>1, <4>2, <5>1
      <4>3. CASE j = i + 2
        <5>1. j - i = 2
          BY <3>1, <4>3
        <5> QED
          BY <2>1, <3>1, <4>1, <4>3, <5>1
      <4>4. CASE j > i + 2
        <5>1. j - i - 2 \in 1..size /\ 2 + (j - i - 2) = j - i /\ i + 2 + (j - i - 2) = j
          BY <3>1, <4>1, <4>4
        <5>2. frame[2 + (j - i - 2)] = report[i + 2 + (j - i - 2)]
          BY <2>1, <5>1
        <5> QED
          BY <3>1, <4>1, <5>1, <5>2
      <4>5. j = i + 1 \/ j = i + 2 \/ j > i + 2
        BY <3>1, <3>3
      <4> QED
        BY <4>2, <4>3, <4>4, <4>5
    <3>4. j <= i \/ j > i
      BY <3>1
    <3> QED
      BY <3>2, <3>3, <3>4
  <2>7. before \o frame = after
    BY <2>3, <2>5, <2>6, SeqEqual
  <2> QED
    BY <1>1, <2>7 DEF before, frame, after
<1> QED
  BY <1>3, <1>4, <1>5, <1>6

\* The next packet that was sent is at the position decode_report has come to.
LEMMA NextSent ==
  ASSUME WireInv, pc = "decode", sent # <<>>, Len(packets) < Len(sent)
  PROVE  LET p == sent[Len(packets) + 1] IN
         /\ p \in Packets /\ HasPacket /\ report[i + 1] = p.type /\ report[i + 2] = Len(p.data)
         /\ \A j \in 1..Len(p.data) : report[i + 2 + j] = p.data[j]
<1> DEFINE k == Len(packets)
           p == sent[k + 1]
           data == p.data
           body == Body(sent)
<1>1. /\ sent \in Seq(Packets) /\ packets \in Seq(Packets) /\ packets = SubSeq(sent, 1, k)
      /\ report \in [1..ReportSize -> Byte] /\ i \in 0..ReportSize
      /\ Body(packets) = SubSeq(report, 1, i) /\ Len(body) <= ReportSize
      /\ report = Padded(body) /\ ReportSize \in Nat
  BY ReportsAssumption DEF WireInv, WireTypeOK
<1>2. k \in Nat /\ k < Len(sent) /\ p \in Packets
  BY <1>1
<1>3. Len(Body(SubSeq(sent, 1, k))) = i
  <2>1. Body(SubSeq(sent, 1, k)) = SubSeq(report, 1, i)
    BY <1>1
  <2>2. Len(SubSeq(report, 1, i)) = i
    BY <1>1
  <2> QED
    BY <2>1, <2>2
<1>4. /\ i + 2 + Len(data) <= Len(body) /\ body[i + 1] = p.type /\ body[i + 2] = Len(data)
      /\ \A j \in 1..Len(data) : body[i + 2 + j] = data[j]
  <2> HIDE DEF k
  <2> QED
    BY <1>1, <1>2, <1>3, NextFrame
<1>5. \A j \in 1..Len(body) : report[j] = body[j]
  BY <1>1, PaddedBody
<1>6. p.type # 0 /\ data \in Seq(Byte) /\ Len(data) \in Nat
  BY <1>2, PacketParts
<1>7. Len(body) \in Nat
  BY <1>1, BodyType, LenProperties
<1> HIDE DEF data, body, k
<1>8. /\ report[i + 1] = p.type /\ report[i + 2] = Len(data)
      /\ \A j \in 1..Len(data) : report[i + 2 + j] = data[j]
  <2>1. i + 1 \in 1..Len(body) /\ i + 2 \in 1..Len(body)
    BY <1>1, <1>4, <1>6, <1>7
  <2>2. ASSUME NEW j \in 1..Len(data) PROVE i + 2 + j \in 1..Len(body)
    BY <1>1, <1>4, <1>6, <1>7
  <2> HIDE DEF p
  <2> QED
    BY <1>4, <1>5, <2>1, <2>2
<1>9. HasPacket
  BY <1>1, <1>4, <1>6, <1>7, <1>8 DEF HasPacket, End
<1> QED
  BY <1>2, <1>8, <1>9 DEF data, k

\* Behind the packets that were sent there is padding.
LEMMA NoneLeft ==
  ASSUME WireInv, pc = "decode", sent # <<>>, Len(packets) = Len(sent)
  PROVE  packets = sent /\ ~HasPacket
<1> DEFINE body == Body(sent)
<1>1. /\ sent \in Seq(Packets) /\ packets = SubSeq(sent, 1, Len(sent))
      /\ report \in [1..ReportSize -> Byte] /\ i \in 0..ReportSize
      /\ Body(packets) = SubSeq(report, 1, i) /\ Len(body) <= ReportSize
      /\ report = Padded(body) /\ ReportSize \in Nat
  BY ReportsAssumption DEF WireInv, WireTypeOK
<1>2. packets = sent
  BY <1>1
<1>3. body = SubSeq(report, 1, i)
  BY <1>1, <1>2
<1>4. \A j \in (Len(body) + 1)..ReportSize : report[j] = 0
  BY <1>1, PaddedBody
<1> HIDE DEF body
<1>5. Len(body) = i
  BY <1>1, <1>3
<1>6. i + 1 < ReportSize => report[i + 1] = 0
  BY <1>1, <1>4, <1>5
<1> QED
  BY <1>2, <1>6 DEF HasPacket

LEMMA TakeKeepsWire ==
  ASSUME WireInv, TakePacket
  PROVE  WireInv'
<1> DEFINE p == [type |-> report[i + 1], data |-> SubSeq(report, i + 3, End)]
           k == Len(packets)
<1>1. pc = "decode" /\ HasPacket /\ packets' = Append(packets, p) /\ i' = End
  BY DEF TakePacket
<1>2. /\ p \in Packets /\ End \in (i + 2)..ReportSize /\ Len(p.data) = report[i + 2]
      /\ \A j \in 1..Len(p.data) : p.data[j] = report[i + 2 + j]
      /\ Body(packets) \o Frame(p) = SubSeq(report, 1, End)
  BY <1>1, PacketCut
<1>3. /\ sent \in Seq(Packets) /\ packets \in Seq(Packets) /\ i \in Nat /\ ReportSize \in Nat
      /\ report \in [1..ReportSize -> Byte]
  BY <1>1, ReportsAssumption DEF WireInv, WireTypeOK
<1>4. packets' \in Seq(Packets) /\ i' \in 0..ReportSize
  <2> HIDE DEF p
  <2> QED
    BY <1>1, <1>2, <1>3
<1>5. Body(packets)' = SubSeq(report, 1, i)'
  <2>1. Body(Append(packets, p)) = Body(packets) \o Frame(p)
    <3> HIDE DEF p
    <3> QED
      BY <1>2, <1>3, BodyAppend
  <2> QED
    BY <1>1, <1>2, <2>1 DEF TakePacket
<1>6. ASSUME sent # <<>>
      PROVE  Len(packets') <= Len(sent) /\ packets' = SubSeq(sent, 1, Len(packets'))
  <2>1. k <= Len(sent) /\ packets = SubSeq(sent, 1, k) /\ k \in Nat /\ Len(sent) \in Nat
    BY <1>1, <1>3, <1>6 DEF WireInv
  <2>2. k < Len(sent)
    BY <1>1, <1>6, <2>1, NoneLeft
  <2> DEFINE q == sent[k + 1]
  <2>3. /\ q \in Packets /\ report[i + 1] = q.type /\ report[i + 2] = Len(q.data)
        /\ \A j \in 1..Len(q.data) : report[i + 2 + j] = q.data[j]
    BY <1>1, <1>6, <2>2, NextSent
  <2>4. p = q
    <3>1. p.data \in Seq(Byte) /\ q.data \in Seq(Byte) /\ Len(p.data) = Len(q.data)
      BY <1>2, <2>3, PacketParts
    <3>2. \A j \in 1..Len(p.data) : p.data[j] = q.data[j]
      BY <1>2, <2>3, <3>1
    <3>3. p.data = q.data
      <4> DEFINE a == p.data
                 b == q.data
      <4> HIDE DEF a, b
      <4>1. a = b
        BY <3>1, <3>2, SeqEqual DEF a, b
      <4> QED
        BY <4>1 DEF a, b
    <3>4. p.type = q.type
      BY <2>3
    <3> HIDE DEF p, q
    <3> QED
      BY <1>2, <2>3, <3>3, <3>4 DEF Packets
  <2>5. SubSeq(sent, 1, k + 1) = Append(packets, p)
    <3> HIDE DEF k, p
    <3> QED
      BY <1>3, <2>1, <2>2, <2>4, PrefixGrows
  <2>6. Len(Append(packets, p)) = k + 1
    <3> HIDE DEF p
    <3> QED
      BY <1>2, <1>3
  <2> HIDE DEF p, k
  <2> QED
    BY <1>1, <2>1, <2>2, <2>5, <2>6
<1> HIDE DEF p
<1> QED
  BY <1>1, <1>3, <1>4, <1>5, <1>6 DEF TakePacket, WireInv, WireTypeOK

LEMMA FinishKeepsWire ==
  ASSUME WireInv, Finish
  PROVE  WireInv'
<1>1. pc = "decode" /\ ~HasPacket /\ pc' = "done" /\ UNCHANGED <<to, sent, report, i, packets>>
  BY DEF Finish
<1>2. sent # <<>> => packets = sent
  <2> SUFFICES ASSUME sent # <<>> PROVE packets = sent
    OBVIOUS
  <2>1. Len(packets) <= Len(sent) /\ Len(packets) \in Nat /\ Len(sent) \in Nat
    BY <1>1 DEF WireInv, WireTypeOK
  <2>2. ~(Len(packets) < Len(sent))
    BY <1>1, NextSent
  <2>3. Len(packets) = Len(sent)
    BY <2>1, <2>2
  <2> QED
    BY <1>1, <2>3, NoneLeft
<1> QED
  BY <1>1, <1>2 DEF WireInv, WireTypeOK

\* A step of either loop keeps it.
LEMMA WireStepKeepsWire ==
  ASSUME WireInv, WireStep
  PROVE  WireInv'
BY EncodeKeepsWire, ClearKeepsWire, TakeKeepsWire, FinishKeepsWire DEF WireStep, RefuseTooLong

-----------------------------------------------------------------------------
(***************************************************************************)
(* The byte of MODIFY_SECTION, ui_modify_section.                          *)
(***************************************************************************)
\* The number behind the kind of control: mode and section in one.
OrderByte(section, mode) == At(ModifySection(section, mode).data, 1)

\* It is the sum of the two.
LEMMA OrderByteIsSum ==
  ASSUME NEW section \in Nat, NEW mode
  PROVE  OrderByte(section, mode) = ModeBase(mode) + section
BY DEF OrderByte, At, ModifySection

\* Modes are 16 apart.
LEMMA ModeBases ==
  /\ ModeBase("DISARM") = 143 /\ ModeBase("ARM_AWAY") = 159 /\ ModeBase("ARM_HOME") = 175
BY DEF ModeBase

\* For the 16 sections of a panel no two commands are the same packet, and the
\* byte is a byte: a command can reach no other section and no other mode.
THEOREM OrdersAreDistinct ==
  \A s, t \in 1..16 : \A m, n \in ArmModes :
    /\ OrderByte(s, m) \in Byte
    /\ ModifySection(s, m) = ModifySection(t, n) => s = t /\ m = n
<1> SUFFICES ASSUME NEW s \in 1..16, NEW t \in 1..16, NEW m \in ArmModes, NEW n \in ArmModes
             PROVE  /\ OrderByte(s, m) \in Byte
                    /\ ModifySection(s, m) = ModifySection(t, n) => s = t /\ m = n
  OBVIOUS
<1>1. OrderByte(s, m) = ModeBase(m) + s /\ OrderByte(t, n) = ModeBase(n) + t
  BY OrderByteIsSum
<1>2. OrderByte(s, m) \in Byte
  BY <1>1, ModeBases DEF ArmModes, Byte
<1>3. ASSUME ModifySection(s, m) = ModifySection(t, n) PROVE s = t /\ m = n
  <2>1. ModeBase(m) + s = ModeBase(n) + t
    BY <1>1, <1>3 DEF OrderByte
  <2> QED
    BY <2>1, ModeBases DEF ArmModes
<1> QED
  BY <1>2, <1>3

\* A section 17, which nothing in the code refuses, would share the packet of
\* section 1 in the next mode: disarming it is arming section 1.
THEOREM SeventeenIsOne ==
  /\ OrderByte(17, "DISARM") = OrderByte(1, "ARM_AWAY")
  /\ OrderByte(17, "ARM_AWAY") = OrderByte(1, "ARM_HOME")
BY OrderByteIsSum, ModeBases

-----------------------------------------------------------------------------
(***************************************************************************)
(* Sections.                                                               *)
(***************************************************************************)
\* A section is read from the two bytes of its slot and from nothing else:
\* whatever else two reports say, of other sections or in their length, they
\* list the section alike if they have its slot and agree on it.
THEOREM SectionsAreIndependent ==
  ASSUME NEW a \in Seq(Byte), NEW b \in Seq(Byte), NEW n \in Nat \ {0},
         n <= Len(a) \div 2, n <= Len(b) \div 2,
         At(a, 2 * n - 2) = At(b, 2 * n - 2), At(a, 2 * n - 1) = At(b, 2 * n - 1)
  PROVE  /\ n \in DOMAIN DecodeSections(a) <=> n \in DOMAIN DecodeSections(b)
         /\ n \in DOMAIN DecodeSections(a) => DecodeSections(a)[n] = DecodeSections(b)[n]
<1> DEFINE Held(data) == {k \in 0..(Len(data) \div 2 - 1) :
                             PrimaryState(At(data, 2 * k)) \notin {"UNSET", "OFF"}}
           Listed(data) == {k + 1 : k \in Held(data)}
<1>1. ASSUME NEW data \in Seq(Byte), n <= Len(data) \div 2
      PROVE  n \in Listed(data) <=> PrimaryState(At(data, 2 * n - 2)) \notin {"UNSET", "OFF"}
  <2>1. n - 1 \in 0..(Len(data) \div 2 - 1) /\ 2 * (n - 1) = 2 * n - 2 /\ (n - 1) + 1 = n
    BY <1>1
  <2>2. n \in Listed(data) <=> n - 1 \in Held(data)
    BY <2>1
  <2> QED
    BY <2>1, <2>2
<1>2. ASSUME NEW data \in Seq(Byte)
      PROVE  /\ DOMAIN DecodeSections(data) = Listed(data)
             /\ n \in Listed(data) => DecodeSections(data)[n] =
                  [primary |-> PrimaryState(At(data, 2 * n - 2)),
                   secondary |-> SecondaryState(At(data, 2 * n - 2)),
                   flags |-> At(data, 2 * n - 1)]
  BY DEF DecodeSections
<1> QED
  BY <1>1, <1>2

-----------------------------------------------------------------------------
(***************************************************************************)
(* Device status.                                                          *)
(***************************************************************************)
Percent == 0..100

\* Percentages of any byte.
LEMMA Percentages ==
  ASSUME NEW b \in Byte
  PROVE  Signal(b) \in Percent /\ Battery(b) \in Percent \cup {None}
BY DEF Signal, Battery, Least, Percent, Byte

\* The search for a marker ends at its first place behind the device number.
LEMMA FoundFirst ==
  ASSUME NEW data \in Seq(Byte), NEW marker \in Byte
  PROVE  LET place == Find(data, marker) IN
         \/ place = None /\ \A k \in 2..(Len(data) - 1) : At(data, k) # marker
         \/ /\ place \in 2..(Len(data) - 1) /\ At(data, place) = marker
            /\ \A k \in 2..(place - 1) : At(data, k) # marker
<1> DEFINE places == {k \in 2..(Len(data) - 1) : At(data, k) = marker}
<1>1. CASE places = {}
  BY <1>1 DEF Find
<1>2. CASE places # {}
  <2>1. \E k \in places : \A j \in places : k <= j
    <3>1. places \subseteq Nat
      OBVIOUS
    <3> HIDE DEF places
    <3> QED
      BY <1>2, <3>1, LeastOf
  <2>2. Find(data, marker) = CHOOSE k \in places : \A j \in places : k <= j
    BY <1>2 DEF Find
  <2>3. Find(data, marker) \in places /\ \A j \in places : Find(data, marker) <= j
    <3> HIDE DEF places
    <3> QED
      BY <2>1, <2>2
  <2>4. ASSUME NEW k \in 2..(Find(data, marker) - 1) PROVE At(data, k) # marker
    BY <2>3
  <2> QED
    BY <2>3, <2>4
<1> QED
  BY <1>1, <1>2

\* Whatever bytes a device status has, and wherever the markers are found in
\* it, the answer is that of the device it names, what is shown of it is a
\* percentage or nothing, and a device that sends no wireless marker has
\* neither value, so it gets no sensor from its status.
THEOREM StatusIsSound ==
  ASSUME NEW data \in Seq(Byte), DecodeDeviceStatus(data) # Malformed
  PROVE  LET answer == DecodeDeviceStatus(data) IN
         /\ answer.device = At(data, 1)
         /\ answer.signal \in Percent \cup {None} /\ answer.battery \in Percent \cup {None}
         /\ (\A k \in 2..(Len(data) - 1) : At(data, k) # 252) =>
              answer.signal = None /\ answer.battery = None
<1> DEFINE fc == Find(data, 252)
<1>1. CASE fc > 0 /\ Len(data) > fc + 2
  <2>1. fc \in 2..(Len(data) - 1) /\ At(data, fc) = 252
    BY <1>1, FoundFirst DEF Byte, None
  <2>2. At(data, fc + 1) \in Byte /\ At(data, fc + 2) \in Byte
    BY <1>1, <2>1 DEF At
  <2>3. Signal(At(data, fc + 1)) \in Percent /\ Battery(At(data, fc + 2)) \in Percent \cup {None}
    BY <2>2, Percentages
  <2>4. \E does : DecodeDeviceStatus(data) =
          Status(data, Signal(At(data, fc + 1)), Battery(At(data, fc + 2)), does)
    BY <1>1, ZenonT(30) DEF DecodeDeviceStatus
  <2> QED
    BY <2>1, <2>3, <2>4 DEF Status
<1>2. CASE ~(fc > 0 /\ Len(data) > fc + 2)
  <2>1. \E does : DecodeDeviceStatus(data) = Status(data, None, None, does)
    BY <1>2 DEF DecodeDeviceStatus
  <2> QED
    BY <2>1 DEF Status
<1> QED
  BY <1>1, <1>2

-----------------------------------------------------------------------------
(***************************************************************************)
(* What the decoders read of the section states.                           *)
(***************************************************************************)
\* The last of some positions is one of them, and so is the first.
LEMMA MaxMinOf ==
  ASSUME NEW n \in Nat, NEW S, S \subseteq 1..n, S # {}
  PROVE  Max(S) \in S /\ Min(S) \in S
<1>1. \E k \in S : \A j \in S : k <= j
  <2>1. S \subseteq Nat
    OBVIOUS
  <2> QED
    BY <2>1, LeastOf
<1>2. \E k \in S : \A j \in S : k >= j
  <2> DEFINE T == {m \in Nat : \E k \in S : m = n - k}
  <2>1. PICK k \in S : TRUE
    OBVIOUS
  <2>2. n - k \in T
    OBVIOUS
  <2>3. PICK m \in T : \A j \in T : m <= j
    <3> HIDE DEF T
    <3>1. T \subseteq Nat
      BY DEF T
    <3> QED
      BY <2>2, <3>1, LeastOf
  <2>4. PICK l \in S : m = n - l
    OBVIOUS
  <2>5. ASSUME NEW j \in S PROVE l >= j
    <3>1. n - j \in T
      OBVIOUS
    <3>2. m <= n - j
      BY <2>3, <3>1
    <3> QED
      BY <2>4, <3>2
  <2> QED
    BY <2>5
<1> QED
  BY <1>1, <1>2 DEF Max, Min

\* The powers of two that are looked at.
LEMMA Powers ==
  2^0 = 1 /\ 2^1 = 2 /\ 2^2 = 4 /\ 2^3 = 8 /\ 2^4 = 16 /\ 2^5 = 32 /\ 2^6 = 64 /\ 2^7 = 128
OBVIOUS

\* The bits of a state byte that are looked at.
LEMMA FlagBits ==
  ASSUME NEW b
  PROVE  /\ Bit(b, 3) <=> (b \div 8) % 2 = 1
         /\ Bit(b, 4) <=> (b \div 16) % 2 = 1
         /\ Bit(b, 6) <=> (b \div 64) % 2 = 1
         /\ Bit(b, 7) <=> (b \div 128) % 2 = 1
BY Powers DEF Bit

\* The states one by one.
LEMMA StatesAre ==
  ASSUME NEW state \in SectionStates
  PROVE  \/ state = Off
         \/ state \in {InMode("DISARMED"), InMode("ARMED_PARTIAL"), InMode("ARMED_FULL"), InMode("SERVICE")}
         \/ state = [mode |-> "ARMED_FULL", flags |-> {"arming"}]
         \/ state = [mode |-> "ARMED_FULL", flags |-> {"pending"}]
         \/ state = [mode |-> "ARMED_FULL", flags |-> {"triggered"}]
         \/ state = [mode |-> "ARMED_FULL", flags |-> {"pending", "triggered"}]
BY DEF SectionStates

\* The low bits of a state byte are its mode.
LEMMA ModeRead ==
  ASSUME NEW mode \in {"OFF", "DISARMED", "ARMED_PARTIAL", "ARMED_FULL", "SERVICE"}
  PROVE  PrimaryState(ModeNumber[mode]) = mode
BY DEF ModeNumber, PrimaryState

\* The byte of each state, and what the integration reads in it.
LEMMA StateRead ==
  ASSUME NEW state \in SectionStates
  PROVE  LET b == StateByte(state)
             section == [primary |-> PrimaryState(b), secondary |-> SecondaryState(b), flags |-> 0] IN
         /\ b \in Byte
         /\ PrimaryState(b) # "UNSET" /\ (PrimaryState(b) = "OFF" <=> state = Off)
         /\ state # Off => AlarmState(section) = Truth(state)
<1> DEFINE b == StateByte(state)
<1>1. CASE state = Off
  <2>1. b = 7
    BY <1>1 DEF StateByte, Off, ModeNumber
  <2>2. PrimaryState(7) = "OFF"
    BY DEF PrimaryState
  <2> QED
    BY <1>1, <2>1, <2>2 DEF Byte
<1>2. CASE state \in {InMode("DISARMED"), InMode("ARMED_PARTIAL"), InMode("ARMED_FULL"), InMode("SERVICE")}
  <2>1. PICK mode \in {"DISARMED", "ARMED_PARTIAL", "ARMED_FULL", "SERVICE"} : state = InMode(mode)
    BY <1>2
  <2>2. b = ModeNumber[mode]
    BY <2>1 DEF StateByte, InMode, ModeNumber
  <2>3. PrimaryState(b) = mode
    BY <2>2, ModeRead
  <2>4. b \in 1..5
    BY <2>2 DEF ModeNumber
  <2>5. ~Bit(b, 3) /\ ~Bit(b, 4) /\ ~Bit(b, 6) /\ ~Bit(b, 7)
    BY <2>4, FlagBits
  <2>6. SecondaryState(b) = "NORMAL"
    BY <2>5 DEF SecondaryState
  <2> HIDE DEF b
  <2>7. state # Off
    BY <2>1 DEF InMode, Off
  <2>8. Truth(state) = [DISARMED |-> "disarmed", SERVICE |-> "disarmed",
                        ARMED_PARTIAL |-> "armed_home", ARMED_FULL |-> "armed_away"][mode]
    BY <2>1 DEF Truth, InMode
  <2> QED
    BY <2>3, <2>4, <2>6, <2>7, <2>8 DEF AlarmState, Byte, b
<1>3. CASE state = [mode |-> "ARMED_FULL", flags |-> {"arming"}]
  <2>1. b = 131
    BY <1>3 DEF StateByte, ModeNumber
  <2>2. ~Bit(131, 3) /\ ~Bit(131, 4) /\ ~Bit(131, 6) /\ Bit(131, 7)
    BY FlagBits
  <2>3. PrimaryState(131) = "ARMED_FULL" /\ SecondaryState(131) = "ARMING"
    BY <2>2 DEF PrimaryState, SecondaryState
  <2>4. Truth(state) = "arming" /\ state # Off
    BY <1>3 DEF Truth, Off
  <2> HIDE DEF b
  <2> QED
    BY <2>1, <2>3, <2>4 DEF AlarmState, Byte, b
<1>4. CASE state = [mode |-> "ARMED_FULL", flags |-> {"pending"}]
  <2>1. b = 67
    BY <1>4 DEF StateByte, ModeNumber
  <2>2. ~Bit(67, 3) /\ ~Bit(67, 4) /\ Bit(67, 6) /\ ~Bit(67, 7)
    BY FlagBits
  <2>3. PrimaryState(67) = "ARMED_FULL" /\ SecondaryState(67) = "PENDING"
    BY <2>2 DEF PrimaryState, SecondaryState
  <2>4. Truth(state) = "pending" /\ state # Off
    BY <1>4 DEF Truth, Off
  <2> HIDE DEF b
  <2> QED
    BY <2>1, <2>3, <2>4 DEF AlarmState, Byte, b
<1>5. CASE state = [mode |-> "ARMED_FULL", flags |-> {"triggered"}]
  <2>1. b = 27
    BY <1>5 DEF StateByte, ModeNumber
  <2>2. Bit(27, 3) /\ Bit(27, 4) /\ ~Bit(27, 6) /\ ~Bit(27, 7)
    BY FlagBits
  <2>3. PrimaryState(27) = "ARMED_FULL" /\ SecondaryState(27) = "TRIGGERED"
    BY <2>2 DEF PrimaryState, SecondaryState
  <2>4. Truth(state) = "triggered" /\ state # Off
    BY <1>5 DEF Truth, Off
  <2> HIDE DEF b
  <2> QED
    BY <2>1, <2>3, <2>4 DEF AlarmState, Byte, b
<1>6. CASE state = [mode |-> "ARMED_FULL", flags |-> {"pending", "triggered"}]
  <2>1. b = 91
    BY <1>6 DEF StateByte, ModeNumber
  <2>2. Bit(91, 3) /\ Bit(91, 4) /\ Bit(91, 6) /\ ~Bit(91, 7)
    BY FlagBits
  <2>3. PrimaryState(91) = "ARMED_FULL" /\ SecondaryState(91) = "TRIGGERED"
    BY <2>2 DEF PrimaryState, SecondaryState
  <2>4. Truth(state) = "triggered" /\ state # Off
    BY <1>6 DEF Truth, Off
  <2> HIDE DEF b
  <2> QED
    BY <2>1, <2>3, <2>4 DEF AlarmState, Byte, b
<1> QED
  BY <1>1, <1>2, <1>3, <1>4, <1>5, <1>6, StatesAre

\* The bytes of the section states.
LEMMA SectionsBytes ==
  ASSUME NEW state \in [Slots -> SectionStates]
  PROVE  LET data == SectionsPacket(state).data IN
         /\ SectionsPacket(state).type = SECTIONS
         /\ data \in Seq(Byte) /\ Len(data) = 34 /\ At(data, 32) = 0
         /\ \A n \in Slots : At(data, 2 * n - 2) = StateByte(state[n])
         /\ \A n \in Slots : At(data, 2 * n - 1) = 0
<1> DEFINE byte(b) == CASE b <= 32 /\ b % 2 = 1 -> StateByte(state[(b + 1) \div 2])
                        [] b = 34 -> 148
                        [] OTHER -> 0
           data == [b \in 1..34 |-> byte(b)]
<1>1. SectionsPacket(state).data = data /\ SectionsPacket(state).type = SECTIONS
  BY DEF SectionsPacket
<1>2. ASSUME NEW n \in Slots
      PROVE  At(data, 2 * n - 2) = StateByte(state[n]) /\ At(data, 2 * n - 1) = 0
  <2> DEFINE b == 2 * n - 1
  <2>1. b \in 1..34 /\ b <= 32 /\ b % 2 = 1 /\ (b + 1) \div 2 = n
    BY DEF Slots
  <2>2. b + 1 \in 1..34 /\ (b + 1) % 2 = 0 /\ b + 1 # 34
    BY DEF Slots
  <2>3. byte(b) = StateByte(state[n])
    <3> HIDE DEF b
    <3> QED
      BY <2>1
  <2>4. byte(b + 1) = 0
    <3> HIDE DEF b
    <3> QED
      BY <2>2
  <2>5. At(data, 2 * n - 2) = byte(b) /\ At(data, 2 * n - 1) = byte(b + 1)
    <3>1. 2 * n - 2 + 1 = b /\ 2 * n - 1 + 1 = b + 1
      BY DEF Slots
    <3> HIDE DEF byte, b
    <3> QED
      BY <2>1, <2>2, <3>1 DEF At
  <2> QED
    BY <2>3, <2>4, <2>5
<1>3. ASSUME NEW b \in 1..34 PROVE byte(b) \in Byte
  <2>1. CASE b <= 32 /\ b % 2 = 1
    <3>1. (b + 1) \div 2 \in Slots
      BY <2>1 DEF Slots
    <3>2. StateByte(state[(b + 1) \div 2]) \in Byte
      BY <3>1, StateRead
    <3> QED
      BY <2>1, <3>2
  <2>2. CASE ~(b <= 32 /\ b % 2 = 1)
    BY <2>2 DEF Byte
  <2> QED
    BY <2>1, <2>2
<1>4. data \in Seq(Byte) /\ Len(data) = 34
  <2> HIDE DEF byte
  <2> QED
    BY <1>3
<1>5. At(data, 32) = 0
  <2>1. byte(33) = 0
    OBVIOUS
  <2> HIDE DEF byte
  <2> QED
    BY <2>1 DEF At
<1> HIDE DEF data
<1> QED
  BY <1>1, <1>2, <1>4, <1>5

\* The sections in use are those listed, each with its own state.
LEMMA SectionsRead ==
  ASSUME NEW state \in [Slots -> SectionStates]
  PROVE  LET read == DecodeSections(SectionsPacket(state).data) IN
         /\ DOMAIN read = {n \in Slots : state[n] # Off}
         /\ \A n \in DOMAIN read : AlarmState(read[n]) = Truth(state[n])
<1> DEFINE data == SectionsPacket(state).data
           held == {k \in 0..(Len(data) \div 2 - 1) :
                      PrimaryState(At(data, 2 * k)) \notin {"UNSET", "OFF"}}
           read == DecodeSections(data)
<1>1. Len(data) = 34 /\ At(data, 32) = 0
  BY SectionsBytes
<1>2. \A n \in Slots : At(data, 2 * n - 2) = StateByte(state[n]) /\ At(data, 2 * n - 1) = 0
  BY SectionsBytes
<1>3. DOMAIN read = {k + 1 : k \in held}
  BY DEF DecodeSections
<1>4. ASSUME NEW n \in DOMAIN read
      PROVE  read[n] = [primary |-> PrimaryState(At(data, 2 * n - 2)),
                        secondary |-> SecondaryState(At(data, 2 * n - 2)),
                        flags |-> At(data, 2 * n - 1)]
  BY <1>4 DEF DecodeSections
<1> HIDE DEF data, read
<1>5. Len(data) \div 2 - 1 = 16
  BY <1>1
<1>6. PrimaryState(0) = "UNSET"
  BY DEF PrimaryState
<1>7. ASSUME NEW k \in held PROVE k + 1 \in Slots /\ state[k + 1] # Off
  <2>1. k \in 0..16 /\ PrimaryState(At(data, 2 * k)) \notin {"UNSET", "OFF"}
    BY <1>5
  <2>2. k # 16
    BY <1>1, <1>6, <2>1
  <2>3. k + 1 \in Slots /\ 2 * (k + 1) - 2 = 2 * k
    BY <2>1, <2>2 DEF Slots
  <2>4. At(data, 2 * k) = StateByte(state[k + 1]) /\ state[k + 1] \in SectionStates
    BY <1>2, <2>3
  <2> QED
    BY <2>1, <2>3, <2>4, StateRead
<1>8. ASSUME NEW n \in Slots, state[n] # Off PROVE n - 1 \in held /\ (n - 1) + 1 = n
  <2>1. n - 1 \in 0..16 /\ 2 * (n - 1) = 2 * n - 2 /\ (n - 1) + 1 = n
    BY DEF Slots
  <2>2. PrimaryState(StateByte(state[n])) \notin {"UNSET", "OFF"}
    BY <1>8, StateRead
  <2> QED
    BY <1>2, <1>5, <2>1, <2>2
<1>9. DOMAIN read = {n \in Slots : state[n] # Off}
  <2> HIDE DEF held
  <2> QED
    BY <1>3, <1>7, <1>8
<1>10. ASSUME NEW n \in DOMAIN read PROVE AlarmState(read[n]) = Truth(state[n])
  <2>1. n \in Slots /\ state[n] # Off /\ state[n] \in SectionStates
    BY <1>9
  <2> QED
    BY <1>2, <1>4, <2>1, StateRead
<1> QED
  BY <1>9, <1>10 DEF read, data

-----------------------------------------------------------------------------
(***************************************************************************)
(* What they read of the devices' activity and of the system's texts.      *)
(***************************************************************************)
\* A byte of any bits.
LEMMA ByteOf ==
  ASSUME NEW up
  PROVE  \E byte \in Byte : \A k \in 0..7 : Bit(byte, k) <=> k \in up
<1> DEFINE d(k) == IF k \in up THEN 1 ELSE 0
           byte == d(0) + 2 * d(1) + 4 * d(2) + 8 * d(3) + 16 * d(4) + 32 * d(5) + 64 * d(6) + 128 * d(7)
<1>1. \A k \in 0..7 : d(k) \in 0..1 /\ (d(k) = 1 <=> k \in up)
  OBVIOUS
<1> HIDE DEF d
<1>2. byte \in Byte
  BY <1>1 DEF Byte
<1>3. ASSUME NEW k \in 0..7 PROVE (byte \div 2^k) % 2 = d(k)
  <2>1. byte % 2 = d(0) /\ (byte \div 2) % 2 = d(1)
    BY <1>1
  <2>2. (byte \div 4) % 2 = d(2) /\ (byte \div 8) % 2 = d(3)
    BY <1>1
  <2>3. (byte \div 16) % 2 = d(4) /\ (byte \div 32) % 2 = d(5)
    BY <1>1
  <2>4. (byte \div 64) % 2 = d(6) /\ (byte \div 128) % 2 = d(7)
    BY <1>1
  <2>5. byte \div 1 = byte /\ byte \in Nat
    BY <1>2 DEF Byte
  <2> HIDE DEF byte
  <2>6. CASE k = 0
    <3>1. 2^k = 1
      BY <2>6, Powers
    <3> QED
      BY <2>1, <2>2, <2>3, <2>4, <2>5, <2>6, <3>1
  <2>7. CASE k = 1
    <3>1. 2^k = 2
      BY <2>7, Powers
    <3> QED
      BY <2>1, <2>2, <2>3, <2>4, <2>5, <2>7, <3>1
  <2>8. CASE k = 2
    <3>1. 2^k = 4
      BY <2>8, Powers
    <3> QED
      BY <2>1, <2>2, <2>3, <2>4, <2>5, <2>8, <3>1
  <2>9. CASE k = 3
    <3>1. 2^k = 8
      BY <2>9, Powers
    <3> QED
      BY <2>1, <2>2, <2>3, <2>4, <2>5, <2>9, <3>1
  <2>10. CASE k = 4
    <3>1. 2^k = 16
      BY <2>10, Powers
    <3> QED
      BY <2>1, <2>2, <2>3, <2>4, <2>5, <2>10, <3>1
  <2>11. CASE k = 5
    <3>1. 2^k = 32
      BY <2>11, Powers
    <3> QED
      BY <2>1, <2>2, <2>3, <2>4, <2>5, <2>11, <3>1
  <2>12. CASE k = 6
    <3>1. 2^k = 64
      BY <2>12, Powers
    <3> QED
      BY <2>1, <2>2, <2>3, <2>4, <2>5, <2>12, <3>1
  <2>13. CASE k = 7
    <3>1. 2^k = 128
      BY <2>13, Powers
    <3> QED
      BY <2>1, <2>2, <2>3, <2>4, <2>5, <2>13, <3>1
  <2> QED
    BY <2>6, <2>7, <2>8, <2>9, <2>10, <2>11, <2>12, <2>13
<1>4. ASSUME NEW k \in 0..7 PROVE Bit(byte, k) <=> k \in up
  BY <1>1, <1>3, <1>4 DEF Bit
<1> QED
  BY <1>2, <1>4

\* The bitmap of the active devices is read as they are.
LEMMA ActivityRead ==
  ASSUME NEW on, on \subseteq 1..31
  PROVE  LET p == ActivityPacket(on) IN
         /\ p.type = DEVICES_STATES /\ p.data \in Seq(Byte) /\ Len(p.data) = 5
         /\ DecodeDevicesStates(p.data) = on
<1> DEFINE bits(b) == CHOOSE byte \in Byte : \A k \in 0..7 : Bit(byte, k) <=> 8 * b + k \in on
           bitmap == [b \in 1..4 |-> bits(b - 1)]
           skipped == <<4>>
           data == skipped \o bitmap
<1>1. ActivityPacket(on).type = DEVICES_STATES /\ ActivityPacket(on).data = data
  BY DEF ActivityPacket
<1>2. ASSUME NEW b \in 0..3 PROVE bits(b) \in Byte /\ \A k \in 0..7 : Bit(bits(b), k) <=> 8 * b + k \in on
  <2> DEFINE up == {k \in 0..7 : 8 * b + k \in on}
  <2>1. \E byte \in Byte : \A k \in 0..7 : Bit(byte, k) <=> k \in up
    <3> HIDE DEF up
    <3> QED
      BY ByteOf
  <2>2. \E byte \in Byte : \A k \in 0..7 : Bit(byte, k) <=> 8 * b + k \in on
    BY <2>1
  <2> QED
    BY <2>2
<1> HIDE DEF bits
<1>3. bitmap \in Seq(Byte) /\ skipped \in Seq(Byte)
  BY <1>2 DEF Byte
<1>4. Len(bitmap) = 4 /\ Len(skipped) = 1 /\ \A b \in 1..4 : bitmap[b] = bits(b - 1)
  OBVIOUS
<1>5. data \in Seq(Byte) /\ Len(data) = 5 /\ \A b \in 1..4 : data[1 + b] = bits(b - 1)
  <2> HIDE DEF bitmap, skipped
  <2>1. /\ data \in Seq(Byte) /\ Len(data) = Len(skipped) + Len(bitmap)
        /\ \A b \in 1..Len(bitmap) : data[Len(skipped) + b] = bitmap[b]
    BY <1>3, Joined
  <2> QED
    BY <1>4, <2>1
<1>6. DecodeDevicesStates(data) = {n \in 1..31 : Bit(At(data, 1 + n \div 8), n % 8)}
  <2> HIDE DEF data
  <2> QED
    BY <1>5 DEF DecodeDevicesStates
<1>7. ASSUME NEW n \in 1..31 PROVE Bit(At(data, 1 + n \div 8), n % 8) <=> n \in on
  <2>1. n \div 8 \in 0..3 /\ n % 8 \in 0..7 /\ 8 * (n \div 8) + (n % 8) = n
    OBVIOUS
  <2>2. (n \div 8) + 1 \in 1..4 /\ 1 + n \div 8 + 1 = 1 + (n \div 8 + 1) /\ (n \div 8) + 1 - 1 = n \div 8
    BY <2>1
  <2>3. At(data, 1 + n \div 8) = bits(n \div 8)
    <3> HIDE DEF data
    <3> QED
      BY <1>5, <2>2 DEF At
  <2> QED
    BY <1>2, <2>1, <2>3
<1>8. {n \in 1..31 : Bit(At(data, 1 + n \div 8), n % 8)} = on
  <2> HIDE DEF data
  <2> QED
    BY <1>7
<1> QED
  BY <1>1, <1>5, <1>6, <1>8

\* A text behind its kind and before its zeros.
LEMMA TextParts ==
  ASSUME NEW k \in Byte, NEW t \in Seq(Byte)
  PROVE  LET data == <<k>> \o t \o <<0, 0>>
             text == Tail(data) IN
         /\ data \in Seq(Byte) /\ Len(data) = Len(t) + 3 /\ data[1] = k
         /\ text \in Seq(Byte) /\ Len(text) = Len(t) + 2 /\ text[Len(t) + 1] = 0
         /\ SubSeq(text, 1, Len(t)) = t
<1> DEFINE head == <<k>>
           zeros == <<0, 0>>
           data == head \o t \o zeros
           text == Tail(data)
<1>1. head \in Seq(Byte) /\ zeros \in Seq(Byte)
  BY DEF Byte
<1>2. Len(head) = 1 /\ head[1] = k /\ Len(zeros) = 2 /\ zeros[1] = 0
  OBVIOUS
<1> HIDE DEF head, zeros
<1>3. /\ head \o t \in Seq(Byte) /\ Len(head \o t) = Len(head) + Len(t)
      /\ \A j \in 1..Len(head) : (head \o t)[j] = head[j]
      /\ \A j \in 1..Len(t) : (head \o t)[Len(head) + j] = t[j]
  BY <1>1, Joined
<1>4. /\ data \in Seq(Byte) /\ Len(data) = Len(head \o t) + Len(zeros)
      /\ \A j \in 1..Len(head \o t) : data[j] = (head \o t)[j]
      /\ \A j \in 1..Len(zeros) : data[Len(head \o t) + j] = zeros[j]
  BY <1>1, <1>3, Joined
<1>5. Len(t) \in Nat
  OBVIOUS
<1>6. Len(data) = Len(t) + 3 /\ data[1] = k /\ data[Len(t) + 2] = 0
  BY <1>2, <1>3, <1>4, <1>5
<1>7. ASSUME NEW j \in 1..Len(t) PROVE data[j + 1] = t[j]
  BY <1>2, <1>3, <1>4, <1>5
<1> HIDE DEF data
<1>8. data # <<>>
  BY <1>5, <1>6
<1>9. text \in Seq(Byte) /\ Len(text) = Len(data) - 1 /\ \A j \in 1..Len(text) : text[j] = data[j + 1]
  BY <1>4, <1>8
<1>10. Len(text) = Len(t) + 2
  BY <1>5, <1>6, <1>9
<1>11. text[Len(t) + 1] = 0
  BY <1>5, <1>6, <1>9, <1>10
<1> HIDE DEF text
<1>12. SubSeq(text, 1, Len(t)) \in Seq(Byte) /\ Len(SubSeq(text, 1, Len(t))) = Len(t)
  BY <1>5, <1>9, <1>10
<1>13. ASSUME NEW j \in 1..Len(t) PROVE SubSeq(text, 1, Len(t))[j] = t[j]
  <2>1. SubSeq(text, 1, Len(t))[j] = text[j]
    BY <1>5, <1>9, <1>10
  <2>2. text[j] = data[j + 1]
    BY <1>5, <1>9, <1>10
  <2> QED
    BY <1>7, <2>1, <2>2
<1>14. SubSeq(text, 1, Len(t)) = t
  BY <1>12, <1>13, SeqEqual
<1> QED
  BY <1>4, <1>6, <1>9, <1>10, <1>11, <1>14 DEF data, text, head, zeros

\* The texts are read as the panel has them.
LEMMA SystemInfoRead ==
  ASSUME NEW k \in {MODEL, MAC}
  PROVE  LET p == SysInfoPacket(k) IN
         /\ p.type = SYS_INFO /\ p.data \in Seq(Byte) /\ Len(p.data) = IF k = MODEL THEN 5 ELSE 9
         /\ DecodeSystemInfo(p.data) = [kind |-> k, value |-> SystemTexts[k]]
         /\ DecodeSystemInfo(p.data) # Malformed
<1> DEFINE t == SystemTexts[k]
           data == <<k>> \o t \o <<0, 0>>
           text == Tail(data)
           ends(n) == /\ n = Len(text) \/ text[n + 1] = 0
                      /\ \A j \in 1..n : text[j] # 0
           size == CHOOSE n \in 0..Len(text) : ends(n)
<1>1. SysInfoPacket(k).type = SYS_INFO /\ SysInfoPacket(k).data = data
  BY DEF SysInfoPacket
<1>2. k \in Byte /\ k \in SysInfoTypes /\ MODEL # MAC
  BY DEF MODEL, MAC, SysInfoTypes, Byte
<1>3. t = IF k = MODEL THEN <<74, 65>> ELSE <<0, 27, 7, 0, 0, 9>>
  BY <1>2 DEF SystemTexts
<1>4. t \in Seq(Byte) /\ Len(t) = IF k = MODEL THEN 2 ELSE 6
  <2>1. CASE k = MODEL
    BY <1>3, <2>1 DEF Byte
  <2>2. CASE k # MODEL
    BY <1>3, <2>2 DEF Byte
  <2> QED
    BY <2>1, <2>2
<1>5. k = MODEL => t[1] # 0 /\ t[2] # 0
  BY <1>3
<1> HIDE DEF t
<1>6. /\ data \in Seq(Byte) /\ Len(data) = Len(t) + 3 /\ data[1] = k
      /\ text \in Seq(Byte) /\ Len(text) = Len(t) + 2 /\ text[Len(t) + 1] = 0
      /\ SubSeq(text, 1, Len(t)) = t
  BY <1>2, <1>4, TextParts
<1> HIDE DEF data
<1>7. DecodeSystemInfo(data) =
        [kind |-> k, value |-> SubSeq(text, 1, IF k = MAC THEN Least(6, Len(text)) ELSE size)]
  <2>1. DecodeSystemInfo(data) =
          IF data = <<>> \/ data[1] \notin SysInfoTypes THEN Malformed
          ELSE [kind |-> data[1],
                value |-> SubSeq(text, 1, IF data[1] = MAC THEN Least(6, Len(text)) ELSE size)]
    BY Zenon DEF DecodeSystemInfo
  <2>2. data # <<>>
    BY <1>4, <1>6
  <2> HIDE DEF size, text
  <2> QED
    BY <1>2, <1>6, <2>1, <2>2
<1> HIDE DEF text
<1>8. ASSUME k = MAC PROVE DecodeSystemInfo(data) = [kind |-> k, value |-> t]
  <2>1. Least(6, Len(text)) = 6 /\ Len(t) = 6
    BY <1>2, <1>4, <1>6, <1>8 DEF Least
  <2> QED
    BY <1>6, <1>7, <1>8, <2>1
<1>9. ASSUME k = MODEL PROVE DecodeSystemInfo(data) = [kind |-> k, value |-> t]
  <2>1. Len(t) = 2 /\ Len(text) = 4 /\ text[3] = 0
    BY <1>4, <1>6, <1>9
  <2>2. text[1] # 0 /\ text[2] # 0
    <3>1. SubSeq(text, 1, 2) = t
      BY <1>6, <2>1
    <3>2. SubSeq(text, 1, 2)[1] = text[1] /\ SubSeq(text, 1, 2)[2] = text[2]
      BY <1>6, <2>1
    <3> QED
      BY <1>5, <1>9, <3>1, <3>2
  <2>3. ends(2)
    BY <2>1, <2>2
  <2>4. ASSUME NEW n \in 0..4, ends(n) PROVE n = 2
    <3>1. n # 0 /\ n # 1
      BY <2>1, <2>2, <2>4
    <3>2. n # 3 /\ n # 4
      BY <2>1, <2>4
    <3> QED
      BY <3>1, <3>2
  <2>5. size = 2
    <3>1. \E n \in 0..Len(text) : ends(n)
      BY <2>1, <2>3
    <3>2. size \in 0..4 /\ ends(size)
      <4> HIDE DEF ends
      <4> QED
        BY <2>1, <3>1
    <3> HIDE DEF size
    <3> QED
      BY <2>4, <3>2
  <2> QED
    BY <1>2, <1>6, <1>7, <1>9, <2>1, <2>5
<1>10. DecodeSystemInfo(data) = [kind |-> k, value |-> t]
  BY <1>8, <1>9
<1>11. [kind |-> k, value |-> t] # Malformed
  BY DEF Malformed
<1>12. Len(data) = IF k = MODEL THEN 5 ELSE 9
  BY <1>4, <1>6
<1> HIDE DEF Malformed
<1> QED
  BY <1>1, <1>6, <1>10, <1>11, <1>12 DEF t

-----------------------------------------------------------------------------
(***************************************************************************)
(* The packets the panel makes of it, and their length in a report.        *)
(***************************************************************************)
\* A packet more in a report.
LEMMA OneMore ==
  ASSUME NEW ps \in Seq(Packets), NEW p \in Packets
  PROVE  /\ ps \o <<p>> \in Seq(Packets)
         /\ Range(ps \o <<p>>) = Range(ps) \cup {p}
         /\ Len(Body(ps \o <<p>>)) = Len(Body(ps)) + 2 + Len(p.data)
<1> DEFINE one == <<p>>
           more == ps \o one
<1>1. one \in Seq(Packets)
  OBVIOUS
<1>2. more = Append(ps, p)
  OBVIOUS
<1>3. more \in Seq(Packets) /\ Len(more) = Len(ps) + 1 /\ Len(ps) \in Nat
  BY <1>2
<1>4. more[Len(ps) + 1] = p /\ \A j \in 1..Len(ps) : more[j] = ps[j]
  BY <1>2
<1>5. Len(Body(more)) = Len(Body(ps)) + 2 + Len(p.data)
  BY <1>2, BodyAppend
<1> HIDE DEF more
<1>6. DOMAIN more = 1..(Len(ps) + 1) /\ DOMAIN ps = 1..Len(ps)
  BY <1>3
<1>7. Range(more) = Range(ps) \cup {p}
  <2>1. ASSUME NEW x \in Range(more) PROVE x \in Range(ps) \cup {p}
    <3>1. PICK k \in 1..(Len(ps) + 1) : x = more[k]
      BY <1>6 DEF Range
    <3>2. k = Len(ps) + 1 \/ k \in 1..Len(ps)
      BY <1>3
    <3> QED
      BY <1>4, <1>6, <3>1, <3>2 DEF Range
  <2>2. ASSUME NEW x \in Range(ps) PROVE x \in Range(more)
    <3>1. PICK k \in 1..Len(ps) : x = ps[k]
      BY <1>6 DEF Range
    <3>2. k \in 1..(Len(ps) + 1)
      BY <1>3
    <3> QED
      BY <1>4, <1>6, <3>1, <3>2 DEF Range
  <2>3. p \in Range(more)
    BY <1>3, <1>4, <1>6 DEF Range
  <2> QED
    BY <2>1, <2>2, <2>3
<1> QED
  BY <1>3, <1>5, <1>7 DEF more

\* Sequences of none, one and two packets, and the bytes they take.
LEMMA NonePackets ==
  <<>> \in Seq(Packets) /\ Range(<<>>) = {} /\ Len(Body(<<>>)) = 0
BY BodyNone DEF Range

LEMMA OnePacket ==
  ASSUME NEW p \in Packets
  PROVE  /\ <<p>> \in Seq(Packets) /\ Range(<<p>>) = {p}
         /\ Len(Body(<<p>>)) = 2 + Len(p.data)
<1> DEFINE none == <<>>
           one == none \o <<p>>
           size == Len(p.data)
<1>1. one = <<p>>
  OBVIOUS
<1>2. size \in Nat
  BY PacketParts
<1>3. none \in Seq(Packets) /\ Range(none) = {} /\ Len(Body(none)) = 0
  BY NonePackets
<1> HIDE DEF none
<1>4. one \in Seq(Packets) /\ Range(one) = Range(none) \cup {p} /\ Len(Body(one)) = Len(Body(none)) + 2 + size
  BY <1>3, OneMore
<1> HIDE DEF one, size
<1>5. Len(Body(one)) = 2 + size
  BY <1>2, <1>3, <1>4
<1> QED
  BY <1>1, <1>3, <1>4, <1>5 DEF size

LEMMA PairJoined ==
  ASSUME NEW p, NEW q
  PROVE  <<p>> \o <<q>> = <<p, q>>
<1> DEFINE T == {p, q}
           a == <<p>>
           b == <<q>>
           c == <<p, q>>
<1>1. a \in Seq(T) /\ b \in Seq(T) /\ c \in Seq(T)
  OBVIOUS
<1>2. Len(a) = 1 /\ Len(b) = 1 /\ Len(c) = 2 /\ a[1] = p /\ b[1] = q /\ c[1] = p /\ c[2] = q
  OBVIOUS
<1> HIDE DEF a, b, c, T
<1>3. /\ a \o b \in Seq(T) /\ Len(a \o b) = Len(a) + Len(b)
      /\ \A j \in 1..Len(a) : (a \o b)[j] = a[j]
      /\ \A j \in 1..Len(b) : (a \o b)[Len(a) + j] = b[j]
  BY <1>1, Joined
<1>4. Len(a \o b) = 2 /\ (a \o b)[1] = p /\ (a \o b)[2] = q
  BY <1>2, <1>3
<1>5. \A j \in 1..2 : (a \o b)[j] = c[j]
  BY <1>2, <1>4
<1>6. a \o b = c
  BY <1>1, <1>2, <1>3, <1>4, <1>5, SeqEqual
<1> QED
  BY <1>6 DEF a, b, c

LEMMA TwoPackets ==
  ASSUME NEW p \in Packets, NEW q \in Packets
  PROVE  /\ <<p, q>> \in Seq(Packets) /\ Range(<<p, q>>) = {p, q}
         /\ Len(Body(<<p, q>>)) = 4 + Len(p.data) + Len(q.data)
<1> DEFINE one == <<p>>
           both == one \o <<q>>
           m == Len(p.data)
           n == Len(q.data)
<1>1. both = <<p, q>>
  BY PairJoined
<1>2. m \in Nat /\ n \in Nat
  BY PacketParts
<1>3. one \in Seq(Packets) /\ Range(one) = {p} /\ Len(Body(one)) = 2 + m
  BY OnePacket
<1> HIDE DEF one
<1>4. both \in Seq(Packets) /\ Range(both) = Range(one) \cup {q} /\ Len(Body(both)) = Len(Body(one)) + 2 + n
  BY <1>3, OneMore
<1> HIDE DEF both, m, n
<1>5. Len(Body(both)) = 4 + m + n
  BY <1>2, <1>3, <1>4
<1> QED
  BY <1>1, <1>3, <1>4, <1>5 DEF m, n

\* Packets of the types the panel sends.
LEMMA TypesAre ==
  /\ SYS_INFO = 64 /\ SECTIONS = 81 /\ COMMAND = 82 /\ UI_CONTROL = 128 /\ DEVICE_INFO = 144
  /\ DEVICES_STATES = 216
  /\ \A t \in {SYS_INFO, SECTIONS, COMMAND, UI_CONTROL, DEVICE_INFO, DEVICES_STATES} :
       t \in Byte \ {0}
BY DEF SYS_INFO, SECTIONS, COMMAND, UI_CONTROL, DEVICE_INFO, DEVICES_STATES, Byte

\* The packets the panel has to say, and their sizes.
LEMMA SayingsAre ==
  ASSUME panel \in [Slots -> SectionStates], active \subseteq 1..31
  PROVE  /\ SysInfoPacket(MODEL) \in Packets /\ Len(SysInfoPacket(MODEL).data) = 5
         /\ SysInfoPacket(MAC) \in Packets /\ Len(SysInfoPacket(MAC).data) = 9
         /\ SectionsPacket(panel) \in Packets /\ Len(SectionsPacket(panel).data) = 34
         /\ ActivityPacket(active) \in Packets /\ Len(ActivityPacket(active).data) = 5
<1>1. ASSUME NEW k \in {MODEL, MAC}
      PROVE  SysInfoPacket(k) \in Packets /\ Len(SysInfoPacket(k).data) = IF k = MODEL THEN 5 ELSE 9
  <2>1. SysInfoPacket(k).data \in Seq(Byte) /\ Len(SysInfoPacket(k).data) = IF k = MODEL THEN 5 ELSE 9
    BY SystemInfoRead
  <2>2. SysInfoPacket(k) = [type |-> SYS_INFO, data |-> SysInfoPacket(k).data]
    BY DEF SysInfoPacket
  <2> QED
    BY <2>1, <2>2, TypesAre DEF Packets
<1>2. SectionsPacket(panel) \in Packets /\ Len(SectionsPacket(panel).data) = 34
  <2>1. SectionsPacket(panel).data \in Seq(Byte) /\ Len(SectionsPacket(panel).data) = 34
    BY SectionsBytes
  <2>2. SectionsPacket(panel) = [type |-> SECTIONS, data |-> SectionsPacket(panel).data]
    BY DEF SectionsPacket
  <2> QED
    BY <2>1, <2>2, TypesAre DEF Packets
<1>3. ActivityPacket(active) \in Packets /\ Len(ActivityPacket(active).data) = 5
  <2>1. ActivityPacket(active).data \in Seq(Byte) /\ Len(ActivityPacket(active).data) = 5
    BY ActivityRead
  <2>2. ActivityPacket(active) = [type |-> DEVICES_STATES, data |-> ActivityPacket(active).data]
    BY DEF ActivityPacket
  <2> QED
    BY <2>1, <2>2, TypesAre DEF Packets
<1> QED
  BY <1>1, <1>2, <1>3 DEF MODEL, MAC

\* What is said is in the report, nothing else, and it fits.
LEMMA SaidParts ==
  ASSUME panel \in [Slots -> SectionStates], active \subseteq 1..31, NEW what
  PROVE  LET ps == Said(what) IN
         /\ ps \in Seq(Packets) /\ Len(Body(ps)) <= 61
         /\ Range(ps) =
              (IF "sysinfo" \in what THEN {SysInfoPacket(MODEL), SysInfoPacket(MAC)} ELSE {})
                \cup (IF "sections" \in what THEN {SectionsPacket(panel)} ELSE {})
                \cup (IF "activity" \in what THEN {ActivityPacket(active)} ELSE {})
<1> DEFINE infos == IF "sysinfo" \in what THEN <<SysInfoPacket(MODEL), SysInfoPacket(MAC)>> ELSE <<>>
           states == IF "sections" \in what THEN <<SectionsPacket(panel)>> ELSE <<>>
           bitmap == IF "activity" \in what THEN <<ActivityPacket(active)>> ELSE <<>>
           first == infos \o states
           all == first \o bitmap
<1>1. Said(what) = all
  BY Zenon DEF Said
<1>2. /\ infos \in Seq(Packets) /\ Len(Body(infos)) \in 0..18
      /\ Range(infos) = IF "sysinfo" \in what THEN {SysInfoPacket(MODEL), SysInfoPacket(MAC)} ELSE {}
  <2>1. CASE "sysinfo" \in what
    <3> DEFINE p == SysInfoPacket(MODEL)
               q == SysInfoPacket(MAC)
    <3>1. p \in Packets /\ q \in Packets /\ Len(p.data) = 5 /\ Len(q.data) = 9
      BY SayingsAre
    <3> HIDE DEF p, q
    <3>2. /\ <<p, q>> \in Seq(Packets) /\ Range(<<p, q>>) = {p, q}
          /\ Len(Body(<<p, q>>)) = 4 + Len(p.data) + Len(q.data)
      BY <3>1, TwoPackets
    <3>3. Len(Body(<<p, q>>)) = 18
      BY <3>1, <3>2
    <3>4. infos = <<p, q>>
      BY <2>1 DEF p, q
    <3> QED
      BY <2>1, <3>2, <3>3, <3>4 DEF p, q
  <2>2. CASE "sysinfo" \notin what
    BY <2>2, NonePackets
  <2> QED
    BY <2>1, <2>2
<1> HIDE DEF infos
<1>3. /\ first \in Seq(Packets) /\ Len(Body(first)) \in 0..54
      /\ Range(first) = Range(infos) \cup (IF "sections" \in what THEN {SectionsPacket(panel)} ELSE {})
  <2>1. CASE "sections" \in what
    <3> DEFINE p == SectionsPacket(panel)
    <3>1. p \in Packets /\ Len(p.data) = 34
      BY SayingsAre
    <3> HIDE DEF p
    <3>2. /\ infos \o <<p>> \in Seq(Packets) /\ Range(infos \o <<p>>) = Range(infos) \cup {p}
          /\ Len(Body(infos \o <<p>>)) = Len(Body(infos)) + 2 + Len(p.data)
      BY <1>2, <3>1, OneMore
    <3>3. Len(Body(infos \o <<p>>)) \in 0..54
      <4> DEFINE l == Len(Body(infos \o <<p>>))
                 m == Len(Body(infos))
                 n == Len(p.data)
      <4>1. l = m + 2 + n /\ m \in 0..18 /\ n = 34
        BY <1>2, <3>1, <3>2
      <4> HIDE DEF l, m, n
      <4>2. l \in 0..54
        BY <4>1
      <4> QED
        BY <4>2 DEF l
    <3>4. first = infos \o <<p>>
      BY <2>1 DEF p
    <3> HIDE DEF first
    <3> QED
      BY <2>1, <3>2, <3>3, <3>4 DEF p
  <2>2. CASE "sections" \notin what
    <3>1. first = infos
      BY <1>2, <2>2
    <3> HIDE DEF first
    <3> QED
      BY <1>2, <2>2, <3>1
  <2> QED
    BY <2>1, <2>2
<1> HIDE DEF first
<1>4. /\ all \in Seq(Packets) /\ Len(Body(all)) <= 61
      /\ Range(all) = Range(first) \cup (IF "activity" \in what THEN {ActivityPacket(active)} ELSE {})
  <2>1. CASE "activity" \in what
    <3> DEFINE p == ActivityPacket(active)
    <3>1. p \in Packets /\ Len(p.data) = 5
      BY SayingsAre
    <3> HIDE DEF p
    <3>2. /\ first \o <<p>> \in Seq(Packets) /\ Range(first \o <<p>>) = Range(first) \cup {p}
          /\ Len(Body(first \o <<p>>)) = Len(Body(first)) + 2 + Len(p.data)
      BY <1>3, <3>1, OneMore
    <3>3. Len(Body(first \o <<p>>)) <= 61
      <4> DEFINE l == Len(Body(first \o <<p>>))
                 m == Len(Body(first))
                 n == Len(p.data)
      <4>1. l = m + 2 + n /\ m \in 0..54 /\ n = 5
        BY <1>3, <3>1, <3>2
      <4> HIDE DEF l, m, n
      <4>2. l <= 61
        BY <4>1
      <4> QED
        BY <4>2 DEF l
    <3>4. all = first \o <<p>>
      BY <2>1 DEF p
    <3> HIDE DEF all
    <3> QED
      BY <2>1, <3>2, <3>3, <3>4 DEF p
  <2>2. CASE "activity" \notin what
    <3>1. all = first
      BY <1>3, <2>2
    <3> HIDE DEF all
    <3>2. ASSUME NEW l \in 0..54 PROVE l <= 61
      OBVIOUS
    <3> QED
      BY <1>3, <2>2, <3>1, <3>2
  <2> QED
    BY <2>1, <2>2
<1> HIDE DEF all
<1> QED
  BY <1>1, <1>2, <1>3, <1>4

-----------------------------------------------------------------------------
(***************************************************************************)
(* The answers of the devices, byte by byte.                               *)
(***************************************************************************)
LEMMA DeviceParts ==
  ASSUME NEW d \in PossibleDevices
  PROVE  /\ d.flags \in Byte /\ d.activity \in Activity
         /\ \/ d.kind = "wireless" /\ d.level \in Levels /\ d.battery \in 0..15
            \/ d.kind = "wired"
            \/ d.kind = "bus" /\ d.level \in Levels /\ d.battery \in (0..15) \ {10}
            \/ d.kind = "siren" /\ d.level \in Levels /\ d.volts \in Volts \X Volts
<1>1. CASE d \in Wireless
  BY <1>1 DEF Wireless
<1>2. CASE d \in Wired
  BY <1>2 DEF Wired
<1>3. CASE d \in Bus
  BY <1>3 DEF Bus
<1>4. CASE d \in Siren
  BY <1>4 DEF Siren
<1> QED
  BY <1>1, <1>2, <1>3, <1>4 DEF PossibleDevices

\* The bytes of a device's status.
LEMMA StatusBytes ==
  ASSUME NEW d \in PossibleDevices
  PROVE  LET data == StatusPacket(d).data IN
         /\ StatusPacket(d) \in Packets /\ StatusPacket(d).type = COMMAND /\ data \in Seq(Byte)
         /\ At(data, 0) = STATUS_RESPONSE /\ At(data, 1) = Number /\ At(data, 2) = d.flags
         /\ At(data, 3) = 4 /\ At(data, 4) = d.activity[1] /\ At(data, 5) = d.activity[2]
         /\ At(data, 6) = 0
         /\ IF d.kind = "wireless"
            THEN Len(data) = 11 /\ At(data, 7) = 252 /\ At(data, 8) = 128 + d.level /\ At(data, 9) = d.battery
            ELSE Len(data) = 9 /\ At(data, 7) = 242 /\ At(data, 8) = 0
<1> DEFINE begin == <<STATUS_RESPONSE, Number, d.flags, 4>>
           act == d.activity
           zero == <<0>>
           both == begin \o act
           head == both \o zero
           tail == IF d.kind = "wireless" THEN <<252, 128 + d.level, d.battery, 0>> ELSE <<242, 0>>
           data == head \o tail
<1>1. /\ d.flags \in Byte /\ d.activity \in Byte \X Byte
      /\ d.kind = "wireless" => d.level \in 0..20 /\ d.battery \in 0..15
  BY DeviceParts DEF Activity, Levels
<1>2. StatusPacket(d) = [type |-> COMMAND, data |-> data]
  <2>1. CASE d.kind = "wireless"
    BY <2>1 DEF StatusPacket
  <2>2. CASE d.kind # "wireless"
    BY <2>2 DEF StatusPacket
  <2> QED
    BY <2>1, <2>2
<1>3. begin \in Seq(Byte) /\ act \in Seq(Byte) /\ zero \in Seq(Byte)
  <2>1. 4 \in Byte /\ 0 \in Byte /\ STATUS_RESPONSE \in Byte /\ Number \in Byte
    BY DEF STATUS_RESPONSE, Number, Byte
  <2>2. begin \in Seq(Byte) /\ zero \in Seq(Byte)
    BY <1>1, <2>1
  <2>3. act = <<act[1], act[2]>> /\ act[1] \in Byte /\ act[2] \in Byte
    BY <1>1
  <2>4. act \in Seq(Byte)
    <3> HIDE DEF act
    <3> QED
      BY <2>3, Pair
  <2> QED
    BY <2>2, <2>4
<1>4. /\ Len(begin) = 4 /\ Len(act) = 2 /\ Len(zero) = 1
      /\ begin[1] = STATUS_RESPONSE /\ begin[2] = Number /\ begin[3] = d.flags /\ begin[4] = 4
      /\ zero[1] = 0
  BY <1>1
<1>5. tail \in Seq(Byte)
  <2>1. 252 \in Byte /\ 0 \in Byte /\ 242 \in Byte
    BY DEF Byte
  <2>2. d.kind = "wireless" => 128 + d.level \in Byte /\ d.battery \in Byte
    BY <1>1 DEF Byte
  <2> QED
    BY <2>1, <2>2
<1>6. IF d.kind = "wireless"
      THEN Len(tail) = 4 /\ tail[1] = 252 /\ tail[2] = 128 + d.level /\ tail[3] = d.battery
      ELSE Len(tail) = 2 /\ tail[1] = 242 /\ tail[2] = 0
  OBVIOUS
<1> HIDE DEF begin, act, zero, tail
<1>7. /\ both \in Seq(Byte) /\ Len(both) = Len(begin) + Len(act)
      /\ \A j \in 1..Len(begin) : both[j] = begin[j]
      /\ \A j \in 1..Len(act) : both[Len(begin) + j] = act[j]
  BY <1>3, Joined
<1>8. Len(both) = 6 /\ \A j \in 1..4 : both[j] = begin[j]
  BY <1>4, <1>7
<1>9. both[5] = act[1] /\ both[6] = act[2] /\ both \in Seq(Byte)
  BY <1>4, <1>7
<1>10. both \in Seq(Byte)
  BY <1>7
<1> HIDE DEF both
<1>11. /\ head \in Seq(Byte) /\ Len(head) = Len(both) + Len(zero)
       /\ \A j \in 1..Len(both) : head[j] = both[j]
       /\ \A j \in 1..Len(zero) : head[Len(both) + j] = zero[j]
  BY <1>3, <1>10, Joined
<1>12. Len(head) = 7 /\ (\A j \in 1..6 : head[j] = both[j]) /\ head[7] = 0
  BY <1>4, <1>8, <1>11
<1>13. head \in Seq(Byte)
  BY <1>11
<1> HIDE DEF head
<1>14. /\ data \in Seq(Byte) /\ Len(data) = Len(head) + Len(tail)
       /\ \A j \in 1..Len(head) : data[j] = head[j]
       /\ \A j \in 1..Len(tail) : data[Len(head) + j] = tail[j]
  BY <1>5, <1>13, Joined
<1> HIDE DEF data
<1>15. \A j \in 1..7 : data[j] = head[j]
  BY <1>12, <1>14
<1>16. /\ data[1] = STATUS_RESPONSE /\ data[2] = Number /\ data[3] = d.flags /\ data[4] = 4
       /\ data[5] = act[1] /\ data[6] = act[2] /\ data[7] = 0
  BY <1>4, <1>8, <1>9, <1>12, <1>15
<1>17. IF d.kind = "wireless"
       THEN Len(data) = 11 /\ data[8] = 252 /\ data[9] = 128 + d.level /\ data[10] = d.battery
       ELSE Len(data) = 9 /\ data[8] = 242 /\ data[9] = 0
  <2>1. Len(data) = 7 + Len(tail) /\ \A j \in 1..Len(tail) : data[7 + j] = tail[j]
    BY <1>12, <1>14
  <2>2. CASE d.kind = "wireless"
    <3>1. Len(tail) = 4
      BY <1>6, <2>2
    <3>2. Len(data) = 11 /\ data[8] = tail[1] /\ data[9] = tail[2] /\ data[10] = tail[3]
      BY <2>1, <3>1
    <3> QED
      BY <1>6, <2>2, <3>2
  <2>3. CASE d.kind # "wireless"
    <3>1. Len(tail) = 2
      BY <1>6, <2>3
    <3>2. Len(data) = 9 /\ data[8] = tail[1] /\ data[9] = tail[2]
      BY <2>1, <3>1
    <3> QED
      BY <1>6, <2>3, <3>2
  <2> QED
    BY <2>2, <2>3
<1>18. StatusPacket(d) \in Packets
  BY <1>2, <1>14, TypesAre DEF Packets
<1>19. StatusPacket(d).data = data /\ StatusPacket(d).type = COMMAND
  BY <1>2
<1>20. /\ At(data, 0) = data[1] /\ At(data, 1) = data[2] /\ At(data, 2) = data[3] /\ At(data, 3) = data[4]
       /\ At(data, 4) = data[5] /\ At(data, 5) = data[6] /\ At(data, 6) = data[7] /\ At(data, 7) = data[8]
       /\ At(data, 8) = data[9] /\ At(data, 9) = data[10]
  BY DEF At
<1> QED
  BY <1>14, <1>16, <1>17, <1>18, <1>19, <1>20, ZenonT(30) DEF act

-----------------------------------------------------------------------------
(***************************************************************************)
(* What the decoders read of them.                                         *)
(***************************************************************************)
\* The levels of a device are read as percentages.
LEMMA LevelsRead ==
  /\ \A level \in Levels : Signal(128 + level) = 5 * level /\ 128 + level \in Byte
  /\ \A battery \in 0..15 : Battery(battery) = IF battery > 10 THEN None ELSE 10 * battery
<1>1. ASSUME NEW level \in 0..20 PROVE Signal(128 + level) = 5 * level /\ 128 + level \in Byte
  <2>1. (128 + level) % 32 = level /\ level * 5 = 5 * level /\ 5 * level <= 100
    OBVIOUS
  <2> QED
    BY <2>1 DEF Signal, Least, Byte
<1>2. ASSUME NEW battery \in 0..15
      PROVE  Battery(battery) = IF battery > 10 THEN None ELSE 10 * battery
  <2>1. battery % 16 = battery /\ battery * 10 = 10 * battery
    OBVIOUS
  <2> QED
    BY <2>1 DEF Battery, Least
<1> QED
  BY <1>1, <1>2 DEF Levels

\* A status without a stray wireless marker is read as the device meant it.
LEMMA StatusRead ==
  ASSUME NEW d \in PossibleDevices,
         252 \notin {d.flags, d.activity[1], d.activity[2]}
  PROVE  LET answer == DecodeDeviceStatus(StatusPacket(d).data) IN
         /\ answer.device = Number /\ answer.active = IsActive(d)
         /\ answer.signal = IF d.kind = "wireless" THEN 5 * d.level ELSE None
         /\ answer.battery = IF d.kind = "wireless" /\ d.battery <= 10 THEN 10 * d.battery ELSE None
<1> DEFINE data == StatusPacket(d).data
           fc == Find(data, 252)
           f2 == Find(data, 242)
<1>1. /\ data \in Seq(Byte)
      /\ At(data, 0) = STATUS_RESPONSE /\ At(data, 1) = Number /\ At(data, 2) = d.flags
      /\ At(data, 3) = 4 /\ At(data, 4) = d.activity[1] /\ At(data, 5) = d.activity[2]
      /\ At(data, 6) = 0
  BY StatusBytes
<1>2. d.kind = "wireless" => /\ Len(data) = 11 /\ At(data, 7) = 252
                             /\ At(data, 8) = 128 + d.level /\ At(data, 9) = d.battery
  BY StatusBytes
<1>3. d.kind # "wireless" => Len(data) = 9 /\ At(data, 7) = 242 /\ At(data, 8) = 0
  BY StatusBytes
<1> HIDE DEF data
<1>4. \A k \in 2..6 : At(data, k) # 252
  <2>1. \A k \in 2..6 : k = 2 \/ k = 3 \/ k = 4 \/ k = 5 \/ k = 6
    OBVIOUS
  <2> QED
    BY <1>1, <2>1
<1>5. /\ \/ fc = None /\ \A k \in 2..(Len(data) - 1) : At(data, k) # 252
         \/ /\ fc \in 2..(Len(data) - 1) /\ At(data, fc) = 252
            /\ \A k \in 2..(fc - 1) : At(data, k) # 252
      /\ \/ f2 = None /\ \A k \in 2..(Len(data) - 1) : At(data, k) # 242
         \/ f2 \in 2..(Len(data) - 1)
  <2>1. 252 \in Byte /\ 242 \in Byte
    BY DEF Byte
  <2> QED
    BY <1>1, <2>1, FoundFirst
<1>6. d.activity \in Byte \X Byte
  BY DeviceParts DEF Activity
<1> HIDE DEF fc, f2
<1>7. CASE d.kind = "wireless"
  <2>0. Len(data) = 11 /\ At(data, 7) = 252
    BY <1>2, <1>7
  <2>1. fc = 7
    <3>1. fc # None
      BY <1>5, <2>0 DEF None
    <3>2. fc \in 2..10 /\ At(data, fc) = 252 /\ \A k \in 2..(fc - 1) : At(data, k) # 252
      BY <1>5, <2>0, <3>1
    <3>3. fc \notin 2..6
      BY <1>4, <3>2
    <3>4. ~(fc > 7)
      BY <2>0, <3>2
    <3> QED
      BY <3>2, <3>3, <3>4
  <2>2. DecodeDeviceStatus(data) =
          Status(data, Signal(At(data, 8)), Battery(At(data, 9)), At(data, 4) \notin {0, 255})
    <3>1. fc + 1 = 8 /\ fc + 2 = 9 /\ fc > 0 /\ Len(data) > fc + 2 /\ ~(Len(data) < 3)
      BY <2>0, <2>1
    <3>2. At(data, 0) = STATUS_RESPONSE
      BY <1>1
    <3> QED
      BY <3>1, <3>2, ZenonT(30) DEF DecodeDeviceStatus, fc
  <2>3. d.level \in Levels /\ d.battery \in 0..15
    BY <1>7, DeviceParts
  <2>4. /\ Signal(At(data, 8)) = 5 * d.level
        /\ Battery(At(data, 9)) = IF d.battery <= 10 THEN 10 * d.battery ELSE None
    BY <1>2, <1>7, <2>3, LevelsRead
  <2>5. (At(data, 4) \notin {0, 255}) = IsActive(d)
    BY <1>1, <1>7 DEF IsActive
  <2> QED
    BY <1>1, <1>7, <2>2, <2>4, <2>5 DEF Status, data
<1>8. CASE d.kind # "wireless"
  <2>0. Len(data) = 9 /\ At(data, 7) = 242 /\ At(data, 8) = 0
    BY <1>3, <1>8
  <2>1. fc = None
    <3>1. \A k \in 2..8 : At(data, k) # 252
      BY <1>4, <2>0
    <3> QED
      BY <1>5, <2>0, <3>1
  <2>2. f2 \in 2..8
    BY <1>5, <2>0
  <2>3. DecodeDeviceStatus(data) = Status(data, None, None, At(data, 4) # 0 \/ At(data, 5) # 0)
    <3> DEFINE lively == Len(data) > 5 /\ (At(data, 4) # 0 \/ At(data, 5) # 0)
    <3>1. ~(fc > 0) /\ f2 > 0 /\ Len(data) > 5 /\ ~(Len(data) < 3)
      BY <2>0, <2>1, <2>2 DEF None
    <3>2. At(data, 0) = STATUS_RESPONSE
      BY <1>1
    <3>3. DecodeDeviceStatus(data) =
            IF Len(data) < 3 \/ At(data, 0) # STATUS_RESPONSE THEN Malformed
            ELSE CASE fc > 0 /\ Len(data) > fc + 2 ->
                        Status(data, Signal(At(data, fc + 1)), Battery(At(data, fc + 2)),
                               At(data, 4) \notin {0, 255})
                   [] ~(fc > 0 /\ Len(data) > fc + 2) /\ f2 > 0 -> Status(data, None, None, lively)
                   [] OTHER -> Status(data, None, None, FALSE)
      BY Zenon DEF DecodeDeviceStatus, fc, f2
    <3>4. lively = (At(data, 4) # 0 \/ At(data, 5) # 0)
      BY <3>1
    <3> HIDE DEF lively
    <3>5. DecodeDeviceStatus(data) = Status(data, None, None, lively)
      BY <3>1, <3>2, <3>3
    <3> QED
      BY <3>4, <3>5
  <2>4. (At(data, 4) # 0 \/ At(data, 5) # 0) = IsActive(d)
    BY <1>1, <1>6, <1>8 DEF IsActive
  <2> QED
    BY <1>1, <1>8, <2>3, <2>4 DEF Status, data
<1> QED
  BY <1>7, <1>8

\* The search for voltages in what is left of a siren's diagnostic.
LEMMA VoltagesRead ==
  ASSUME NEW rest \in Seq(Byte), Len(rest) = 8,
         At(rest, 0) = 108, At(rest, 1) = 0, At(rest, 4) = 108, At(rest, 5) = 1
  PROVE  SirenVoltages(rest) = [voltage |-> At(rest, 2) + 256 * At(rest, 3),
                                voltage_current |-> At(rest, 6) + 256 * At(rest, 7)]
<1> DEFINE Step(f, k) == IF k >= Len(rest) - 3 THEN NoVoltage
                         ELSE IF At(rest, k) # 108 THEN f[k + 1]
                         ELSE VoltageAt(rest, k, f[k + 4])
           from == CHOOSE f : f = [k \in 0..Len(rest) |-> Step(f, k)]
           Skip(k, next, behind) == IF At(rest, k) # 108 THEN next ELSE VoltageAt(rest, k, behind)
           v4 == Skip(4, NoVoltage, NoVoltage)
           v3 == Skip(3, v4, NoVoltage)
           v2 == Skip(2, v3, NoVoltage)
           v1 == Skip(1, v2, NoVoltage)
           v0 == Skip(0, v1, v4)
           found == [k \in 0..Len(rest) |-> IF k = 0 THEN v0 ELSE IF k = 1 THEN v1
                                            ELSE IF k = 2 THEN v2 ELSE IF k = 3 THEN v3
                                            ELSE IF k = 4 THEN v4 ELSE NoVoltage]
<1>1. SirenVoltages(rest) = from[0]
  BY DEF SirenVoltages
<1>2. \E f : f = [k \in 0..Len(rest) |-> Step(f, k)]
  <2>1. /\ found[0] = v0 /\ found[1] = v1 /\ found[2] = v2 /\ found[3] = v3 /\ found[4] = v4
        /\ \A k \in 5..8 : found[k] = NoVoltage
    <3> HIDE DEF v0, v1, v2, v3, v4
    <3> QED
      OBVIOUS
  <2>2. DOMAIN found = 0..Len(rest) /\ found = [k \in 0..Len(rest) |-> found[k]]
    <3> HIDE DEF v0, v1, v2, v3, v4
    <3> QED
      OBVIOUS
  <2> HIDE DEF found
  <2>3. ASSUME NEW k \in 0..Len(rest) PROVE found[k] = Step(found, k)
    <3>1. CASE k >= 5
      BY <2>1, <3>1
    <3>2. CASE k = 4
      BY <2>1, <3>2
    <3>3. CASE k = 3
      BY <2>1, <3>3
    <3>4. CASE k = 2
      BY <2>1, <3>4
    <3>5. CASE k = 1
      BY <2>1, <3>5
    <3>6. CASE k = 0
      BY <2>1, <3>6
    <3> QED
      BY <3>1, <3>2, <3>3, <3>4, <3>5, <3>6
  <2>4. found = [k \in 0..Len(rest) |-> Step(found, k)]
    <3> HIDE DEF Step
    <3> QED
      BY <2>2, <2>3
  <2> QED
    BY <2>4
<1>3. from = [k \in 0..Len(rest) |-> Step(from, k)]
  <2> HIDE DEF Step
  <2> QED
    BY <1>2
<1>4. ASSUME NEW k \in 0..8 PROVE from[k] = Step(from, k)
  <2> HIDE DEF Step, from
  <2>1. from[k] = [n \in 0..Len(rest) |-> Step(from, n)][k]
    BY <1>3
  <2> QED
    BY <2>1
<1> HIDE DEF from
<1>5. from[8] = NoVoltage
  BY <1>4
<1>6. from[4] = VoltageAt(rest, 4, NoVoltage)
  BY <1>4, <1>5
<1>7. from[0] = VoltageAt(rest, 0, VoltageAt(rest, 4, NoVoltage))
  BY <1>4, <1>6
<1>8. VoltageAt(rest, 4, NoVoltage) = [voltage |-> None, voltage_current |-> At(rest, 6) + 256 * At(rest, 7)]
  BY DEF VoltageAt, NoVoltage
<1>9. VoltageAt(rest, 0, [voltage |-> None, voltage_current |-> At(rest, 6) + 256 * At(rest, 7)])
        = [voltage |-> At(rest, 2) + 256 * At(rest, 3), voltage_current |-> At(rest, 6) + 256 * At(rest, 7)]
  BY DEF VoltageAt
<1> QED
  BY <1>1, <1>7, <1>8, <1>9

\* A voltage, in two bytes.
LEMMA TwoBytesAre ==
  ASSUME NEW n \in Volts
  PROVE  /\ TwoBytes(n) \in Seq(Byte) /\ Len(TwoBytes(n)) = 2
         /\ TwoBytes(n)[1] + 256 * TwoBytes(n)[2] = n
<1>1. n % 256 \in Byte /\ n \div 256 \in Byte /\ (n % 256) + 256 * (n \div 256) = n
  BY SMTT(30) DEF Volts, Byte
<1> QED
  BY <1>1, Pair DEF TwoBytes

\* The bytes of a siren's diagnostic.
LEMMA SirenBytes ==
  ASSUME NEW d \in Siren
  PROVE  LET data == DiagnosticPacket(d).data
             rest == SubSeq(data, 6, Len(data)) IN
         /\ DiagnosticPacket(d) \in Packets /\ DiagnosticPacket(d).type = DEVICE_INFO
         /\ data \in Seq(Byte) /\ Len(data) = 13
         /\ At(data, 0) = Number /\ At(data, 1) = 10 /\ At(data, 3) = 10 /\ At(data, 4) = 128 + d.level
         /\ rest \in Seq(Byte) /\ Len(rest) = 8
         /\ At(rest, 0) = 108 /\ At(rest, 1) = 0 /\ At(rest, 4) = 108 /\ At(rest, 5) = 1
         /\ At(rest, 2) + 256 * At(rest, 3) = d.volts[1]
         /\ At(rest, 6) + 256 * At(rest, 7) = d.volts[2]
<1> DEFINE head == <<Number, 10, 10, 10, 128 + d.level, 108, 0>>
           first == TwoBytes(d.volts[1])
           mark == <<108, 1>>
           second == TwoBytes(d.volts[2])
           two == head \o first
           three == two \o mark
           data == three \o second
           rest == SubSeq(data, 6, Len(data))
<1>1. d.kind = "siren" /\ d.level \in Levels /\ d.volts \in Volts \X Volts
  BY DEF Siren
<1>2. d.volts[1] \in Volts /\ d.volts[2] \in Volts
  BY <1>1
<1>3. DiagnosticPacket(d) = [type |-> DEVICE_INFO, data |-> data]
  BY <1>1 DEF DiagnosticPacket
<1>4. /\ first \in Seq(Byte) /\ Len(first) = 2 /\ first[1] + 256 * first[2] = d.volts[1]
      /\ second \in Seq(Byte) /\ Len(second) = 2 /\ second[1] + 256 * second[2] = d.volts[2]
  BY <1>2, TwoBytesAre
<1>5. head \in Seq(Byte) /\ mark \in Seq(Byte)
  <2>1. 128 + d.level \in Byte
    BY <1>1, LevelsRead
  <2>2. Number \in Byte /\ 10 \in Byte /\ 108 \in Byte /\ 0 \in Byte /\ 1 \in Byte
    BY DEF Number, Byte
  <2> QED
    BY <2>1, <2>2
<1>6. head[6] = 108 /\ head[7] = 0 /\ mark[1] = 108 /\ mark[2] = 1
  OBVIOUS
<1>7. head[1] = Number /\ head[2] = 10 /\ head[4] = 10 /\ head[5] = 128 + d.level
  OBVIOUS
<1>8. first \in Seq(Byte) /\ second \in Seq(Byte)
  BY <1>4
<1>9. Len(head) = 7 /\ Len(first) = 2 /\ Len(mark) = 2 /\ Len(second) = 2
  BY <1>4
<1> HIDE DEF head, first, mark, second
<1>10. /\ two \in Seq(Byte) /\ Len(two) = 9
       /\ (\A j \in 1..7 : two[j] = head[j]) /\ two[8] = first[1] /\ two[9] = first[2]
  <2>1. /\ two \in Seq(Byte) /\ Len(two) = Len(head) + Len(first)
        /\ \A j \in 1..Len(head) : two[j] = head[j]
        /\ \A j \in 1..Len(first) : two[Len(head) + j] = first[j]
    BY <1>5, <1>8, Joined
  <2> HIDE DEF two
  <2> QED
    BY <1>9, <2>1
<1>11. two \in Seq(Byte)
  BY <1>10
<1> HIDE DEF two
<1>12. /\ three \in Seq(Byte) /\ Len(three) = 11
       /\ (\A j \in 1..9 : three[j] = two[j]) /\ three[10] = mark[1] /\ three[11] = mark[2]
  <2>1. /\ three \in Seq(Byte) /\ Len(three) = Len(two) + Len(mark)
        /\ \A j \in 1..Len(two) : three[j] = two[j]
        /\ \A j \in 1..Len(mark) : three[Len(two) + j] = mark[j]
    BY <1>5, <1>11, Joined
  <2> HIDE DEF three
  <2> QED
    BY <1>9, <1>10, <2>1
<1>13. three \in Seq(Byte)
  BY <1>12
<1> HIDE DEF three
<1>14. /\ data \in Seq(Byte) /\ Len(data) = 13
       /\ (\A j \in 1..11 : data[j] = three[j]) /\ data[12] = second[1] /\ data[13] = second[2]
  <2>1. /\ data \in Seq(Byte) /\ Len(data) = Len(three) + Len(second)
        /\ \A j \in 1..Len(three) : data[j] = three[j]
        /\ \A j \in 1..Len(second) : data[Len(three) + j] = second[j]
    BY <1>8, <1>13, Joined
  <2> HIDE DEF data
  <2> QED
    BY <1>9, <1>12, <2>1
<1>15. data \in Seq(Byte)
  BY <1>14
<1> HIDE DEF data
<1>16. /\ data[1] = head[1] /\ data[2] = head[2] /\ data[4] = head[4] /\ data[5] = head[5]
       /\ data[6] = head[6] /\ data[7] = head[7] /\ data[8] = first[1] /\ data[9] = first[2]
       /\ data[10] = mark[1] /\ data[11] = mark[2] /\ data[12] = second[1] /\ data[13] = second[2]
  BY <1>10, <1>12, <1>14
<1>17. rest \in Seq(Byte) /\ Len(rest) = 8 /\ \A j \in 1..8 : rest[j] = data[5 + j]
  <2> DEFINE n == Len(data)
  <2>1. n = 13
    BY <1>14
  <2>2. \A j \in 6..n : data[j] \in Byte
    BY <1>15
  <2>3. rest = SubSeq(data, 6, n)
    OBVIOUS
  <2> HIDE DEF n, rest
  <2>4. /\ SubSeq(data, 6, n) \in Seq(Byte)
        /\ Len(SubSeq(data, 6, n)) = IF 6 <= n THEN n - 6 + 1 ELSE 0
        /\ \A j \in 1..(n - 6 + 1) : SubSeq(data, 6, n)[j] = data[6 + j - 1]
    BY <2>1, <2>2, SubSeqProperties
  <2>5. ASSUME NEW j \in 1..8 PROVE 6 + j - 1 = 5 + j
    OBVIOUS
  <2> QED
    BY <2>1, <2>3, <2>4, <2>5
<1>18. rest \in Seq(Byte) /\ Len(rest) = 8
  BY <1>17
<1>19. /\ rest[1] = data[6] /\ rest[2] = data[7] /\ rest[3] = data[8] /\ rest[4] = data[9]
       /\ rest[5] = data[10] /\ rest[6] = data[11] /\ rest[7] = data[12] /\ rest[8] = data[13]
  BY <1>17
<1> HIDE DEF rest
<1>20. /\ At(data, 0) = data[1] /\ At(data, 1) = data[2] /\ At(data, 3) = data[4] /\ At(data, 4) = data[5]
       /\ At(rest, 0) = rest[1] /\ At(rest, 1) = rest[2] /\ At(rest, 2) = rest[3] /\ At(rest, 3) = rest[4]
       /\ At(rest, 4) = rest[5] /\ At(rest, 5) = rest[6] /\ At(rest, 6) = rest[7] /\ At(rest, 7) = rest[8]
  BY DEF At
<1>21. /\ DiagnosticPacket(d).data = data /\ DiagnosticPacket(d).type = DEVICE_INFO
       /\ DiagnosticPacket(d) \in Packets
  BY <1>3, <1>15, TypesAre DEF Packets
<1>22. /\ At(rest, 2) = first[1] /\ At(rest, 3) = first[2]
       /\ At(rest, 6) = second[1] /\ At(rest, 7) = second[2]
  BY <1>16, <1>19, <1>20
<1>23. At(rest, 2) + 256 * At(rest, 3) = d.volts[1] /\ At(rest, 6) + 256 * At(rest, 7) = d.volts[2]
  BY <1>4, <1>22
<1>24. /\ At(data, 0) = Number /\ At(data, 1) = 10 /\ At(data, 3) = 10 /\ At(data, 4) = 128 + d.level
       /\ At(rest, 0) = 108 /\ At(rest, 1) = 0 /\ At(rest, 4) = 108 /\ At(rest, 5) = 1
  BY <1>6, <1>7, <1>16, <1>19, <1>20
<1> QED
  BY <1>14, <1>15, <1>18, <1>21, <1>23, <1>24, ZenonT(30) DEF rest

\* The bytes of a bus device's diagnostic.
LEMMA BusBytes ==
  ASSUME NEW d \in Bus
  PROVE  LET data == DiagnosticPacket(d).data IN
         /\ DiagnosticPacket(d) \in Packets /\ DiagnosticPacket(d).type = DEVICE_INFO
         /\ data \in Seq(Byte) /\ Len(data) = 8
         /\ At(data, 0) = Number /\ At(data, 1) = 10 /\ At(data, 3) = d.battery
         /\ At(data, 4) = 128 + d.level
<1> DEFINE data == <<Number, 10, 7, d.battery, 128 + d.level, 131, 24, 0>>
<1>1. d.kind = "bus" /\ d.level \in Levels /\ d.battery \in (0..15) \ {10}
  BY DEF Bus
<1>2. DiagnosticPacket(d) = [type |-> DEVICE_INFO, data |-> data]
  BY <1>1 DEF DiagnosticPacket
<1>3. data \in Seq(Byte)
  <2>1. 128 + d.level \in Byte
    BY <1>1, LevelsRead
  <2>2. d.battery \in Byte
    BY <1>1 DEF Byte
  <2>3. Number \in Byte /\ 10 \in Byte /\ 7 \in Byte /\ 131 \in Byte /\ 24 \in Byte /\ 0 \in Byte
    BY DEF Number, Byte
  <2> QED
    BY <2>1, <2>2, <2>3
<1>4. Len(data) = 8
  OBVIOUS
<1>5. At(data, 0) = Number /\ At(data, 1) = 10 /\ At(data, 3) = d.battery /\ At(data, 4) = 128 + d.level
  BY DEF At
<1> HIDE DEF data
<1>6. /\ DiagnosticPacket(d) \in Packets /\ DiagnosticPacket(d).type = DEVICE_INFO
      /\ DiagnosticPacket(d).data = data
  BY <1>2, <1>3, TypesAre DEF Packets
<1> QED
  BY <1>3, <1>4, <1>5, <1>6

\* A diagnostic is read as the device meant it.
LEMMA DiagnosticRead ==
  ASSUME NEW d \in Bus \cup Siren
  PROVE  /\ DecodeDeviceDiagnostic(DiagnosticPacket(d).data) =
              [device |-> Number, signal |-> 5 * d.level,
               battery |-> IF d.kind = "bus" /\ d.battery <= 10 THEN 10 * d.battery ELSE None,
               voltage |-> IF d.kind = "siren" THEN d.volts[1] ELSE None,
               voltage_current |-> IF d.kind = "siren" THEN d.volts[2] ELSE None]
         /\ DecodeDeviceDiagnostic(DiagnosticPacket(d).data) # Malformed
<1> DEFINE data == DiagnosticPacket(d).data
           rest == SubSeq(data, 6, Len(data))
           flags == At(data, 3)
           volts == IF flags = 10 THEN SirenVoltages(rest) ELSE NoVoltage
           answer == [device |-> At(data, 0), signal |-> Signal(At(data, 4)),
                      battery |-> IF flags < 10 THEN flags * 10 ELSE None,
                      voltage |-> volts.voltage, voltage_current |-> volts.voltage_current]
<1>1. DecodeDeviceDiagnostic(data) =
        IF Len(data) < 5 \/ At(data, 1) # 10 THEN Malformed ELSE answer
  BY Zenon DEF DecodeDeviceDiagnostic
<1>2. answer # Malformed
  BY DEF Malformed
<1> HIDE DEF data, rest
<1>3. CASE d \in Bus
  <2>1. /\ Len(data) = 8 /\ At(data, 0) = Number /\ At(data, 1) = 10 /\ flags = d.battery
        /\ At(data, 4) = 128 + d.level
    BY <1>3, BusBytes DEF data
  <2>2. d.kind = "bus" /\ d.level \in Levels /\ d.battery \in (0..15) \ {10}
    BY <1>3 DEF Bus
  <2>3. Signal(At(data, 4)) = 5 * d.level
    BY <2>1, <2>2, LevelsRead
  <2>4. volts.voltage = None /\ volts.voltage_current = None
    BY <2>1, <2>2 DEF NoVoltage
  <2>5. ~(Len(data) < 5) /\ ~(At(data, 1) # 10)
    BY <2>1
  <2>6. (IF flags < 10 THEN flags * 10 ELSE None) = IF d.battery <= 10 THEN 10 * d.battery ELSE None
    BY <2>1, <2>2
  <2> HIDE DEF volts, flags
  <2>7. DecodeDeviceDiagnostic(data) = answer
    BY <1>1, <2>5
  <2>8. answer = [device |-> Number, signal |-> 5 * d.level,
                  battery |-> IF d.battery <= 10 THEN 10 * d.battery ELSE None,
                  voltage |-> None, voltage_current |-> None]
    BY <2>1, <2>3, <2>4, <2>6
  <2> HIDE DEF answer
  <2> QED
    BY <1>2, <2>2, <2>7, <2>8 DEF data
<1>4. CASE d \in Siren
  <2>1. /\ Len(data) = 13 /\ At(data, 0) = Number /\ At(data, 1) = 10 /\ flags = 10
        /\ At(data, 4) = 128 + d.level
    BY <1>4, SirenBytes DEF data
  <2>2. d.kind = "siren" /\ d.level \in Levels
    BY <1>4 DEF Siren
  <2>3. Signal(At(data, 4)) = 5 * d.level
    BY <2>1, <2>2, LevelsRead
  <2>4. /\ rest \in Seq(Byte) /\ Len(rest) = 8
        /\ At(rest, 0) = 108 /\ At(rest, 1) = 0 /\ At(rest, 4) = 108 /\ At(rest, 5) = 1
        /\ At(rest, 2) + 256 * At(rest, 3) = d.volts[1]
        /\ At(rest, 6) + 256 * At(rest, 7) = d.volts[2]
    BY <1>4, SirenBytes, ZenonT(30) DEF data, rest
  <2>5. SirenVoltages(rest) = [voltage |-> d.volts[1], voltage_current |-> d.volts[2]]
    BY <2>4, VoltagesRead
  <2>6. volts.voltage = d.volts[1] /\ volts.voltage_current = d.volts[2]
    BY <2>1, <2>5
  <2>7. ~(Len(data) < 5) /\ ~(At(data, 1) # 10) /\ ~(flags < 10)
    BY <2>1
  <2> HIDE DEF volts, flags
  <2>8. DecodeDeviceDiagnostic(data) = answer
    BY <1>1, <2>7
  <2>9. answer = [device |-> Number, signal |-> 5 * d.level, battery |-> None,
                  voltage |-> d.volts[1], voltage_current |-> d.volts[2]]
    BY <2>1, <2>3, <2>6, <2>7
  <2> HIDE DEF answer
  <2> QED
    BY <1>2, <2>2, <2>8, <2>9 DEF data
<1> QED
  BY <1>3, <1>4

\* The packets of a device's answer fit a report; which decoder reads which.
LEMMA AnswerParts ==
  ASSUME NEW d \in PossibleDevices
  PROVE  LET ps == DeviceAnswer(d) IN
         /\ ps \in Seq(Packets) /\ Len(Body(ps)) <= 61 /\ ps # <<>>
         /\ Range(ps) = {StatusPacket(d)} \cup
              (IF d.kind \in {"bus", "siren"} THEN {DiagnosticPacket(d)} ELSE {})
         /\ StatusPacket(d).type = COMMAND
         /\ d.kind \in {"bus", "siren"} => DiagnosticPacket(d).type = DEVICE_INFO
<1> DEFINE p == StatusPacket(d)
           q == DiagnosticPacket(d)
           m == Len(p.data)
           n == Len(q.data)
<1>1. p \in Packets /\ p.type = COMMAND
  BY StatusBytes
<1>2. m \in {9, 11}
  BY StatusBytes
<1>3. CASE d.kind \in {"bus", "siren"}
  <2>1. d \in Bus \cup Siren
    <3>1. d \in Wireless => d.kind = "wireless"
      BY DEF Wireless
    <3>2. d \in Wired => d.kind = "wired"
      BY DEF Wired
    <3> QED
      BY <1>3, <3>1, <3>2 DEF PossibleDevices
  <2>2. q \in Packets /\ q.type = DEVICE_INFO
    BY <2>1, BusBytes, SirenBytes
  <2>3. n \in {8, 13}
    BY <2>1, BusBytes, SirenBytes
  <2>4. DeviceAnswer(d) = <<p, q>>
    BY <1>3 DEF DeviceAnswer
  <2> HIDE DEF p, q
  <2>5. <<p, q>> \in Seq(Packets) /\ Range(<<p, q>>) = {p, q} /\ Len(Body(<<p, q>>)) = 4 + m + n
    BY <1>1, <2>2, TwoPackets
  <2>6. Len(Body(<<p, q>>)) <= 61
    <3> HIDE DEF m, n
    <3> QED
      BY <1>2, <2>3, <2>5
  <2>7. <<p, q>> # <<>>
    OBVIOUS
  <2>8. {p, q} = {p} \cup {q}
    OBVIOUS
  <2> QED
    BY <1>1, <1>3, <2>2, <2>4, <2>5, <2>6, <2>7, <2>8 DEF p, q
<1>4. CASE d.kind \notin {"bus", "siren"}
  <2>1. DeviceAnswer(d) = <<p>>
    BY <1>4 DEF DeviceAnswer
  <2> HIDE DEF p
  <2>2. <<p>> \in Seq(Packets) /\ Range(<<p>>) = {p} /\ Len(Body(<<p>>)) = 2 + m
    BY <1>1, OnePacket
  <2>3. Len(Body(<<p>>)) <= 61
    <3> HIDE DEF m, n
    <3> QED
      BY <1>2, <2>2
  <2>4. <<p>> # <<>>
    OBVIOUS
  <2> QED
    BY <1>1, <1>4, <2>1, <2>2, <2>3, <2>4 DEF p
<1> QED
  BY <1>3, <1>4

\* Values are not the mark for none.
LEMMA Numbers ==
  /\ \A v \in Volts : v # None
  /\ \A level \in Levels : 5 * level # None
<1>1. \A v \in Nat : v # None
  BY DEF None
<1>2. Volts \subseteq Nat
  BY DEF Volts
<1>3. \A level \in Levels : 5 * level \in Nat
  BY DEF Levels
<1> QED
  BY <1>1, <1>2, <1>3

\* The values an info shows of a device are those the device has.
LEMMA ValuesShown ==
  ASSUME NEW d \in PossibleDevices, NEW info,
         info.signal = IF d.kind = "wired" THEN None ELSE 5 * d.level,
         info.battery = IF d.kind \in {"wireless", "bus"} /\ d.battery <= 10 THEN 10 * d.battery ELSE None,
         info.voltage = IF d.kind = "siren" THEN d.volts[1] ELSE None,
         info.voltage_current = IF d.kind = "siren" THEN d.volts[2] ELSE None
  PROVE  NativeValues(info) = DeviceTruth(d)
<1> DEFINE fields == {"signal", "battery", "voltage", "voltage_current"}
           has == CASE d.kind = "wired" -> {}
                    [] d.kind = "siren" -> {"signal", "voltage", "voltage_current"}
                    [] OTHER -> IF d.battery > 10 THEN {"signal"} ELSE {"signal", "battery"}
           value(f) == CASE f = "signal" -> 5 * d.level
                         [] f = "battery" -> 10 * d.battery
                         [] f = "voltage" -> d.volts[1]
                         [] f = "voltage_current" -> d.volts[2]
<1>1. DeviceTruth(d) = [f \in has |-> value(f)]
  BY DEF DeviceTruth
<1>2. NativeValues(info) = [f \in SensorsFor(info) |-> info[f]]
  BY DEF NativeValues
<1>3. SensorsFor(info) = {f \in fields : info[f] # None}
  BY DEF SensorsFor
<1>4. SensorsFor(info) = has /\ \A f \in has : info[f] = value(f)
  <2>1. CASE d.kind = "wireless"
    <3>1. d.level \in Levels /\ d.battery \in 0..15
      BY <2>1, DeviceParts
    <3>2. info["signal"] = 5 * d.level /\ info["voltage"] = None /\ info["voltage_current"] = None
      BY <2>1
    <3>3. info["battery"] = IF d.battery <= 10 THEN 10 * d.battery ELSE None
      BY <2>1
    <3>4. info["signal"] # None /\ (info["battery"] # None <=> d.battery <= 10)
      BY <3>1, <3>2, <3>3 DEF None, Levels
    <3>5. has = IF d.battery <= 10 THEN {"signal", "battery"} ELSE {"signal"}
      BY <2>1, <3>1
    <3>6. SensorsFor(info) = has
      <4> HIDE DEF has
      <4> QED
        BY <1>3, <3>2, <3>4, <3>5
    <3>7. value("signal") = 5 * d.level /\ value("battery") = 10 * d.battery
      OBVIOUS
    <3> HIDE DEF has, value
    <3> QED
      BY <3>2, <3>3, <3>5, <3>6, <3>7
  <2>2. CASE d.kind = "wired"
    <3>1. /\ info["signal"] = None /\ info["battery"] = None
          /\ info["voltage"] = None /\ info["voltage_current"] = None
      BY <2>2
    <3>2. has = {}
      BY <2>2
    <3> HIDE DEF has, value
    <3> QED
      BY <1>3, <3>1, <3>2
  <2>3. CASE d.kind = "bus"
    <3>1. d.level \in Levels /\ d.battery \in (0..15) \ {10}
      BY <2>3, DeviceParts
    <3>2. info["signal"] = 5 * d.level /\ info["voltage"] = None /\ info["voltage_current"] = None
      BY <2>3
    <3>3. info["battery"] = IF d.battery <= 10 THEN 10 * d.battery ELSE None
      BY <2>3
    <3>4. info["signal"] # None /\ (info["battery"] # None <=> d.battery <= 10)
      BY <3>1, <3>2, <3>3 DEF None, Levels
    <3>5. has = IF d.battery <= 10 THEN {"signal", "battery"} ELSE {"signal"}
      BY <2>3, <3>1
    <3>6. SensorsFor(info) = has
      <4> HIDE DEF has
      <4> QED
        BY <1>3, <3>2, <3>4, <3>5
    <3>7. value("signal") = 5 * d.level /\ value("battery") = 10 * d.battery
      OBVIOUS
    <3> HIDE DEF has, value
    <3> QED
      BY <3>2, <3>3, <3>5, <3>6, <3>7
  <2>4. CASE d.kind = "siren"
    <3>1. d.level \in Levels /\ d.volts[1] \in Volts /\ d.volts[2] \in Volts
      BY <2>4, DeviceParts
    <3>2. /\ info["signal"] = 5 * d.level /\ info["battery"] = None
          /\ info["voltage"] = d.volts[1] /\ info["voltage_current"] = d.volts[2]
      BY <2>4
    <3>3. info["signal"] # None /\ info["voltage"] # None /\ info["voltage_current"] # None
      BY <3>1, <3>2, Numbers
    <3>4. has = {"signal", "voltage", "voltage_current"}
      BY <2>4
    <3>5. SensorsFor(info) = has
      <4> HIDE DEF has
      <4> QED
        BY <1>3, <3>2, <3>3, <3>4
    <3>6. /\ value("signal") = 5 * d.level /\ value("voltage") = d.volts[1]
          /\ value("voltage_current") = d.volts[2]
      OBVIOUS
    <3> HIDE DEF has, value
    <3> QED
      BY <3>2, <3>4, <3>5, <3>6
  <2> QED
    BY <2>1, <2>2, <2>3, <2>4, DeviceParts
<1> HIDE DEF has, value
<1> QED
  BY <1>1, <1>2, <1>4

\* An answer is read as the device meant it.
LEMMA AnswerRead ==
  ASSUME NEW d \in PossibleDevices,
         252 \notin {d.flags, d.activity[1], d.activity[2]},
         NEW s, s = DecodeDeviceStatus(StatusPacket(d).data),
         NEW g, g = IF d.kind \in {"bus", "siren"} THEN DecodeDeviceDiagnostic(DiagnosticPacket(d).data)
                    ELSE Malformed
  PROVE  LET info == DeviceInfo(s, g) IN
         /\ info.device_number = Number /\ info.active = IsActive(d)
         /\ NativeValues(info) = DeviceTruth(d)
<1> DEFINE info == DeviceInfo(s, g)
<1>1. /\ s.device = Number /\ s.active = IsActive(d)
      /\ s.signal = IF d.kind = "wireless" THEN 5 * d.level ELSE None
      /\ s.battery = IF d.kind = "wireless" /\ d.battery <= 10 THEN 10 * d.battery ELSE None
  BY StatusRead
<1>2. info.device_number = s.device /\ info.active = s.active
  BY DEF DeviceInfo
<1>3. d.kind \in {"wireless", "wired", "bus", "siren"}
  BY DeviceParts
<1>4. CASE d.kind \in {"bus", "siren"}
  <2>1. d \in Bus \cup Siren
    <3>1. d \in Wireless => d.kind = "wireless"
      BY DEF Wireless
    <3>2. d \in Wired => d.kind = "wired"
      BY DEF Wired
    <3> QED
      BY <1>4, <3>1, <3>2 DEF PossibleDevices
  <2> DEFINE battery == IF d.kind = "bus" /\ d.battery <= 10 THEN 10 * d.battery ELSE None
             voltage == IF d.kind = "siren" THEN d.volts[1] ELSE None
             current == IF d.kind = "siren" THEN d.volts[2] ELSE None
             level == 5 * d.level
  <2>2. /\ g = [device |-> Number, signal |-> level, battery |-> battery,
                voltage |-> voltage, voltage_current |-> current]
        /\ g # Malformed
    BY <1>4, <2>1, DiagnosticRead
  <2> HIDE DEF battery, voltage, current, level
  <2>3. /\ info.signal = level /\ info.battery = battery
        /\ info.voltage = voltage /\ info.voltage_current = current
    BY <2>2 DEF DeviceInfo
  <2> HIDE DEF info
  <2>4. NativeValues(info) = DeviceTruth(d)
    <3>1. info.signal = IF d.kind = "wired" THEN None ELSE 5 * d.level
      BY <1>4, <2>3 DEF level
    <3>2. info.battery = IF d.kind \in {"wireless", "bus"} /\ d.battery <= 10 THEN 10 * d.battery ELSE None
      BY <1>4, <2>3 DEF battery
    <3>3. /\ info.voltage = IF d.kind = "siren" THEN d.volts[1] ELSE None
          /\ info.voltage_current = IF d.kind = "siren" THEN d.volts[2] ELSE None
      BY <2>3 DEF voltage, current
    <3> QED
      BY <3>1, <3>2, <3>3, ValuesShown
  <2> QED
    BY <1>1, <1>2, <2>4 DEF info
<1>5. CASE d.kind \in {"wireless", "wired"}
  <2>1. g = Malformed
    BY <1>5
  <2>2. /\ info.signal = s.signal /\ info.battery = s.battery
        /\ info.voltage = None /\ info.voltage_current = None
    BY <2>1 DEF DeviceInfo
  <2> HIDE DEF info
  <2>3. info.signal = IF d.kind = "wired" THEN None ELSE 5 * d.level
    BY <1>1, <1>5, <2>2
  <2>4. info.battery = IF d.kind \in {"wireless", "bus"} /\ d.battery <= 10 THEN 10 * d.battery ELSE None
    BY <1>1, <1>5, <2>2
  <2>5. NativeValues(info) = DeviceTruth(d)
    BY <1>5, <2>2, <2>3, <2>4, ValuesShown
  <2> QED
    BY <1>1, <1>2, <2>5 DEF info
<1> QED
  BY <1>3, <1>4, <1>5

-----------------------------------------------------------------------------
(***************************************************************************)
(* Commands, and packets nobody handles.                                   *)
(***************************************************************************)
\* The mode a command asks for, as the panel names it.
ModeOf(mode) ==
  [DISARM |-> "DISARMED", ARM_AWAY |-> "ARMED_FULL", ARM_HOME |-> "ARMED_PARTIAL"][mode]

\* A command's packet is a packet, and the panel reads section and mode in it.
LEMMA OrderRead ==
  ASSUME NEW n \in Slots, NEW mode \in ArmModes
  PROVE  LET p == ModifySection(n, mode)
             byte == At(p.data, 1)
             block == (byte \div 16) - 8 IN
         /\ p \in Packets /\ p.type = UI_CONTROL /\ Len(p.data) = 2
         /\ (byte % 16) + 1 = n /\ block \in 1..3
         /\ <<"DISARMED", "ARMED_FULL", "ARMED_PARTIAL">>[block] = ModeOf(mode)
<1> DEFINE p == ModifySection(n, mode)
           byte == At(p.data, 1)
<1>1. byte = ModeBase(mode) + n
  BY OrderByteIsSum DEF OrderByte, Slots
<1>2. byte \in Byte
  BY OrdersAreDistinct DEF OrderByte, Slots
<1>3. /\ p.type = UI_CONTROL /\ p.data = <<MODIFY_SECTION, ModeBase(mode) + n>>
      /\ p = [type |-> p.type, data |-> p.data]
  BY DEF ModifySection
<1>4. p.data \in Seq(Byte) /\ Len(p.data) = 2
  <2> DEFINE number == ModeBase(mode) + n
  <2>1. number \in Byte /\ MODIFY_SECTION \in Byte /\ p.data = <<MODIFY_SECTION, number>>
    BY <1>1, <1>2, <1>3 DEF MODIFY_SECTION, Byte
  <2> HIDE DEF number, p
  <2> QED
    BY <2>1, Pair
<1>5. p \in Packets
  <2> DEFINE data == p.data
  <2>1. p = [type |-> UI_CONTROL, data |-> data] /\ data \in Seq(Byte)
    BY <1>3, <1>4
  <2>2. UI_CONTROL \in Byte \ {0}
    BY TypesAre
  <2> HIDE DEF data, p
  <2> QED
    BY <2>1, <2>2 DEF Packets
<1> HIDE DEF p, byte
<1>6. CASE mode = "DISARM"
  <2>1. (byte % 16) + 1 = n /\ (byte \div 16) - 8 = 1
    BY <1>1, <1>6, ModeBases DEF Slots
  <2> QED
    BY <1>3, <1>4, <1>5, <1>6, <2>1 DEF ModeOf, byte, p
<1>7. CASE mode = "ARM_AWAY"
  <2>1. (byte % 16) + 1 = n /\ (byte \div 16) - 8 = 2
    BY <1>1, <1>7, ModeBases DEF Slots
  <2> QED
    BY <1>3, <1>4, <1>5, <1>7, <2>1 DEF ModeOf, byte, p
<1>8. CASE mode = "ARM_HOME"
  <2>1. (byte % 16) + 1 = n /\ (byte \div 16) - 8 = 3
    BY <1>1, <1>8, ModeBases DEF Slots
  <2> QED
    BY <1>3, <1>4, <1>5, <1>8, <2>1 DEF ModeOf, byte, p
<1> QED
  BY <1>6, <1>7, <1>8 DEF ArmModes

\* A command and nothing else on the wire.
LEMMA OrderParts ==
  ASSUME NEW p \in Packets, Len(p.data) = 2
  PROVE  <<p>> \in Seq(Packets) /\ Len(Body(<<p>>)) <= 61 /\ Range(<<p>>) = {p} /\ <<p>> # <<>>
<1>1. <<p>> \in Seq(Packets) /\ Range(<<p>>) = {p}
  BY OnePacket
<1>2. Len(Body(<<p>>)) = 2 + Len(p.data)
  BY OnePacket
<1> DEFINE size == Len(Body(<<p>>))
<1>3. size = 4
  BY <1>2
<1> HIDE DEF size
<1>4. size <= 61
  BY <1>3
<1>5. <<p>> # <<>>
  OBVIOUS
<1> QED
  BY <1>1, <1>4, <1>5 DEF size

\* Packets around the size of a report: what nobody handles.
LEMMA SizesParts ==
  ASSUME NEW ps \in Sizes
  PROVE  ps \in Seq(Packets) /\ ps # <<>> /\ \A p \in Range(ps) : p.type = COMMAND
<1>1. PICK a \in {0, 30}, b \in 28..62 :
        ps = <<[type |-> COMMAND, data |-> [k \in 1..a |-> 0]],
               [type |-> COMMAND, data |-> [k \in 1..b |-> 1]]>>
  BY SMTT(40) DEF Sizes
<1> DEFINE first == [type |-> COMMAND, data |-> [k \in 1..a |-> 0]]
           second == [type |-> COMMAND, data |-> [k \in 1..b |-> 1]]
<1>2. a \in Nat /\ b \in Nat /\ 0 \in Byte /\ 1 \in Byte
  BY DEF Byte
<1>3. [k \in 1..a |-> 0] \in Seq(Byte) /\ [k \in 1..b |-> 1] \in Seq(Byte)
  BY <1>2
<1>4. first \in Packets /\ second \in Packets /\ first.type = COMMAND /\ second.type = COMMAND
  BY <1>3, TypesAre DEF Packets
<1>5. ps = <<first, second>>
  BY <1>1
<1> HIDE DEF first, second
<1>6. <<first, second>> # <<>>
  OBVIOUS
<1> QED
  BY <1>4, <1>5, <1>6, TwoPackets

\* A function on 1..n is a sequence.
LEMMA ListOf ==
  ASSUME NEW T, NEW n \in Nat, NEW f \in [1..n -> T]
  PROVE  f \in Seq(T) /\ Len(f) = n
OBVIOUS

\* Noise is bytes: a packet of a type nobody handles, and five small bytes.
LEMMA NoiseParts ==
  ASSUME NEW r \in Noise
  PROVE  /\ r \in [1..ReportSize -> Byte] /\ r[1] = 80 /\ r[2] = ReportSize - 7
         /\ \A j \in (ReportSize - 4)..ReportSize : r[j] \in 0..3
<1>1. PICK tail \in [1..5 -> 0..3] :
        r = <<80, ReportSize - 7>> \o [k \in 1..(ReportSize - 7) |-> 80] \o tail
  BY DEF Noise
<1> DEFINE head == <<80, ReportSize - 7>>
           fill == [k \in 1..(ReportSize - 7) |-> 80]
           front == head \o fill
<1>2. ReportSize \in 61..255
  BY ReportsAssumption, PanelDataAssumption
<1>3. head \in Seq(Byte) /\ fill \in Seq(Byte)
  <2>1. 80 \in Byte /\ ReportSize - 7 \in Byte /\ ReportSize - 7 \in Nat
    BY <1>2 DEF Byte
  <2> QED
    BY <2>1
<1>4. tail \in Seq(Byte) /\ Len(tail) = 5
  <2>1. 0..3 \subseteq Byte /\ 5 \in Nat
    BY DEF Byte
  <2>2. tail \in [1..5 -> Byte]
    BY <2>1
  <2> DEFINE five == 5
  <2>3. five \in Nat /\ tail \in [1..five -> Byte]
    BY <2>1, <2>2
  <2> HIDE DEF five
  <2>4. tail \in Seq(Byte) /\ Len(tail) = five
    BY <2>3, ListOf
  <2> QED
    BY <2>4 DEF five
<1>5. tail \in Seq(Byte)
  BY <1>4
<1>6. Len(head) = 2 /\ head[1] = 80 /\ head[2] = ReportSize - 7 /\ Len(fill) = ReportSize - 7
  BY <1>2
<1> HIDE DEF head, fill
<1>7. /\ front \in Seq(Byte) /\ Len(front) = Len(head) + Len(fill)
      /\ \A j \in 1..Len(head) : front[j] = head[j]
  BY <1>3, Joined
<1>8. front \in Seq(Byte)
  BY <1>7
<1>9. Len(front) = ReportSize - 5 /\ front[1] = 80 /\ front[2] = ReportSize - 7
  BY <1>2, <1>6, <1>7
<1> HIDE DEF front
<1>10. /\ front \o tail \in Seq(Byte) /\ Len(front \o tail) = Len(front) + Len(tail)
       /\ \A j \in 1..Len(front) : (front \o tail)[j] = front[j]
       /\ \A j \in 1..Len(tail) : (front \o tail)[Len(front) + j] = tail[j]
  BY <1>5, <1>8, Joined
<1>11. r = front \o tail
  BY <1>1 DEF front, head, fill
<1>12. r \in Seq(Byte) /\ Len(r) = ReportSize
  BY <1>2, <1>4, <1>9, <1>10, <1>11
<1>13. r \in [1..ReportSize -> Byte]
  BY <1>12
<1>14. r[1] = 80 /\ r[2] = ReportSize - 7
  BY <1>2, <1>9, <1>10, <1>11
<1>15. ASSUME NEW j \in (ReportSize - 4)..ReportSize PROVE r[j] \in 0..3
  <2> DEFINE m == j - (ReportSize - 5)
  <2>1. m \in 1..5 /\ j = (ReportSize - 5) + m
    BY <1>2
  <2> HIDE DEF m
  <2>2. r[j] = tail[m]
    BY <1>4, <1>9, <1>10, <1>11, <2>1
  <2> QED
    BY <2>1, <2>2
<1> QED
  BY <1>13, <1>14, <1>15

-----------------------------------------------------------------------------
(***************************************************************************)
(* The inductive invariant of PanelData.                                   *)
(***************************************************************************)
\* What the panel has to say, and the type of the packets that say it.
Topics == {"sysinfo", "sections", "activity"}

TypeOf == [sysinfo |-> SYS_INFO, sections |-> SECTIONS, activity |-> DEVICES_STATES]

OnTheWay == {name \in Topics : \E k \in DOMAIN sent : sent[k].type = TypeOf[name]}

\* A report of unknown origin brings packets of types nobody handles.
Noisy ==
  /\ sent = <<>> /\ pc \in {"decode", "done"} /\ report \in Noise
  /\ i = 0 \/ i >= ReportSize - 5
  /\ \A k \in DOMAIN packets : packets[k].type \in {80} \cup 1..3

\* What can be on the wire, and for whom.
Traffic ==
  /\ pc = "idle" => asked = NoCommand
  /\ asked # NoCommand =>
       to = "panel" /\ device = NoDevice /\ sent = <<ModifySection(asked.section, asked.mode)>>
  /\ pc # "idle" /\ asked = NoCommand =>
       \/ to = "panel" /\ device = NoDevice /\ sent \in Sizes
       \/ to = "integration" /\ device = NoDevice /\ Noisy
       \/ to = "integration" /\ device # NoDevice /\ sent = DeviceAnswer(device)
       \/ to = "integration" /\ device = NoDevice
            /\ \E what \in (SUBSET (Topics \ unsent)) \ {{}} : sent = Said(what)

\* The slots that are not in use stay OFF.
OthersAreOff == \A n \in Slots \ Sections : panel[n] = Off

\* The response fields, before and after a device's answer has been delivered.
Answered ==
  device # NoDevice =>
    /\ pc # "idle" => status = Malformed /\ diagnostic = Malformed
    /\ pc = "idle" =>
         /\ status = DecodeDeviceStatus(StatusPacket(device).data)
         /\ diagnostic = IF device.kind \in {"bus", "siren"}
                         THEN DecodeDeviceDiagnostic(DiagnosticPacket(device).data)
                         ELSE Malformed

\* What is neither to be said nor on its way has arrived; while the sections
\* are on their way the entities still show what was said of them before.
Shown ==
  /\ \A n \in DOMAIN alarm \cap DOMAIN sections : alarm[n] = AlarmState(sections[n])
  /\ "sections" \notin OnTheWay =>
       /\ \A n \in DOMAIN sections : AlarmState(sections[n]) = Truth(lastTold[n])
       /\ \A n \in DOMAIN alarm : alarm[n] = Truth(lastTold[n])
  /\ "sections" \in OnTheWay =>
       /\ \A n \in Slots : panel[n] # Off => lastTold[n] = panel[n]
       /\ \A n \in DOMAIN alarm : panel[n] = Off => alarm[n] = Truth(lastTold[n])
  /\ "sections" \notin OnTheWay \cup unsent => DOMAIN sections = {n \in Slots : panel[n] # Off}
  /\ "activity" \notin OnTheWay \cup unsent => activeDevices = active
  /\ DOMAIN systemInfo \subseteq {MODEL, MAC}
  /\ "sysinfo" \notin OnTheWay \cup unsent => systemInfo = SystemTexts

IInv ==
  /\ TypeOK /\ WireInv
  /\ Traffic /\ OthersAreOff /\ Answered /\ Shown

-----------------------------------------------------------------------------
(***************************************************************************)
(* What the traffic brings.                                                *)
(***************************************************************************)
\* What is said is something, and of the topics it is about.
LEMMA SaidTypes ==
  ASSUME panel \in [Slots -> SectionStates], active \subseteq 1..31,
         NEW what, what \subseteq Topics
  PROVE  /\ \A name \in Topics :
              name \in what <=> \E p \in Range(Said(what)) : p.type = TypeOf[name]
         /\ what # {} => Said(what) # <<>>
<1> DEFINE ps == Said(what)
<1>1. /\ ps \in Seq(Packets)
      /\ Range(ps) =
           (IF "sysinfo" \in what THEN {SysInfoPacket(MODEL), SysInfoPacket(MAC)} ELSE {})
             \cup (IF "sections" \in what THEN {SectionsPacket(panel)} ELSE {})
             \cup (IF "activity" \in what THEN {ActivityPacket(active)} ELSE {})
  BY SaidParts
<1>2. /\ SysInfoPacket(MODEL).type = SYS_INFO /\ SysInfoPacket(MAC).type = SYS_INFO
      /\ SectionsPacket(panel).type = SECTIONS /\ ActivityPacket(active).type = DEVICES_STATES
  BY DEF SysInfoPacket, SectionsPacket, ActivityPacket
<1>3. /\ TypeOf["sysinfo"] = SYS_INFO /\ TypeOf["sections"] = SECTIONS
      /\ TypeOf["activity"] = DEVICES_STATES
      /\ SYS_INFO # SECTIONS /\ SECTIONS # DEVICES_STATES /\ SYS_INFO # DEVICES_STATES
  BY TypesAre DEF TypeOf
<1> HIDE DEF ps
<1>4. \A name \in Topics : name \in what <=> \E p \in Range(ps) : p.type = TypeOf[name]
  BY <1>1, <1>2, <1>3 DEF Topics
<1>5. ASSUME what # {} PROVE ps # <<>>
  <2>1. PICK name \in Topics : name \in what
    BY <1>5
  <2>2. Range(ps) # {}
    BY <1>4, <2>1
  <2> QED
    BY <2>2, NonePackets
<1> QED
  BY <1>4, <1>5 DEF ps

\* A packet that is found is one of the range.
LEMMA InRange ==
  ASSUME NEW ps, NEW k \in DOMAIN ps
  PROVE  ps[k] \in Range(ps)
BY DEF Range

\* What is in the range is found somewhere.
LEMMA RangeIn ==
  ASSUME NEW ps, NEW p \in Range(ps)
  PROVE  \E k \in DOMAIN ps : ps[k] = p
BY DEF Range

\* The topics on the wire, by the packets.
LEMMA OnTheWayIs ==
  ASSUME NEW name \in Topics
  PROVE  name \in OnTheWay <=> \E p \in Range(sent) : p.type = TypeOf[name]
BY DEF OnTheWay, Range

\* Nothing of the panel's topics is on the wire but what it has said.
LEMMA OthersOnTheWay ==
  ASSUME \A p \in Range(sent) : p.type \in {COMMAND, UI_CONTROL, DEVICE_INFO}
  PROVE  OnTheWay = {}
<1>1. \A name \in Topics : TypeOf[name] \notin {COMMAND, UI_CONTROL, DEVICE_INFO}
  BY TypesAre DEF Topics, TypeOf
<1>2. \A name \in Topics : name \notin OnTheWay
  BY <1>1, OnTheWayIs
<1> QED
  BY <1>2 DEF OnTheWay

\* The packets of a type in a sequence, first and last.
LEMMA OfBounds ==
  ASSUME packets \in Seq(Packets), NEW t, Of(t) # {}
  PROVE  Max(Of(t)) \in Of(t) /\ Min(Of(t)) \in Of(t)
<1> DEFINE n == Len(packets)
<1>1. n \in Nat /\ Of(t) \subseteq 1..n
  BY DEF Of
<1> HIDE DEF n
<1> QED
  BY <1>1, MaxMinOf

\* There is one of a type among the packets found.
LEMMA OfIs ==
  ASSUME NEW t
  PROVE  Of(t) # {} <=> \E p \in Range(packets) : p.type = t
BY DEF Of, Range

\* Noise has nothing in it that anybody handles.
LEMMA NoiseIsNobodys ==
  ASSUME Noisy, NEW t \in {SYS_INFO, SECTIONS, COMMAND, UI_CONTROL, DEVICE_INFO, DEVICES_STATES}
  PROVE  Of(t) = {}
<1>1. t \notin {80} \cup 1..3
  BY TypesAre
<1> QED
  BY <1>1 DEF Noisy, Of

\* What each report on the wire is.
LEMMA TrafficParts ==
  ASSUME TypeOK, Traffic, pc # "idle", ~Noisy
  PROVE  sent \in Seq(Packets) /\ sent # <<>>
<1>1. panel \in [Slots -> SectionStates] /\ active \subseteq 1..31
  BY PanelDataAssumption DEF TypeOK
<1>2. CASE asked # NoCommand
  <2>1. sent \in Seq(Packets)
    BY DEF TypeOK, WireTypeOK
  <2>2. sent = <<ModifySection(asked.section, asked.mode)>>
    BY <1>2 DEF Traffic
  <2>3. <<ModifySection(asked.section, asked.mode)>> # <<>>
    OBVIOUS
  <2> QED
    BY <2>1, <2>2, <2>3
<1>3. CASE asked = NoCommand /\ sent \in Sizes
  BY <1>3, SizesParts
<1>4. CASE asked = NoCommand /\ device # NoDevice /\ sent = DeviceAnswer(device)
  <2>1. device \in PossibleDevices
    BY <1>4, PanelDataAssumption DEF TypeOK
  <2> QED
    BY <1>4, <2>1, AnswerParts
<1>5. CASE asked = NoCommand /\ \E what \in (SUBSET (Topics \ unsent)) \ {{}} : sent = Said(what)
  <2>1. PICK what \in (SUBSET (Topics \ unsent)) \ {{}} : sent = Said(what)
    BY <1>5
  <2>2. what \subseteq Topics /\ what # {}
    OBVIOUS
  <2> QED
    BY <1>1, <2>1, <2>2, SaidTypes, SaidParts
<1> QED
  BY <1>2, <1>3, <1>4, <1>5 DEF Traffic

\* A report that is not of unknown origin brings its packets.
LEMMA BroughtAre ==
  ASSUME IInv, pc = "done", ~Noisy
  PROVE  packets = sent /\ sent # <<>>
<1>1. sent # <<>>
  BY TrafficParts DEF IInv
<1> QED
  BY <1>1 DEF IInv, WireInv

\* The packets of a type in what has arrived, by what was sent.
LEMMA BroughtOf ==
  ASSUME IInv, pc = "done", ~Noisy, NEW t
  PROVE  /\ Of(t) # {} <=> \E p \in Range(sent) : p.type = t
         /\ \A k \in Of(t) : packets[k] \in Range(sent) /\ packets[k].type = t
<1>1. packets = sent
  BY BroughtAre
<1>2. \A k \in Of(t) : packets[k] \in Range(packets) /\ packets[k].type = t
  BY DEF Of, Range
<1> QED
  BY <1>1, <1>2, OfIs

\* While nothing comes for the integration there is none of the panel's topics
\* on the wire.
LEMMA NoTopics ==
  ASSUME IInv, pc = "idle" \/ to = "panel" \/ device # NoDevice \/ sent = <<>>
  PROVE  OnTheWay = {}
<1>1. CASE sent = <<>>
  <2>1. Range(sent) = {}
    BY <1>1, NonePackets
  <2> QED
    BY <2>1, OthersOnTheWay
<1>2. CASE pc = "idle"
  BY <1>1, <1>2 DEF IInv, WireInv
<1>3. CASE asked # NoCommand
  <2>1. sent = <<ModifySection(asked.section, asked.mode)>>
    BY <1>3 DEF IInv, Traffic
  <2>2. asked.section \in Slots /\ asked.mode \in ArmModes
    BY <1>3, PanelDataAssumption DEF IInv, TypeOK
  <2>3. Range(sent) = {ModifySection(asked.section, asked.mode)}
    BY <2>1, <2>2, OrderRead, OrderParts
  <2>4. ModifySection(asked.section, asked.mode).type = UI_CONTROL
    BY DEF ModifySection
  <2> QED
    BY <2>3, <2>4, OthersOnTheWay
<1>4. CASE asked = NoCommand /\ sent \in Sizes
  BY <1>4, SizesParts, OthersOnTheWay
<1>5. CASE asked = NoCommand /\ device # NoDevice /\ sent = DeviceAnswer(device)
  <2>1. device \in PossibleDevices
    BY <1>5, PanelDataAssumption DEF IInv, TypeOK
  <2>2. \A p \in Range(sent) : p.type \in {COMMAND, DEVICE_INFO}
    BY <1>5, <2>1, AnswerParts
  <2> QED
    BY <2>2, OthersOnTheWay
<1>6. to = "integration" \/ to = "panel"
  BY DEF IInv, TypeOK, WireTypeOK
<1> QED
  BY <1>1, <1>2, <1>3, <1>4, <1>5, <1>6 DEF IInv, Traffic

\* What has arrived for the integration of each topic that is on the way.
LEMMA Arrived ==
  ASSUME IInv, pc = "done", to = "integration"
  PROVE  /\ \A name \in Topics : name \in OnTheWay <=> Of(TypeOf[name]) # {}
         /\ \A k \in Of(SECTIONS) : packets[k] = SectionsPacket(panel)
         /\ \A k \in Of(DEVICES_STATES) : packets[k] = ActivityPacket(active)
         /\ \A k \in Of(SYS_INFO) : packets[k] \in {SysInfoPacket(MODEL), SysInfoPacket(MAC)}
         /\ "sysinfo" \in OnTheWay =>
              \A info \in {SysInfoPacket(MODEL), SysInfoPacket(MAC)} :
                \E k \in Of(SYS_INFO) : packets[k] = info
         /\ OnTheWay \cap unsent = {}
         /\ OnTheWay # {} => Of(COMMAND) = {} /\ Of(DEVICE_INFO) = {}
<1>1. asked = NoCommand
  BY DEF IInv, Traffic
<1>2. \A name \in Topics : TypeOf[name] \in {SYS_INFO, SECTIONS, DEVICES_STATES}
  BY DEF Topics, TypeOf
<1>3. /\ TypeOf["sysinfo"] = SYS_INFO /\ TypeOf["sections"] = SECTIONS
      /\ TypeOf["activity"] = DEVICES_STATES
      /\ Topics = {"sysinfo", "sections", "activity"}
  BY DEF TypeOf, Topics
<1>4. CASE Noisy
  <2>1. OnTheWay = {}
    BY <1>4, NoTopics DEF Noisy
  <2>2. Of(SYS_INFO) = {} /\ Of(SECTIONS) = {} /\ Of(DEVICES_STATES) = {}
    BY <1>4, NoiseIsNobodys
  <2> QED
    BY <1>2, <2>1, <2>2
<1>5. ASSUME ~Noisy
      PROVE  \A name \in Topics : name \in OnTheWay <=> Of(TypeOf[name]) # {}
  BY <1>5, BroughtOf, OnTheWayIs
<1>6. CASE ~Noisy /\ device # NoDevice
  <2>1. OnTheWay = {}
    BY <1>6, NoTopics
  <2>2. Of(SYS_INFO) = {} /\ Of(SECTIONS) = {} /\ Of(DEVICES_STATES) = {}
    BY <1>3, <1>5, <1>6, <2>1
  <2> QED
    BY <1>2, <2>1, <2>2
<1>7. CASE ~Noisy /\ \E what \in (SUBSET (Topics \ unsent)) \ {{}} : sent = Said(what)
  <2>1. PICK what \in (SUBSET (Topics \ unsent)) \ {{}} : sent = Said(what)
    BY <1>7
  <2>2. panel \in [Slots -> SectionStates] /\ active \subseteq 1..31
    BY PanelDataAssumption DEF IInv, TypeOK
  <2>3. Range(sent) =
          (IF "sysinfo" \in what THEN {SysInfoPacket(MODEL), SysInfoPacket(MAC)} ELSE {})
            \cup (IF "sections" \in what THEN {SectionsPacket(panel)} ELSE {})
            \cup (IF "activity" \in what THEN {ActivityPacket(active)} ELSE {})
    BY <2>1, <2>2, SaidParts
  <2>4. what \subseteq Topics /\ what \cap unsent = {}
    OBVIOUS
  <2>5. \A name \in Topics : name \in what <=> \E p \in Range(sent) : p.type = TypeOf[name]
    BY <2>1, <2>2, <2>4, SaidTypes
  <2>6. OnTheWay = what
    BY <2>4, <2>5, OnTheWayIs DEF OnTheWay
  <2>7. /\ SysInfoPacket(MODEL).type = SYS_INFO /\ SysInfoPacket(MAC).type = SYS_INFO
        /\ SectionsPacket(panel).type = SECTIONS /\ ActivityPacket(active).type = DEVICES_STATES
    BY DEF SysInfoPacket, SectionsPacket, ActivityPacket
  <2>8. \A t : /\ Of(t) # {} <=> \E p \in Range(sent) : p.type = t
               /\ \A k \in Of(t) : packets[k] \in Range(sent) /\ packets[k].type = t
    BY <1>7, BroughtOf
  <2>9. /\ \A k \in Of(SECTIONS) : packets[k] = SectionsPacket(panel)
        /\ \A k \in Of(DEVICES_STATES) : packets[k] = ActivityPacket(active)
        /\ \A k \in Of(SYS_INFO) : packets[k] \in {SysInfoPacket(MODEL), SysInfoPacket(MAC)}
    BY <2>3, <2>7, <2>8, TypesAre
  <2>10. Of(COMMAND) = {} /\ Of(DEVICE_INFO) = {}
    BY <2>3, <2>7, <2>8, TypesAre
  <2>11. ASSUME "sysinfo" \in what, NEW info \in {SysInfoPacket(MODEL), SysInfoPacket(MAC)}
         PROVE  \E k \in Of(SYS_INFO) : packets[k] = info
    <3>1. info \in Range(packets)
      BY <1>7, <2>3, <2>11, BroughtAre
    <3>2. PICK k \in DOMAIN packets : packets[k] = info
      BY <3>1, RangeIn
    <3> QED
      BY <2>7, <3>2 DEF Of
  <2> QED
    BY <1>5, <1>7, <2>4, <2>6, <2>9, <2>10, <2>11
<1> QED
  BY <1>1, <1>4, <1>6, <1>7 DEF IInv, Traffic

-----------------------------------------------------------------------------
(***************************************************************************)
(* The invariant is kept by each action.                                   *)
(***************************************************************************)
\* The panel's data when a report is delivered.
LEMMA DataDelivered ==
  ASSUME IInv, Deliver
  PROVE  /\ sections' = IF "sections" \in OnTheWay
                        THEN DecodeSections(SectionsPacket(panel).data) ELSE sections
         /\ activeDevices' = IF "activity" \in OnTheWay THEN active ELSE activeDevices
         /\ DOMAIN systemInfo' \subseteq {MODEL, MAC}
         /\ "sysinfo" \in OnTheWay => systemInfo' = SystemTexts
         /\ "sysinfo" \notin OnTheWay => systemInfo' = [k \in DOMAIN systemInfo |-> systemInfo[k]]
         /\ alarm' = IF sections' # sections \/ activeDevices' # activeDevices
                     THEN ShownAfter(sections') ELSE alarm
         /\ OnTheWay \cap unsent = {} /\ OnTheWay' = {}
<1>1. pc = "done" /\ to = "integration" /\ Clear /\ ProcessPackets
  BY DEF Deliver
<1>2. /\ packets \in Seq(Packets) /\ active \subseteq 1..31
      /\ panel \in [Slots -> SectionStates] /\ DOMAIN systemInfo \subseteq {MODEL, MAC}
  BY PanelDataAssumption DEF IInv, TypeOK, WireTypeOK, Shown
<1>3. /\ "sections" \in OnTheWay <=> Of(SECTIONS) # {}
      /\ "activity" \in OnTheWay <=> Of(DEVICES_STATES) # {}
      /\ "sysinfo" \in OnTheWay <=> Of(SYS_INFO) # {}
  BY <1>1, Arrived DEF Topics, TypeOf
<1>4. sections' = IF "sections" \in OnTheWay
                  THEN DecodeSections(SectionsPacket(panel).data) ELSE sections
  <2>1. sections' = IF Of(SECTIONS) = {} THEN sections
                    ELSE DecodeSections(packets[Max(Of(SECTIONS))].data)
    BY <1>1 DEF ProcessPackets, LastOf
  <2>2. Of(SECTIONS) # {} => packets[Max(Of(SECTIONS))] = SectionsPacket(panel)
    BY <1>1, <1>2, Arrived, OfBounds
  <2> QED
    BY <1>3, <2>1, <2>2
<1>5. activeDevices' = IF "activity" \in OnTheWay THEN active ELSE activeDevices
  <2>1. activeDevices' = IF Of(DEVICES_STATES) = {} THEN activeDevices
                         ELSE DecodeDevicesStates(packets[Max(Of(DEVICES_STATES))].data)
    BY <1>1 DEF ProcessPackets, LastOf
  <2>2. Of(DEVICES_STATES) # {} => packets[Max(Of(DEVICES_STATES))] = ActivityPacket(active)
    BY <1>1, <1>2, Arrived, OfBounds
  <2>3. DecodeDevicesStates(ActivityPacket(active).data) = active
    BY <1>2, ActivityRead
  <2> QED
    BY <1>3, <2>1, <2>2, <2>3
<1> DEFINE infos == {DecodeSystemInfo(packets[k].data) : k \in Of(SYS_INFO)} \ {Malformed}
           kinds == {info.kind : info \in infos}
           told(k) == [kind |-> k, value |-> SystemTexts[k]]
<1>6. systemInfo' = [k \in kinds \cup DOMAIN systemInfo |->
                       IF k \in kinds THEN (CHOOSE info \in infos : info.kind = k).value
                       ELSE systemInfo[k]]
  BY <1>1 DEF ProcessPackets
<1>7. \A k \in {MODEL, MAC} :
         DecodeSystemInfo(SysInfoPacket(k).data) = told(k) /\ told(k) # Malformed
  BY SystemInfoRead
<1>8. infos \subseteq {told(MODEL), told(MAC)}
  BY <1>1, <1>7, Arrived
<1>9. kinds \subseteq {MODEL, MAC}
  BY <1>8
<1>10. DOMAIN systemInfo' \subseteq {MODEL, MAC}
  <2> HIDE DEF kinds, infos
  <2> QED
    BY <1>2, <1>6, <1>9
<1>11. ASSUME "sysinfo" \in OnTheWay PROVE systemInfo' = SystemTexts
  <2>1. \A k \in {MODEL, MAC} : told(k) \in infos
    BY <1>1, <1>7, <1>11, Arrived
  <2>2. infos = {told(MODEL), told(MAC)}
    BY <1>8, <2>1
  <2>3. kinds = {MODEL, MAC}
    <3>1. told(MODEL).kind = MODEL /\ told(MAC).kind = MAC
      OBVIOUS
    <3> HIDE DEF infos, told
    <3> QED
      BY <2>2, <3>1
  <2>4. ASSUME NEW k \in {MODEL, MAC}
        PROVE  (CHOOSE info \in infos : info.kind = k).value = SystemTexts[k]
    <3>1. told(k) \in infos /\ told(k).kind = k
      BY <2>1
    <3>2. \A info \in infos : info.kind = k => info = told(k)
      BY <2>2
    <3> DEFINE chosen == CHOOSE info \in infos : info.kind = k
    <3>3. chosen \in infos /\ chosen.kind = k
      <4> HIDE DEF infos, told
      <4> QED
        BY <3>1
    <3>4. chosen = told(k)
      BY <3>2, <3>3
    <3>5. told(k).value = SystemTexts[k]
      OBVIOUS
    <3> QED
      BY Zenon, <3>4, <3>5 DEF chosen
  <2>5. SystemTexts = [k \in {MODEL, MAC} |-> SystemTexts[k]]
    BY DEF SystemTexts
  <2> HIDE DEF infos, kinds
  <2>6. kinds \cup DOMAIN systemInfo = {MODEL, MAC}
    BY <1>2, <2>3
  <2> QED
    BY <1>6, <2>3, <2>4, <2>5, <2>6
<1>12. ASSUME "sysinfo" \notin OnTheWay
       PROVE  systemInfo' = [k \in DOMAIN systemInfo |-> systemInfo[k]]
  <2>1. kinds = {}
    BY <1>3, <1>12
  <2> HIDE DEF kinds, infos
  <2> QED
    BY <1>6, <2>1
<1>13. OnTheWay \cap unsent = {}
  BY <1>1, Arrived
<1>14. OnTheWay' = {}
  BY <1>1 DEF OnTheWay, Clear
<1>15. alarm' = IF sections' # sections \/ activeDevices' # activeDevices
                THEN ShownAfter(sections') ELSE alarm
  BY <1>1 DEF ProcessPackets
<1> QED
  BY <1>4, <1>5, <1>10, <1>11, <1>12, <1>13, <1>14, <1>15

\* What is shown when a report has been delivered.
LEMMA DeliverKeepsShown ==
  ASSUME IInv, Deliver
  PROVE  Shown'
<1> USE DataDelivered
<1>1. UNCHANGED <<panel, active, unsent, lastTold>>
  BY DEF Deliver, panelVars
<1>2. panel \in [Slots -> SectionStates] /\ DOMAIN alarm \subseteq Slots /\ unsent \subseteq Topics
  BY PanelDataAssumption DEF IInv, TypeOK, Topics
<1> DEFINE read == DecodeSections(SectionsPacket(panel).data)
<1>3. /\ DOMAIN read = {n \in Slots : panel[n] # Off}
      /\ \A n \in DOMAIN read : AlarmState(read[n]) = Truth(panel[n])
  BY <1>2, SectionsRead
<1> HIDE DEF read
<1>4. sections' = IF "sections" \in OnTheWay THEN read ELSE sections
  BY DEF read
<1>5. \A n \in DOMAIN sections' : AlarmState(sections'[n]) = Truth(lastTold[n])
  BY <1>3, <1>4 DEF IInv, Shown
<1>6. "sections" \notin unsent => DOMAIN sections' = {n \in Slots : panel[n] # Off}
  BY <1>3, <1>4 DEF IInv, Shown
<1>7. DOMAIN alarm' = DOMAIN alarm
  BY DEF ShownAfter
<1>8. \A n \in DOMAIN alarm : n \notin DOMAIN sections' => alarm[n] = Truth(lastTold[n])
  BY <1>2, <1>3, <1>4 DEF IInv, Shown
<1>9. DOMAIN systemInfo' \subseteq {MODEL, MAC} /\ OnTheWay' = {}
  OBVIOUS
<1>10. "activity" \notin unsent => activeDevices' = active
  BY DEF IInv, Shown
<1>11. "sysinfo" \notin unsent => systemInfo' = SystemTexts
  <2>1. SystemTexts = [k \in DOMAIN SystemTexts |-> SystemTexts[k]]
    BY DEF SystemTexts
  <2>2. "sysinfo" \notin OnTheWay \cup unsent => systemInfo = SystemTexts
    BY DEF IInv, Shown
  <2> QED
    BY <2>1, <2>2
<1>12. /\ \A n \in DOMAIN alarm : alarm'[n] = Truth(lastTold[n])
       /\ \A n \in DOMAIN alarm \cap DOMAIN sections' : alarm'[n] = AlarmState(sections'[n])
  <2>1. CASE sections' # sections \/ activeDevices' # activeDevices
    <3>1. \A n \in DOMAIN alarm :
             alarm'[n] = IF n \in DOMAIN sections' THEN AlarmState(sections'[n]) ELSE alarm[n]
      BY <2>1 DEF ShownAfter
    <3> QED
      BY <1>5, <1>8, <3>1
  <2>2. CASE sections' = sections /\ alarm' = alarm
    <3>1. \A n \in DOMAIN alarm \cap DOMAIN sections : alarm[n] = AlarmState(sections[n])
      BY DEF IInv, Shown
    <3> QED
      BY <1>5, <1>8, <2>2, <3>1
  <2> QED
    BY <2>1, <2>2
<1> QED
  BY <1>1, <1>5, <1>6, <1>7, <1>9, <1>10, <1>11, <1>12 DEF Shown

\* Whatever the coordinator holds, an alarm entity shows one of its states.
LEMMA ShownIsAState ==
  ASSUME NEW section
  PROVE  AlarmState(section) \in AlarmStates
BY DEF AlarmState, AlarmStates

\* The response fields when a device's answer has been delivered.
LEMMA DeliverKeepsAnswered ==
  ASSUME IInv, Deliver
  PROVE  Answered'
<1> SUFFICES ASSUME device # NoDevice
             PROVE  /\ status' = DecodeDeviceStatus(StatusPacket(device).data)
                    /\ diagnostic' = IF device.kind \in {"bus", "siren"}
                                     THEN DecodeDeviceDiagnostic(DiagnosticPacket(device).data)
                                     ELSE Malformed
  BY DEF Answered, Deliver, Clear
<1>1. pc = "done" /\ to = "integration" /\ CheckResponses
  BY DEF Deliver
<1>2. sent = DeviceAnswer(device) /\ ~Noisy /\ device \in PossibleDevices
  <2>1. device \in PossibleDevices
    BY PanelDataAssumption DEF IInv, TypeOK
  <2>2. asked = NoCommand
    BY <1>1 DEF IInv, Traffic
  <2>3. sent = DeviceAnswer(device)
    BY <1>1, <2>2 DEF IInv, Traffic
  <2>4. sent # <<>>
    BY <2>1, <2>3, AnswerParts
  <2> QED
    BY <2>1, <2>3, <2>4 DEF Noisy
<1> DEFINE p == StatusPacket(device)
           q == DiagnosticPacket(device)
           both == device.kind \in {"bus", "siren"}
<1>3. /\ Range(sent) = {p} \cup (IF both THEN {q} ELSE {})
      /\ p.type = COMMAND /\ (both => q.type = DEVICE_INFO)
  BY <1>2, AnswerParts
<1>4. \A t : /\ Of(t) # {} <=> \E r \in Range(sent) : r.type = t
             /\ \A k \in Of(t) : packets[k] \in Range(sent) /\ packets[k].type = t
  BY <1>1, <1>2, BroughtOf
<1>5. packets \in Seq(Packets) /\ status = Malformed /\ diagnostic = Malformed
  BY <1>1 DEF IInv, TypeOK, WireTypeOK, Answered
<1> HIDE DEF p, q, both
<1>6. Of(COMMAND) # {} /\ \A k \in Of(COMMAND) : packets[k] = p
  BY <1>3, <1>4, TypesAre
<1>7. /\ both => Of(DEVICE_INFO) # {} /\ \A k \in Of(DEVICE_INFO) : packets[k] = q
      /\ ~both => Of(DEVICE_INFO) = {}
  BY <1>3, <1>4, TypesAre
<1>8. status' = DecodeDeviceStatus(p.data)
  <2> DEFINE sound == {k \in Of(COMMAND) : DecodeDeviceStatus(packets[k].data) # Malformed}
  <2>1. status' = IF sound = {} THEN status ELSE DecodeDeviceStatus(packets[Max(sound)].data)
    BY <1>1 DEF CheckResponses, LastSound
  <2>2. CASE DecodeDeviceStatus(p.data) = Malformed
    BY <1>5, <1>6, <2>1, <2>2
  <2>3. CASE DecodeDeviceStatus(p.data) # Malformed
    <3>1. sound = Of(COMMAND)
      BY <1>6, <2>3
    <3> HIDE DEF sound
    <3> QED
      BY <1>5, <1>6, <2>1, <3>1, OfBounds
  <2> QED
    BY <2>2, <2>3
<1>9. diagnostic' = IF both THEN DecodeDeviceDiagnostic(q.data) ELSE Malformed
  <2> DEFINE sound == {k \in Of(DEVICE_INFO) : DecodeDeviceDiagnostic(packets[k].data) # Malformed}
  <2>1. diagnostic' = IF sound = {} THEN diagnostic
                      ELSE DecodeDeviceDiagnostic(packets[Max(sound)].data)
    BY <1>1 DEF CheckResponses, LastSound
  <2>2. CASE ~both
    BY <1>5, <1>7, <2>1, <2>2
  <2>3. CASE both /\ DecodeDeviceDiagnostic(q.data) = Malformed
    BY <1>5, <1>7, <2>1, <2>3
  <2>4. CASE both /\ DecodeDeviceDiagnostic(q.data) # Malformed
    <3>1. sound = Of(DEVICE_INFO)
      BY <1>7, <2>4
    <3> HIDE DEF sound
    <3> QED
      BY <1>5, <1>7, <2>1, <2>4, <3>1, OfBounds
  <2> QED
    BY <2>2, <2>3, <2>4
<1> QED
  BY <1>8, <1>9 DEF p, q, both

\* A report is handed to the coordinator and the client.
LEMMA DeliverKeeps ==
  ASSUME IInv, Deliver
  PROVE  IInv'
<1>1. WireInv'
  BY ClearKeepsWire DEF IInv, Deliver
<1>2. Shown' /\ Answered'
  BY DeliverKeepsShown, DeliverKeepsAnswered
<1>3. asked' = NoCommand /\ pc' = "idle"
  BY DEF IInv, Traffic, Deliver, Clear
<1>4. OthersAreOff' /\ Traffic'
  BY <1>3 DEF IInv, OthersAreOff, Traffic, Deliver, panelVars
<1>5. TypeOK'
  <2>1. DOMAIN sections' \subseteq Sections
    <3>1. DOMAIN DecodeSections(SectionsPacket(panel).data) = {n \in Slots : panel[n] # Off}
      BY SectionsRead DEF IInv, TypeOK
    <3>2. {n \in Slots : panel[n] # Off} \subseteq Sections
      BY DEF IInv, OthersAreOff
    <3> QED
      BY <3>1, <3>2, DataDelivered DEF IInv, TypeOK
  <2>2. activeDevices' \subseteq 1..31
    BY DataDelivered, PanelDataAssumption DEF IInv, TypeOK
  <2>3. DOMAIN systemInfo' \subseteq SysInfoTypes
    BY DataDelivered DEF SysInfoTypes
  <2>4. DOMAIN alarm' \subseteq Sections /\ \A n \in DOMAIN alarm' : alarm'[n] \in AlarmStates
    <3>1. CASE alarm' = alarm
      BY <3>1 DEF IInv, TypeOK
    <3>2. CASE alarm' = ShownAfter(sections')
      BY <3>2, ShownIsAState DEF IInv, TypeOK, ShownAfter
    <3> QED
      BY <3>1, <3>2, DataDelivered
  <2>5. UNCHANGED <<panel, active, unsent, lastTold, changes, device, asked, setUp>>
    BY DEF Deliver, panelVars
  <2> QED
    BY <1>1, <2>1, <2>2, <2>3, <2>4, <2>5 DEF IInv, TypeOK, WireInv
<1> QED
  BY <1>1, <1>2, <1>4, <1>5 DEF IInv

\* The panel changes, or a device does: there is something more to be said.
LEMMA ChangesKeep ==
  ASSUME IInv, ChangeSection \/ ChangeDevice
  PROVE  IInv'
<1>1. /\ pc = "idle" /\ device = NoDevice /\ changes \in Nat /\ changes' = changes + 1 /\ changes < MaxChanges
      /\ UNCHANGED <<wireVars, lastTold, device, asked, dataVars, responseVars, setUp>>
  BY PanelDataAssumption DEF ChangeSection, ChangeDevice, Quiet, IInv, TypeOK
<1>2. UNCHANGED <<pc, to, sent, report, i, packets, sections, activeDevices, systemInfo, alarm,
                  status, diagnostic>>
  BY <1>1 DEF wireVars, dataVars, responseVars
<1>3. OnTheWay = {} /\ OnTheWay' = {}
  BY <1>1, <1>2, NoTopics DEF OnTheWay
<1>4. changes' \in 0..MaxChanges
  BY <1>1, PanelDataAssumption
<1>5. WireInv' /\ WireTypeOK'
  BY <1>2 DEF IInv, WireInv, WireTypeOK
<1>6. Traffic' /\ Answered'
  BY <1>1, <1>2 DEF IInv, Traffic, Answered, Noisy
<1>7. CASE ChangeSection
  <2>1. PICK n \in Sections, state \in SectionStates :
          panel' = [panel EXCEPT ![n] = state] /\ unsent' = unsent \cup {"sections"}
    BY <1>7 DEF ChangeSection, Becomes
  <2>2. active' = active
    BY <1>7 DEF ChangeSection
  <2>3. TypeOK'
    BY <1>1, <1>2, <1>4, <1>5, <2>1, <2>2 DEF IInv, TypeOK
  <2>4. OthersAreOff'
    BY <2>1 DEF IInv, OthersAreOff, TypeOK
  <2>5. Shown'
    BY <1>1, <1>2, <1>3, <2>1, <2>2 DEF IInv, Shown
  <2> QED
    BY <1>5, <1>6, <2>3, <2>4, <2>5 DEF IInv
<1>8. CASE ChangeDevice
  <2>1. PICK d \in Devices : active' = (active \cup {d}) \ (active \cap {d})
    BY <1>8 DEF ChangeDevice
  <2>2. panel' = panel /\ unsent' = unsent \cup {"activity"}
    BY <1>8 DEF ChangeDevice
  <2>3. TypeOK'
    BY <1>1, <1>2, <1>4, <1>5, <2>1, <2>2 DEF IInv, TypeOK
  <2>4. OthersAreOff'
    BY <2>2 DEF IInv, OthersAreOff
  <2>5. Shown'
    BY <1>1, <1>2, <1>3, <2>2 DEF IInv, Shown
  <2> QED
    BY <1>5, <1>6, <2>3, <2>4, <2>5 DEF IInv
<1> QED
  BY <1>7, <1>8

\* What the panel says changes with the panel only.
LEMMA SaidAgain ==
  ASSUME NEW what, UNCHANGED <<panel, active>>
  PROVE  Said(what)' = Said(what)
BY DEF Said

\* What is to be said goes on the wire.
LEMMA PushKeeps ==
  ASSUME IInv, Push
  PROVE  IInv'
<1>1. pc = "idle" /\ device = NoDevice /\ asked = NoCommand
  BY DEF Push, Quiet, IInv, Traffic
<1>2. UNCHANGED <<panel, active, changes, device, asked, sections, activeDevices, systemInfo, alarm,
                  status, diagnostic, setUp>>
  BY DEF Push, dataVars, responseVars
<1>3. PICK what \in (SUBSET unsent) \ {{}} :
        /\ Send(Said(what), "integration")
        /\ unsent' = unsent \ what
        /\ lastTold' = [n \in Slots |-> IF "sections" \in what /\ panel[n] # Off
                                       THEN panel[n] ELSE lastTold[n]]
  BY DEF Push
<1>4. /\ panel \in [Slots -> SectionStates] /\ active \subseteq 1..31
      /\ lastTold \in [Slots -> SectionStates]
      /\ unsent \subseteq Topics /\ what \subseteq Topics /\ what # {} /\ DOMAIN alarm \subseteq Slots
      /\ DOMAIN sections \subseteq Slots
  BY PanelDataAssumption DEF IInv, TypeOK, Topics
<1>5. pc' = "encode" /\ to' = "integration" /\ sent' = Said(what) /\ Said(what)' = Said(what)
  BY <1>2, <1>3, SaidAgain DEF Send
<1>6. WireInv'
  BY <1>3, <1>4, SaidParts, SendKeepsWire DEF IInv
<1>7. lastTold' \in [Slots -> SectionStates]
  BY <1>3, <1>4
<1>8. TypeOK'
  BY <1>2, <1>3, <1>6, <1>7 DEF IInv, TypeOK, WireInv
<1>9. Traffic'
  <2>1. what \in (SUBSET (Topics \ unsent')) \ {{}}
    BY <1>3, <1>4
  <2> QED
    BY <1>1, <1>2, <1>5, <2>1 DEF Traffic
<1>10. OthersAreOff' /\ Answered'
  BY <1>1, <1>2 DEF IInv, OthersAreOff, Answered
<1>11. OnTheWay = {}
  BY <1>1, NoTopics
<1>12. OnTheWay' = what
  <2>1. \A name \in Topics : name \in what <=> \E p \in Range(Said(what)) : p.type = TypeOf[name]
    BY <1>4, SaidTypes
  <2>2. OnTheWay' = {name \in Topics : \E k \in DOMAIN Said(what) : Said(what)[k].type = TypeOf[name]}
    BY <1>5 DEF OnTheWay
  <2> QED
    BY <1>4, <2>1, <2>2 DEF Range
<1>13. Shown'
  <2>1. \A n \in DOMAIN alarm \cap DOMAIN sections : alarm[n] = AlarmState(sections[n])
    BY DEF IInv, Shown
  <2>2. /\ \A n \in DOMAIN sections : AlarmState(sections[n]) = Truth(lastTold[n])
        /\ \A n \in DOMAIN alarm : alarm[n] = Truth(lastTold[n])
    BY <1>11 DEF IInv, Shown
  <2>3. "sections" \notin what => \A n \in Slots : lastTold'[n] = lastTold[n]
    BY <1>3
  <2>4. "sections" \notin what =>
          /\ \A n \in DOMAIN sections : AlarmState(sections[n]) = Truth(lastTold'[n])
          /\ \A n \in DOMAIN alarm : alarm[n] = Truth(lastTold'[n])
    BY <1>4, <2>2, <2>3
  <2>5. "sections" \in what =>
          /\ \A n \in Slots : panel[n] # Off => lastTold'[n] = panel[n]
          /\ \A n \in DOMAIN alarm : panel[n] = Off => alarm[n] = Truth(lastTold'[n])
    BY <1>3, <1>4, <2>2
  <2>6. \A name \in Topics : name \notin what \cup unsent' => name \notin OnTheWay \cup unsent
    BY <1>3, <1>11
  <2>7. /\ "sections" \notin what \cup unsent' => DOMAIN sections = {n \in Slots : panel[n] # Off}
        /\ "activity" \notin what \cup unsent' => activeDevices = active
        /\ DOMAIN systemInfo \subseteq {MODEL, MAC}
        /\ "sysinfo" \notin what \cup unsent' => systemInfo = SystemTexts
    BY <2>6 DEF IInv, Shown, Topics
  <2> QED
    BY <1>2, <1>12, <2>1, <2>4, <2>5, <2>7 DEF Shown
<1> QED
  BY <1>6, <1>8, <1>9, <1>10, <1>13 DEF IInv

\* Nothing but packets of that size is refused.
LEMMA OnlySizesAreRefused ==
  ASSUME IInv, RefuseTooLong
  PROVE  asked = NoCommand /\ to = "panel" /\ device = NoDevice
<1>1. pc = "encode" /\ Len(Body(sent)) > ReportSize
  BY DEF RefuseTooLong
<1>2. ReportSize \in Nat /\ ReportSize >= 61
  BY PanelDataAssumption, ReportsAssumption
<1>3. panel \in [Slots -> SectionStates] /\ active \subseteq 1..31
  BY PanelDataAssumption DEF IInv, TypeOK
<1>4. sent \in Seq(Packets)
  BY DEF IInv, TypeOK, WireTypeOK
<1> DEFINE size == Len(Body(sent))
<1>5. size \in Nat
  BY <1>4, BodyType, LenProperties
<1>6. size <= 61 => FALSE
  <2> HIDE DEF size
  <2>1. size > ReportSize
    BY <1>1 DEF size
  <2> QED
    BY <1>2, <1>5, <2>1
<1>7. asked = NoCommand
  <2> SUFFICES ASSUME asked # NoCommand PROVE FALSE
    OBVIOUS
  <2>1. sent = <<ModifySection(asked.section, asked.mode)>>
    BY DEF IInv, Traffic
  <2>2. asked.section \in Slots /\ asked.mode \in ArmModes
    BY PanelDataAssumption DEF IInv, TypeOK
  <2>3. size <= 61
    BY <2>1, <2>2, OrderRead, OrderParts
  <2> QED
    BY <1>6, <2>3
<1>8. ~Noisy
  BY <1>1 DEF Noisy
<1>9. CASE device # NoDevice /\ sent = DeviceAnswer(device)
  <2>1. device \in PossibleDevices
    BY <1>9, PanelDataAssumption DEF IInv, TypeOK
  <2>2. size <= 61
    BY <1>9, <2>1, AnswerParts
  <2> QED
    BY <1>6, <2>2
<1>10. ASSUME NEW what, sent = Said(what) PROVE FALSE
  <2>1. size <= 61
    BY <1>3, <1>10, SaidParts
  <2> QED
    BY <1>6, <2>1
<1> QED
  BY <1>1, <1>7, <1>8, <1>9, <1>10 DEF IInv, Traffic

\* Noise stays noise while it is decoded.
LEMMA NoiseIsTaken ==
  ASSUME IInv, Noisy, TakePacket
  PROVE  Noisy'
<1>1. /\ pc = "decode" /\ i + 1 < ReportSize /\ report[i + 1] # 0 /\ End <= ReportSize
      /\ packets' = Append(packets, [type |-> report[i + 1], data |-> SubSeq(report, i + 3, End)])
      /\ i' = End /\ UNCHANGED <<pc, sent, report>>
  BY DEF TakePacket, HasPacket
<1>2. /\ report \in [1..ReportSize -> Byte] /\ report[1] = 80 /\ report[2] = ReportSize - 7
      /\ \A j \in (ReportSize - 4)..ReportSize : report[j] \in 0..3
  BY NoiseParts DEF Noisy
<1>3. ReportSize \in Nat /\ ReportSize >= 61 /\ i \in Nat /\ packets \in Seq(Packets)
  BY PanelDataAssumption, ReportsAssumption DEF IInv, TypeOK, WireTypeOK
<1>4. report[i + 1] \in {80} \cup 1..3
  <2>1. CASE i = 0
    BY <1>2, <2>1
  <2>2. CASE i >= ReportSize - 5
    <3>1. i + 1 \in (ReportSize - 4)..ReportSize
      BY <1>1, <1>3, <2>2
    <3>2. report[i + 1] \in 0..3
      BY <1>2, <3>1
    <3> QED
      BY <1>1, <3>2
  <2> QED
    BY <2>1, <2>2 DEF Noisy
<1>5. i' = 0 \/ i' >= ReportSize - 5
  <2>1. CASE i = 0
    <3>1. End = 0 + 2 + (ReportSize - 7)
      BY <1>2, <2>1 DEF End
    <3> QED
      BY <1>1, <1>3, <3>1
  <2>2. CASE i >= ReportSize - 5
    <3>1. i + 2 \in (ReportSize - 4)..ReportSize
      BY <1>1, <1>3, <2>2
    <3>2. report[i + 2] \in 0..3
      BY <1>2, <3>1
    <3> QED
      BY <1>1, <1>3, <2>2, <3>2 DEF End
  <2> QED
    BY <2>1, <2>2 DEF Noisy
<1> DEFINE p == [type |-> report[i + 1], data |-> SubSeq(report, i + 3, End)]
<1>6. p.type \in {80} \cup 1..3
  BY <1>4
<1> HIDE DEF p
<1>7. \A k \in DOMAIN packets' : packets'[k].type \in {80} \cup 1..3
  <2>1. packets' = Append(packets, p)
    BY <1>1 DEF p
  <2>2. \A k \in DOMAIN packets : packets[k].type \in {80} \cup 1..3
    BY DEF Noisy
  <2>3. \A k \in DOMAIN packets' :
           (k \in DOMAIN packets /\ packets'[k] = packets[k]) \/ packets'[k] = p
    BY <1>3, <2>1
  <2> QED
    BY <1>6, <2>2, <2>3
<1>8. UNCHANGED <<pc, sent, report>>
  BY <1>1
<1> QED
  BY <1>5, <1>7, <1>8 DEF Noisy

\* A step of the wire.
LEMMA WireMovesKeep ==
  ASSUME IInv, WireMoves
  PROVE  IInv'
<1>1. /\ WireStep
      /\ UNCHANGED <<panel, active, unsent, lastTold, changes, device, asked, sections, activeDevices,
                     systemInfo, alarm, status, diagnostic, setUp>>
  BY DEF WireMoves, panelVars, dataVars, responseVars
<1>2. WireInv'
  BY <1>1, WireStepKeepsWire DEF IInv
<1>3. TypeOK' /\ OthersAreOff'
  BY <1>1, <1>2 DEF IInv, TypeOK, OthersAreOff, WireInv
<1>4. pc # "idle"
  BY <1>1 DEF WireStep, Encode, RefuseTooLong, TakePacket, Finish
<1>5. CASE RefuseTooLong
  <2>1. asked = NoCommand /\ device = NoDevice /\ OnTheWay = {}
    BY <1>5, OnlySizesAreRefused, NoTopics
  <2>2. pc' = "idle" /\ sent' = <<>>
    BY <1>5 DEF RefuseTooLong, Clear
  <2>3. OnTheWay' = {}
    BY <2>2 DEF OnTheWay
  <2>4. Traffic' /\ Answered'
    BY <1>1, <2>1, <2>2 DEF Traffic, Answered
  <2>5. Shown'
    BY <1>1, <2>1, <2>3 DEF IInv, Shown
  <2> QED
    BY <1>2, <1>3, <2>4, <2>5 DEF IInv
<1>6. CASE Encode \/ TakePacket \/ Finish
  <2>1. pc' # "idle" /\ UNCHANGED <<to, sent>>
    BY <1>6 DEF Encode, TakePacket, Finish
  <2>2. OnTheWay' = OnTheWay
    BY <2>1 DEF OnTheWay
  <2>3. Shown'
    BY <1>1, <2>2 DEF IInv, Shown
  <2>4. Answered'
    BY <1>1, <1>4, <2>1 DEF IInv, Answered
  <2>5. Noisy => Noisy'
    <3>1. CASE Encode
      BY <3>1 DEF Noisy, Encode
    <3>2. CASE TakePacket
      BY <3>2, NoiseIsTaken
    <3>3. CASE Finish
      BY <3>3 DEF Noisy, Finish
    <3> QED
      BY <1>6, <3>1, <3>2, <3>3
  <2>6. \A what : Said(what)' = Said(what)
    BY <1>1, SaidAgain
  <2>7. Traffic'
    <3>1. CASE asked # NoCommand
      BY <1>1, <2>1, <3>1 DEF IInv, Traffic
    <3>2. CASE asked = NoCommand /\ Noisy
      BY <1>1, <2>1, <2>5, <3>2, <1>4 DEF IInv, Traffic
    <3>3. CASE asked = NoCommand /\ ~Noisy
      BY <1>1, <1>4, <2>1, <2>6, <3>3 DEF IInv, Traffic
    <3> QED
      BY <3>1, <3>2, <3>3
  <2> QED
    BY <1>2, <1>3, <2>3, <2>4, <2>7 DEF IInv
<1> QED
  BY <1>1, <1>5, <1>6 DEF WireStep

\* What the panel makes of what it gets.
LEMMA Obeyed ==
  ASSUME IInv, PanelObeys
  PROVE  /\ asked # NoCommand /\ panel[asked.section] # Off =>
              Becomes(asked.section, InMode(ModeOf(asked.mode)))
         /\ asked = NoCommand \/ panel[asked.section] = Off => UNCHANGED <<panel, unsent>>
<1> DEFINE byte == At(packets[Min(Of(UI_CONTROL))].data, 1)
           n == (byte % 16) + 1
           block == (byte \div 16) - 8
<1>1. pc = "done" /\ to = "panel"
  BY DEF PanelObeys
<1>2. IF Of(UI_CONTROL) # {} /\ block \in 1..3 /\ panel[n] # Off
      THEN Becomes(n, InMode(<<"DISARMED", "ARMED_FULL", "ARMED_PARTIAL">>[block]))
      ELSE UNCHANGED <<panel, unsent>>
  BY DEF PanelObeys
<1>3. CASE asked = NoCommand
  <2>1. sent \in Sizes
    BY <1>1, <1>3 DEF IInv, Traffic
  <2>2. \A p \in Range(sent) : p.type = COMMAND
    BY <2>1, SizesParts
  <2>3. sent # <<>>
    BY <2>1, SizesParts
  <2>4. Of(UI_CONTROL) = {}
    BY <1>1, <2>2, <2>3, BroughtOf, TypesAre DEF Noisy
  <2> QED
    BY <1>2, <1>3, <2>4
<1>4. CASE asked # NoCommand
  <2> DEFINE p == ModifySection(asked.section, asked.mode)
  <2>1. asked.section \in Slots /\ asked.mode \in ArmModes
    BY <1>4, PanelDataAssumption DEF IInv, TypeOK
  <2>2. sent = <<p>>
    BY <1>4 DEF IInv, Traffic
  <2>3. /\ p \in Packets /\ p.type = UI_CONTROL /\ Len(p.data) = 2
        /\ (At(p.data, 1) % 16) + 1 = asked.section /\ (At(p.data, 1) \div 16) - 8 \in 1..3
        /\ <<"DISARMED", "ARMED_FULL", "ARMED_PARTIAL">>[(At(p.data, 1) \div 16) - 8] = ModeOf(asked.mode)
    BY <2>1, OrderRead
  <2> HIDE DEF p
  <2>4. Range(sent) = {p} /\ sent # <<>>
    BY <2>2, <2>3, OrderParts
  <2>5. Of(UI_CONTROL) # {} /\ \A k \in Of(UI_CONTROL) : packets[k] = p
    BY <1>1, <2>3, <2>4, BroughtOf DEF Noisy
  <2>6. packets \in Seq(Packets)
    BY DEF IInv, TypeOK, WireTypeOK
  <2>7. packets[Min(Of(UI_CONTROL))] = p
    BY <2>5, <2>6, OfBounds
  <2>8. /\ n = asked.section /\ block \in 1..3
        /\ <<"DISARMED", "ARMED_FULL", "ARMED_PARTIAL">>[block] = ModeOf(asked.mode)
    BY <2>3, <2>7
  <2> HIDE DEF n, block
  <2> QED
    BY <1>2, <1>4, <2>5, <2>8
<1> QED
  BY <1>3, <1>4

\* The panel has obeyed, or has taken no notice.
LEMMA PanelObeysKeeps ==
  ASSUME IInv, PanelObeys
  PROVE  IInv'
<1>1. pc = "done" /\ to = "panel" /\ Clear /\ asked' = NoCommand /\ device = NoDevice
  BY DEF PanelObeys, IInv, Traffic
<1>2. UNCHANGED <<active, lastTold, changes, device, sections, activeDevices, systemInfo, alarm,
                  status, diagnostic, setUp>>
  BY DEF PanelObeys, dataVars, responseVars
<1>3. WireInv'
  BY <1>1, ClearKeepsWire DEF IInv
<1>4. pc' = "idle" /\ OnTheWay = {} /\ OnTheWay' = {}
  BY <1>1, NoTopics DEF Clear, OnTheWay
<1>5. Traffic' /\ Answered'
  BY <1>1, <1>2, <1>4 DEF Traffic, Answered
<1>6. CASE UNCHANGED <<panel, unsent>>
  <2>1. TypeOK' /\ OthersAreOff'
    BY <1>1, <1>2, <1>3, <1>6 DEF IInv, TypeOK, OthersAreOff, WireInv
  <2>2. Shown'
    BY <1>2, <1>4, <1>6 DEF IInv, Shown
  <2> QED
    BY <1>3, <1>5, <2>1, <2>2 DEF IInv
<1>7. CASE asked # NoCommand /\ Becomes(asked.section, InMode(ModeOf(asked.mode)))
  <2> DEFINE state == InMode(ModeOf(asked.mode))
  <2>1. asked.section \in Sections /\ asked.mode \in ArmModes
    BY <1>7 DEF IInv, TypeOK
  <2>2. state \in SectionStates
    BY <2>1 DEF SectionStates, ArmModes, ModeOf
  <2>3. panel' = [panel EXCEPT ![asked.section] = state] /\ unsent' = unsent \cup {"sections"}
    BY <1>7 DEF Becomes
  <2> HIDE DEF state
  <2>4. TypeOK'
    BY <1>1, <1>2, <1>3, <2>2, <2>3 DEF IInv, TypeOK, WireInv
  <2>5. OthersAreOff'
    BY <2>1, <2>3 DEF IInv, OthersAreOff, TypeOK
  <2>6. Shown'
    BY <1>2, <1>4, <2>3 DEF IInv, Shown
  <2> QED
    BY <1>3, <1>5, <2>4, <2>5, <2>6 DEF IInv
<1> QED
  BY <1>6, <1>7, Obeyed

\* The response fields are emptied.
LEMMA ForgetKeeps ==
  ASSUME IInv, ForgetResponses
  PROVE  IInv'
<1>1. /\ pc = "idle" /\ device' = NoDevice
      /\ UNCHANGED <<pc, to, sent, report, i, packets, panel, active, unsent, lastTold, changes, asked,
                     sections, activeDevices, systemInfo, alarm, setUp>>
  BY DEF ForgetResponses, wireVars, panelVars, dataVars
<1>2. WireInv' /\ WireTypeOK'
  BY <1>1 DEF IInv, WireInv, WireTypeOK
<1>3. TypeOK' /\ OthersAreOff'
  BY <1>1, <1>2 DEF IInv, TypeOK, OthersAreOff
<1>4. Traffic' /\ Answered'
  BY <1>1 DEF IInv, Traffic, Answered
<1>5. OnTheWay' = OnTheWay
  BY <1>1 DEF OnTheWay
<1>6. Shown'
  BY <1>1, <1>5 DEF IInv, Shown
<1> QED
  BY <1>2, <1>3, <1>4, <1>6 DEF IInv

\* The alarm entities are created.
LEMMA CreateKeeps ==
  ASSUME IInv, CreateEntities
  PROVE  IInv'
<1>1. /\ pc = "idle" /\ device = NoDevice /\ setUp' = TRUE
      /\ alarm' = [n \in DOMAIN sections |-> AlarmState(sections[n])]
      /\ UNCHANGED <<pc, to, sent, report, i, packets, panel, active, unsent, lastTold, changes, device,
                     asked, sections, activeDevices, systemInfo, status, diagnostic>>
  BY DEF CreateEntities, Quiet, wireVars, panelVars, responseVars
<1>2. WireInv' /\ WireTypeOK'
  BY <1>1 DEF IInv, WireInv, WireTypeOK
<1>3. TypeOK' /\ OthersAreOff'
  BY <1>1, <1>2, ShownIsAState DEF IInv, TypeOK, OthersAreOff
<1>4. Traffic' /\ Answered'
  BY <1>1 DEF IInv, Traffic, Answered
<1>5. OnTheWay = {} /\ OnTheWay' = {}
  BY <1>1, NoTopics DEF OnTheWay
<1>6. Shown'
  BY <1>1, <1>5 DEF IInv, Shown
<1> QED
  BY <1>2, <1>3, <1>4, <1>6 DEF IInv

\* A command goes on the wire.
LEMMA CommandKeeps ==
  ASSUME IInv, Command
  PROVE  IInv'
<1>1. /\ pc = "idle" /\ device = NoDevice /\ changes < MaxChanges /\ changes' = changes + 1
      /\ UNCHANGED <<panel, active, unsent, lastTold, device, sections, activeDevices, systemInfo,
                     alarm, status, diagnostic, setUp>>
  BY DEF Command, Quiet, dataVars, responseVars
<1>2. PICK n \in DOMAIN alarm, mode \in ArmModes :
        asked' = [section |-> n, mode |-> mode] /\ Send(<<ModifySection(n, mode)>>, "panel")
  BY DEF Command
<1>3. n \in Sections /\ n \in Slots
  BY PanelDataAssumption DEF IInv, TypeOK
<1> DEFINE p == ModifySection(n, mode)
<1>4. p \in Packets /\ p.type = UI_CONTROL /\ Len(p.data) = 2
  BY <1>3, OrderRead
<1>5. p = ModifySection(asked'.section, asked'.mode)
  BY <1>2
<1> HIDE DEF p
<1>6. /\ pc' = "encode" /\ to' = "panel" /\ sent' = <<p>>
      /\ asked' = [section |-> n, mode |-> mode] /\ Send(<<p>>, "panel")
  BY <1>2 DEF Send, p
<1>7. <<p>> \in Seq(Packets) /\ Range(<<p>>) = {p}
  BY <1>4, OrderParts
<1>8. WireInv'
  BY <1>6, <1>7, SendKeepsWire DEF IInv
<1>9. asked' \in [section : Sections, mode : ArmModes] /\ asked' # NoCommand
  <2>1. asked'.section \in Slots
    BY <1>3, <1>6
  <2> QED
    BY <1>3, <1>6, <2>1 DEF NoCommand, Slots
<1>10. changes' \in 0..MaxChanges
  BY <1>1, PanelDataAssumption DEF IInv, TypeOK
<1>11. TypeOK' /\ OthersAreOff'
  BY <1>1, <1>8, <1>9, <1>10 DEF IInv, TypeOK, OthersAreOff, WireInv
<1>12. Traffic' /\ Answered'
  BY <1>1, <1>5, <1>6, <1>9 DEF Traffic, Answered
<1>13. OnTheWay = {} /\ OnTheWay' = {}
  <2>1. OnTheWay = {}
    BY <1>1, NoTopics
  <2>2. \A name \in Topics : TypeOf[name] # p.type
    BY <1>4, TypesAre DEF Topics, TypeOf
  <2>3. OnTheWay' = {name \in Topics : \E k \in DOMAIN <<p>> : <<p>>[k].type = TypeOf[name]}
    BY <1>6 DEF OnTheWay
  <2>4. \A k \in DOMAIN <<p>> : <<p>>[k] = p
    OBVIOUS
  <2> QED
    BY <2>1, <2>2, <2>3, <2>4
<1>14. Shown'
  BY <1>1, <1>13 DEF IInv, Shown
<1> QED
  BY <1>8, <1>11, <1>12, <1>14 DEF IInv

\* Nothing happens.
LEMMA RestKeeps ==
  ASSUME IInv, UNCHANGED vars
  PROVE  IInv'
<1>1. UNCHANGED <<pc, to, sent, report, i, packets, panel, active, unsent, lastTold, changes, device, asked,
                  sections, activeDevices, systemInfo, alarm, status, diagnostic, setUp>>
  BY DEF vars, wireVars, panelVars, dataVars, responseVars
<1>2. WireInv' /\ TypeOK' /\ OthersAreOff' /\ Answered'
  BY <1>1 DEF IInv, WireInv, WireTypeOK, TypeOK, OthersAreOff, Answered
<1>3. \A what : Said(what)' = Said(what)
  BY <1>1, SaidAgain
<1>4. Noisy' = Noisy
  BY <1>1 DEF Noisy
<1>5. Traffic'
  BY <1>1, <1>3, <1>4 DEF IInv, Traffic
<1>6. OnTheWay' = OnTheWay
  BY <1>1 DEF OnTheWay
<1>7. Shown'
  BY <1>1, <1>6 DEF IInv, Shown
<1> QED
  BY <1>2, <1>5, <1>7 DEF IInv

\* The initial states.
LEMMA InitInv == Init => IInv
<1> SUFFICES ASSUME Init PROVE IInv
  OBVIOUS
<1>1. PICK on \in {Sections, Sections \ {2}} :
        panel = [n \in Slots |-> IF n \in on THEN InMode("DISARMED") ELSE Off]
  BY DEF Init
<1>2. /\ Off \in SectionStates /\ InMode("DISARMED") \in SectionStates
      /\ ReportSize \in 61..255 /\ MaxChanges \in Nat /\ Sections \subseteq Slots
      /\ AnsweringDevices \subseteq PossibleDevices
  BY ReportsAssumption, PanelDataAssumption DEF SectionStates
<1>3. panel \in [Slots -> SectionStates] /\ lastTold \in [Slots -> SectionStates] /\ OthersAreOff
  BY <1>1, <1>2 DEF Init, OthersAreOff
<1>4. /\ active = {} /\ unsent = Topics /\ changes = 0 /\ sections = <<>> /\ activeDevices = {}
      /\ systemInfo = <<>> /\ alarm = <<>> /\ setUp = FALSE /\ asked = NoCommand
      /\ status = Malformed /\ diagnostic = Malformed /\ i = 0 /\ packets = <<>>
  BY DEF Init, Topics
<1>5. DOMAIN <<>> = {} /\ <<>> \in Seq(Packets)
  OBVIOUS
<1> DEFINE Rests == pc = "idle" /\ to = "integration" /\ sent = <<>> /\ report = <<>> /\ device = NoDevice
           Noises == /\ pc = "decode" /\ to = "integration" /\ sent = <<>>
                     /\ report \in Noise /\ device = NoDevice
           Fills == pc = "encode" /\ to = "panel" /\ sent \in Sizes /\ report = <<>> /\ device = NoDevice
           Answers == /\ pc = "encode" /\ to = "integration" /\ report = <<>>
                      /\ device \in AnsweringDevices /\ sent = DeviceAnswer(device)
<1>6. Rests \/ Noises \/ Fills \/ Answers
  BY DEF Init
<1>7. sent \in Seq(Packets) /\ \A p \in Range(sent) : p.type \in {COMMAND, UI_CONTROL, DEVICE_INFO}
  <2>1. CASE sent = <<>>
    BY <2>1, NonePackets
  <2>2. CASE sent \in Sizes
    BY <2>2, SizesParts
  <2>3. CASE Answers
    <3>1. device \in PossibleDevices
      BY <1>2, <2>3
    <3> QED
      BY <2>3, <3>1, AnswerParts
  <2> QED
    BY <1>6, <2>1, <2>2, <2>3
<1>8. OnTheWay = {}
  BY <1>7, OthersOnTheWay
<1>9. Noises => report \in [1..ReportSize -> Byte]
  BY NoiseParts
<1>10. /\ pc \in {"idle", "encode", "decode"} /\ to \in {"integration", "panel"}
       /\ device = NoDevice \/ device \in AnsweringDevices
       /\ report = <<>> \/ report \in [1..ReportSize -> Byte]
  BY <1>6, <1>9
<1>11. TypeOK
  <2>1. WireTypeOK
    BY <1>2, <1>4, <1>5, <1>7, <1>10 DEF WireTypeOK
  <2>2. DOMAIN sections = {} /\ DOMAIN alarm = {} /\ DOMAIN systemInfo = {}
    BY <1>4, <1>5
  <2>3. changes \in 0..MaxChanges /\ setUp \in BOOLEAN
    <3>1. changes = 0 /\ MaxChanges \in Nat
      BY <1>2, <1>4
    <3>2. changes \in 0..MaxChanges
      BY <3>1
    <3>3. setUp \in BOOLEAN
      BY Zenon, <1>4
    <3> QED
      BY <3>2, <3>3
  <2>4. /\ asked = NoCommand /\ active = {} /\ activeDevices = {}
        /\ unsent \subseteq {"sysinfo", "sections", "activity"}
    BY <1>4 DEF Topics
  <2> QED
    BY <1>3, <1>10, <2>1, <2>2, <2>3, <2>4 DEF TypeOK
<1>12. WireInv
  <2>1. pc = "decode" => Body(packets) = SubSeq(report, 1, i)
    <3>1. CASE Noises
      <4>1. Body(packets) = <<>>
        BY <1>4, BodyNone
      <4>2. SubSeq(report, 1, 0) = <<>>
        OBVIOUS
      <4> QED
        BY <1>4, <4>1, <4>2
    <3> QED
      BY <1>6, <3>1
  <2> QED
    BY <1>4, <1>6, <1>9, <1>11, <2>1 DEF WireInv, TypeOK
<1>13. Traffic
  <2>1. Noises => Noisy
    BY <1>4, <1>5 DEF Noisy
  <2>2. device \in AnsweringDevices => device # NoDevice
    BY <1>2 DEF PossibleDevices, Wireless, Wired, Bus, Siren, NoDevice
  <2> QED
    BY <1>4, <1>6, <2>1, <2>2 DEF Traffic
<1>14. Answered
  BY <1>4, <1>6 DEF Answered
<1>15. Shown
  BY <1>4, <1>5, <1>8 DEF Shown, Topics
<1> QED
  BY <1>3, <1>11, <1>12, <1>13, <1>14, <1>15 DEF IInv

\* The invariant is inductive.
LEMMA NextKeeps == IInv /\ [Next]_vars => IInv'
BY ChangesKeep, PushKeeps, PanelObeysKeeps, WireMovesKeep, DeliverKeeps, ForgetKeeps, CreateKeeps,
   CommandKeeps, RestKeeps DEF Next, Rest

\* The inductive invariant holds in every reachable state: what the wire carries is
\* something the panel, a device or an entity has said, or noise that nobody
\* handles; what is neither on the wire nor to be said is shown already.
THEOREM PanelInvariant == Spec => []IInv
<1>1. Init => IInv
  BY InitInv
<1>2. IInv /\ [Next]_vars => IInv'
  BY NextKeeps
<1> QED
  BY <1>1, <1>2, PTL DEF Spec

\* Wire, panel, coordinator, client and entities keep their types, whatever
\* report comes in and however many sections and devices there are.
THEOREM PanelTypeCorrect == Spec => []TypeOK
<1>1. IInv => TypeOK
  BY DEF IInv
<1> QED
  BY <1>1, PanelInvariant, PTL

\* decode_report finds what encode_report has put into a report, and accounts
\* for every byte it consumes of any other.
THEOREM ReportsAreDecoded == Spec => []DecodesTheReport
<1>1. IInv => DecodesTheReport
  BY WireInvDecodes DEF IInv
<1> QED
  BY <1>1, PanelInvariant, PTL

\* When the panel has said everything, the alarm entities, the binary sensors
\* and the device page show what the panel is.
THEOREM ShownIsTrue == Spec => []EntitiesShowThePanel
<1>1. ASSUME IInv, Settled PROVE EntitiesShowThePanel
  <2>1. pc = "idle" /\ unsent = {}
    BY <1>1 DEF Settled, Quiet
  <2>2. OnTheWay = {}
    BY <1>1, <2>1, NoTopics
  <2>3. active \subseteq 1..31
    BY <1>1, PanelDataAssumption DEF IInv, TypeOK
  <2> QED
    BY <1>1, <2>1, <2>2, <2>3 DEF IInv, Shown, EntitiesShowThePanel, IsOn
<1>2. IInv => EntitiesShowThePanel
  BY <1>1 DEF EntitiesShowThePanel
<1> QED
  BY <1>2, PanelInvariant, PTL

\* What a device answers is read as the device meant it, for every answer
\* without the wireless marker before its place.
THEOREM AnswersAreRead == Spec => []AnswersAreTheDevices
<1>1. ASSUME IInv, device # NoDevice, pc = "idle",
             252 \notin {device.flags, device.activity[1], device.activity[2]}
      PROVE  LET info == DeviceInfo(status, diagnostic) IN
             /\ info.device_number = Number
             /\ NativeValues(info) = DeviceTruth(device)
             /\ info.active = IsActive(device)
  <2>1. device \in PossibleDevices
    BY <1>1, PanelDataAssumption DEF IInv, TypeOK
  <2>2. /\ status = DecodeDeviceStatus(StatusPacket(device).data)
        /\ diagnostic = IF device.kind \in {"bus", "siren"}
                        THEN DecodeDeviceDiagnostic(DiagnosticPacket(device).data)
                        ELSE Malformed
    BY <1>1 DEF IInv, Answered
  <2> QED
    BY <1>1, <2>1, <2>2, AnswerRead
<1>2. IInv => AnswersAreTheDevices
  BY <1>1 DEF AnswersAreTheDevices
<1> QED
  BY <1>2, PanelInvariant, PTL

\* A command of an alarm entity puts its own section into the mode asked for,
\* through the byte that holds both, and changes no other section.
THEOREM CommandsArrive == Spec => CommandsReachTheirSection
<1> DEFINE Reaches ==
      asked # NoCommand /\ asked' = NoCommand =>
        LET mode == [DISARM |-> "DISARMED", ARM_AWAY |-> "ARMED_FULL",
                     ARM_HOME |-> "ARMED_PARTIAL"][asked.mode]
        IN panel' = IF panel[asked.section] = Off THEN panel
                    ELSE [panel EXCEPT ![asked.section] = InMode(mode)]
<1>1. ASSUME IInv, Next, asked # NoCommand, asked' = NoCommand
      PROVE  panel' = IF panel[asked.section] = Off THEN panel
                      ELSE [panel EXCEPT ![asked.section] = InMode(ModeOf(asked.mode))]
  <2>1. CASE PanelObeys
    BY <1>1, <2>1, Obeyed DEF Becomes
  <2>2. ~Command
    BY <1>1 DEF Command, Quiet, IInv, Traffic
  <2>3. ~PanelObeys => asked' = asked
    BY <1>1, <2>2 DEF Next, ChangeSection, ChangeDevice, Push, WireMoves, Deliver, ForgetResponses,
                      CreateEntities, Rest, vars
  <2> QED
    BY <1>1, <2>1, <2>3
<1>2. IInv /\ [Next]_vars => [Reaches]_vars
  <2>1. ASSUME IInv, Next PROVE Reaches
    <3>1. ModeOf(asked.mode) = [DISARM |-> "DISARMED", ARM_AWAY |-> "ARMED_FULL",
                                ARM_HOME |-> "ARMED_PARTIAL"][asked.mode]
      BY DEF ModeOf
    <3> QED
      BY <1>1, <2>1, <3>1
  <2> QED
    BY <2>1
<1>3. Spec => [][Reaches]_vars
  BY <1>2, PanelInvariant, PTL DEF Spec
<1> QED
  BY <1>3 DEF CommandsReachTheirSection
=============================================================================
