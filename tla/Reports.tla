------------------------------- MODULE Reports -------------------------------
(***************************************************************************)
(* The TLV framing of HID reports: encode_report and the loop of           *)
(* decode_report (protocol.py), one step per iteration, as a wire that     *)
(* carries one report at a time.  A report is a sequence of exactly        *)
(* ReportSize bytes, positions counted from 1.                             *)
(***************************************************************************)
EXTENDS Integers, Sequences, SequencesExt

CONSTANT ReportSize  \* REPORT_SIZE, 64 in the code

\* A length within a report is one byte.
ASSUME ReportsAssumption == ReportSize \in 1..255

Byte == 0..255

\* Packets have a type of PacketType, none of which is zero.
Packets == [type : Byte \ {0}, data : Seq(Byte)]

VARIABLES
  pc,       \* "idle", "encode", "decode", "done"
  to,       \* "panel" or "integration", the reader of the report
  sent,     \* the packets the report is made of, empty if it is not known
  report,   \* the bytes on the wire
  i,        \* bytes decode_report has consumed
  packets   \* the packets it has found so far

wireVars == <<pc, to, sent, report, i, packets>>

\* Positions stay within the report and packets are made of its bytes.
WireTypeOK ==
  /\ pc \in {"idle", "encode", "decode", "done"}
  /\ to \in {"panel", "integration"}
  /\ sent \in Seq(Packets)
  /\ report = <<>> \/ report \in [1..ReportSize -> Byte]
  /\ i \in 0..ReportSize
  /\ packets \in Seq(Packets)

-----------------------------------------------------------------------------
Frame(p) == <<p.type, Len(p.data)>> \o p.data

\* TYPE LEN DATA of each packet, one after the other.
Body(ps) == FlattenSeq([k \in DOMAIN ps |-> Frame(ps[k])])

\* The body, zero-padded to the size of a report.
Padded(body) == body \o [k \in 1..(ReportSize - Len(body)) |-> 0]

Send(ps, reader) ==
  /\ pc = "idle" /\ pc' = "encode"
  /\ sent' = ps /\ to' = reader
  /\ UNCHANGED <<report, i, packets>>

\* The packets found have been handled, or there is nothing to send.
Clear ==
  /\ pc' = "idle" /\ to' = "integration"
  /\ sent' = <<>> /\ report' = <<>> /\ i' = 0 /\ packets' = <<>>

Encode ==
  /\ pc = "encode" /\ Len(Body(sent)) <= ReportSize
  /\ pc' = "decode" /\ report' = Padded(Body(sent))
  /\ UNCHANGED <<to, sent, i, packets>>

\* ReportTooLongError.
RefuseTooLong == pc = "encode" /\ Len(Body(sent)) > ReportSize /\ Clear

-----------------------------------------------------------------------------
\* The end of the packet that starts after i.
End == i + 2 + report[i + 2]

\* Mutant: the zero type of the padding is not looked at.
HasBytes == i + 1 < ReportSize /\ End <= ReportSize

\* The loop goes on: two bytes are left, no padding, nothing truncated.
HasPacket == i + 1 < ReportSize /\ report[i + 1] # 0 /\ End <= ReportSize

Finish ==
  /\ pc = "decode" /\ ~HasPacket
  /\ pc' = "done"
  /\ UNCHANGED <<to, sent, report, i, packets>>

\* Mutant: the next packet is looked for behind the data of this one, the two
\* header bytes forgotten.
TakeWithoutHeader ==
  /\ pc = "decode" /\ HasPacket
  /\ packets' = Append(packets, [type |-> report[i + 1],
                                 data |-> SubSeq(report, i + 3, End)])
  /\ i' = i + report[i + 2]
  /\ UNCHANGED <<pc, to, sent, report>>

TakePacket ==
  /\ pc = "decode" /\ HasPacket
  /\ packets' = Append(packets, [type |-> report[i + 1],
                                 data |-> SubSeq(report, i + 3, End)])
  /\ i' = End
  /\ UNCHANGED <<pc, to, sent, report>>

WireStep == Encode \/ RefuseTooLong \/ TakePacket \/ Finish

-----------------------------------------------------------------------------
\* Whatever bytes come in, the packets found are the consumed part of the
\* report, byte for byte: none is skipped, read twice or read past the end.  In
\* the end they are the packets that were encoded, and not a byte of padding.
DecodesTheReport ==
  /\ pc \in {"decode", "done"} => Body(packets) = SubSeq(report, 1, i)
  /\ pc = "done" /\ sent # <<>> => packets = sent
=============================================================================
