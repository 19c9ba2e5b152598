-------------------------- MODULE ConfigParserProof --------------------------
(***************************************************************************)
(* The parser finds what the panel wrote: for any section records, a name  *)
(* reaches exactly its own section, and for any device records that are    *)
(* unambiguous, the entries are those of the nameable ones, each with its  *)
(* own section and RF byte.                                                *)
(***************************************************************************)
EXTENDS ConfigParser, SequenceLemmas

-----------------------------------------------------------------------------
(***************************************************************************)
(* The bytes of one record.                                                *)
(***************************************************************************)
SectionRecord == [number : Bytes, name : Texts]
DeviceRecord == [front : Seq(Bytes), rf : Bytes, address : Seq(Bytes),
                 section : 0..15, type : Bytes, extra : Seq(Bytes), name : Texts]

LEMMA TextsAre ==
  ASSUME NEW text \in Texts
  PROVE  /\ text \in Seq(Bytes) /\ Len(text) \in 0..95
         /\ \A p \in 1..Len(text) : text[p] \in 32..255
<1>1. text \in Seq(32..255) /\ Len(text) <= 95
  BY DEF Texts
<1>2. 32..255 \subseteq Bytes
  BY DEF Bytes
<1>3. text \in Seq(Bytes)
  <2> DEFINE S == 32..255
  <2>1. text \in Seq(S) /\ S \subseteq Bytes
    BY <1>1, <1>2
  <2> HIDE DEF S
  <2> QED
    BY <2>1
<1>4. \A p \in 1..Len(text) : text[p] \in 32..255
  <2> DEFINE S == 32..255
  <2>1. text \in Seq(S)
    BY <1>1
  <2> HIDE DEF S
  <2>2. \A p \in 1..Len(text) : text[p] \in S
    BY <2>1
  <2> QED
    BY <2>2 DEF S
<1>5. Len(text) \in 0..95
  <2> DEFINE n == Len(text)
  <2>1. n \in Nat
    BY <1>3
  <2>2. n <= 95
    BY <1>1
  <2> HIDE DEF n
  <2>3. n \in 0..95
    BY <2>1, <2>2
  <2> QED
    BY <2>3 DEF n
<1> QED
  BY <1>3, <1>4, <1>5

\* A head and a text.
LEMMA SectionBytesAre ==
  ASSUME NEW r \in SectionRecord
  PROVE  LET n == Len(r.name)
             b == SectionBytes(r)
         IN /\ b \in Seq(Bytes) /\ Len(b) = 6 + n
            /\ b[1] = NameTag /\ b[2] = RecordSubtag /\ b[3] = r.number
            /\ b[4] = NameSubtag /\ b[5] = 0 /\ b[6] = LenBase + n
            /\ \A p \in 1..n : b[6 + p] = r.name[p]
<1> DEFINE n == Len(r.name)
           head == <<NameTag, RecordSubtag, r.number, NameSubtag, 0, LenBase + n>>
           text == r.name
<1>1. r.number \in Bytes /\ text \in Texts
  BY DEF SectionRecord
<1>2. text \in Seq(Bytes) /\ n \in 0..95
  BY <1>1, TextsAre
<1>3. /\ head \in Seq(Bytes) /\ Len(head) = 6
      /\ head[1] = NameTag /\ head[2] = RecordSubtag /\ head[3] = r.number
      /\ head[4] = NameSubtag /\ head[5] = 0 /\ head[6] = LenBase + n
  <2>1. LenBase + n \in Bytes
    <3>1. \A m \in 0..95 : LenBase + m \in Bytes
      BY DEF LenBase, Bytes
    <3> QED
      BY <1>2, <3>1
  <2>2. NameTag \in Bytes /\ RecordSubtag \in Bytes /\ NameSubtag \in Bytes /\ 0 \in Bytes
    BY DEF NameTag, RecordSubtag, NameSubtag, Bytes
  <2> QED
    BY <1>1, <2>1, <2>2
<1>4. SectionBytes(r) = head \o text
  BY DEF SectionBytes
<1> HIDE DEF head
<1>5. /\ head \o text \in Seq(Bytes) /\ Len(head \o text) = Len(head) + Len(text)
      /\ \A j \in 1..Len(head) : (head \o text)[j] = head[j]
      /\ \A j \in 1..Len(text) : (head \o text)[Len(head) + j] = text[j]
  <2>1. head \in Seq(Bytes) /\ text \in Seq(Bytes)
    BY <1>2, <1>3
  <2> QED
    BY ONLY <2>1, Joined
<1>6. 1..6 = 1..Len(head) /\ n = Len(text)
  BY <1>3
<1> QED
  BY <1>3, <1>4, <1>5, <1>6

\* What stands where ahead of a device's name.
LEMMA AheadIs ==
  ASSUME NEW r \in DeviceRecord
  PROVE  LET x == Ahead(r)
             f == Len(r.front)
             t == f + 4 + Len(r.address)
         IN /\ x \in Seq(Bytes) /\ Len(x) \in Nat
            /\ f \in Nat /\ t \in Nat /\ f + 4 <= t /\ t + 5 <= Len(x)
            /\ x[f + 1] = 136 /\ x[f + 2] = 0 /\ x[f + 3] = 206 /\ x[f + 4] = r.rf
            /\ x[t + 1] = SectionTag /\ x[t + 2] = r.section /\ x[t + 3] = TypeTag
            /\ x[t + 5] = ExtraTag
<1> DEFINE front == r.front
           rf == r.rf
           address == r.address
           extra == r.extra
           tags == <<SectionTag, r.section, TypeTag, r.type, ExtraTag>>
           f == Len(front)
           t == f + 4 + Len(address)
           marker == RfMarker
           byte == <<rf>>
           x1 == front \o marker
           x2 == x1 \o byte
           x3 == x2 \o address
           x4 == x3 \o tags
           x5 == x4 \o extra
<1>0. /\ front \in Seq(Bytes) /\ rf \in Bytes /\ address \in Seq(Bytes)
      /\ r.section \in 0..15 /\ r.type \in Bytes /\ extra \in Seq(Bytes)
  BY DEF DeviceRecord
<1>20. /\ tags \in Seq(Bytes) /\ Len(tags) = 5
       /\ tags[1] = SectionTag /\ tags[2] = r.section /\ tags[3] = TypeTag /\ tags[5] = ExtraTag
  <2>1. SectionTag \in Bytes /\ TypeTag \in Bytes /\ ExtraTag \in Bytes
    BY DEF SectionTag, TypeTag, ExtraTag, Bytes
  <2>2. r.section \in Bytes
    <3>1. \A y \in 0..15 : y \in Bytes
      BY DEF Bytes
    <3> QED
      BY <1>0, <3>1
  <2> QED
    BY <1>0, <2>1, <2>2
<1>21. x5 = Ahead(r)
  BY DEF Ahead
<1> HIDE DEF front, rf, address, extra, tags
<1>1. /\ marker \in Seq(Bytes) /\ Len(marker) = 3
      /\ marker[1] = 136 /\ marker[2] = 0 /\ marker[3] = 206
  BY DEF RfMarker, Bytes
<1>2. byte \in Seq(Bytes) /\ Len(byte) = 1 /\ byte[1] = rf
  BY <1>0
<1>3. f \in Nat /\ Len(address) \in Nat /\ Len(extra) \in Nat
  BY <1>0
<1> HIDE DEF marker, byte, x1, x2, x3, x4, x5
<1>4. /\ x1 \in Seq(Bytes) /\ Len(x1) = Len(front) + Len(marker)
      /\ \A j \in 1..Len(marker) : x1[Len(front) + j] = marker[j]
  <2>1. front \in Seq(Bytes) /\ marker \in Seq(Bytes)
    BY <1>0, <1>1
  <2> QED
    BY ONLY <2>1, Joined DEF x1
<1>5. /\ x2 \in Seq(Bytes) /\ Len(x2) = Len(x1) + Len(byte)
      /\ \A j \in 1..Len(x1) : x2[j] = x1[j]
      /\ \A j \in 1..Len(byte) : x2[Len(x1) + j] = byte[j]
  <2>1. x1 \in Seq(Bytes) /\ byte \in Seq(Bytes)
    BY <1>2, <1>4
  <2> QED
    BY ONLY <2>1, Joined DEF x2
<1>6. /\ x3 \in Seq(Bytes) /\ Len(x3) = Len(x2) + Len(address)
      /\ \A j \in 1..Len(x2) : x3[j] = x2[j]
  <2>1. x2 \in Seq(Bytes) /\ address \in Seq(Bytes)
    BY <1>0, <1>5
  <2> QED
    BY ONLY <2>1, Joined DEF x3
<1>7. /\ x4 \in Seq(Bytes) /\ Len(x4) = Len(x3) + Len(tags)
      /\ \A j \in 1..Len(x3) : x4[j] = x3[j]
      /\ \A j \in 1..Len(tags) : x4[Len(x3) + j] = tags[j]
  <2>1. x3 \in Seq(Bytes) /\ tags \in Seq(Bytes)
    BY <1>6, <1>20
  <2> QED
    BY ONLY <2>1, Joined DEF x4
<1>8. /\ x5 \in Seq(Bytes) /\ Len(x5) = Len(x4) + Len(extra)
      /\ \A j \in 1..Len(x4) : x5[j] = x4[j]
  <2>1. x4 \in Seq(Bytes) /\ extra \in Seq(Bytes)
    BY <1>0, <1>7
  <2> QED
    BY ONLY <2>1, Joined DEF x5
<1> DEFINE a == Len(address)
           e == Len(extra)
<1>10. f \in Nat /\ a \in Nat /\ e \in Nat /\ t = f + 4 + a
  BY <1>3
<1>11. Len(x1) = f + 3 /\ Len(x2) = f + 4 /\ Len(x3) = t /\ Len(x4) = t + 5 /\ Len(x5) = t + 5 + e
  <2>1. /\ Len(x1) = f + 3 /\ Len(x2) = Len(x1) + 1 /\ Len(x3) = Len(x2) + a
        /\ Len(x4) = Len(x3) + 5 /\ Len(x5) = Len(x4) + e
    BY <1>1, <1>2, <1>4, <1>5, <1>6, <1>7, <1>8, <1>20
  <2> HIDE DEF a, e, f
  <2>2. Len(x2) = f + 4
    BY ONLY <1>10, <2>1
  <2>3. Len(x3) = t
    BY ONLY <1>10, <2>1, <2>2
  <2> QED
    BY <2>1, <2>2, <2>3
<1> HIDE DEF a, e, f
<1>12. t \in Nat /\ f + 4 <= t
  BY ONLY <1>10
<1> HIDE DEF t
<1>13. ASSUME NEW j \in 1..(f + 4) PROVE x5[j] = x2[j]
  <2>1. j \in 1..Len(x2) /\ j \in 1..Len(x3) /\ j \in 1..Len(x4)
    BY <1>10, <1>11, <1>12
  <2> QED
    BY <1>6, <1>7, <1>8, <2>1
<1>14. x5[f + 1] = 136 /\ x5[f + 2] = 0 /\ x5[f + 3] = 206
  <2>1. ASSUME NEW j \in 1..3 PROVE x5[f + j] = marker[j]
    <3>1. f + j \in 1..(f + 4) /\ f + j \in 1..Len(x1) /\ j \in 1..Len(marker)
      BY <1>1, <1>10, <1>11
    <3>2. x5[f + j] = x2[f + j] /\ x2[f + j] = x1[f + j]
      BY <1>5, <1>13, <3>1
    <3>3. x1[f + j] = marker[j]
      BY <1>4, <3>1 DEF f
    <3> QED
      BY <3>2, <3>3
  <2> QED
    BY <1>1, <2>1
<1>15. x5[f + 4] = rf
  <2>1. f + 4 \in 1..(f + 4) /\ Len(x1) + 1 = f + 4 /\ 1 \in 1..Len(byte)
    BY <1>2, <1>10, <1>11
  <2> QED
    BY <1>2, <1>5, <1>13, <2>1
<1>16. ASSUME NEW j \in 1..5 PROVE x5[t + j] = tags[j]
  <2>1. t + j \in 1..Len(x4) /\ j \in 1..Len(tags)
    BY <1>11, <1>12, <1>20
  <2>2. x5[t + j] = x4[t + j]
    BY <1>8, <2>1
  <2>3. x4[t + j] = tags[j]
    BY <1>7, <1>11, <2>1
  <2> QED
    BY <2>2, <2>3
<1>17. /\ x5[t + 1] = tags[1] /\ x5[t + 2] = tags[2]
       /\ x5[t + 3] = tags[3] /\ x5[t + 5] = tags[5]
  BY <1>16
<1>18. Len(x5) \in Nat /\ t + 5 <= Len(x5)
  BY ONLY <1>10, <1>11, <1>12
<1>19. /\ x5[t + 1] = SectionTag /\ x5[t + 2] = r.section
       /\ x5[t + 3] = TypeTag /\ x5[t + 5] = ExtraTag
  BY <1>17, <1>20
<1> QED
  BY ONLY <1>8, <1>10, <1>12, <1>14, <1>15, <1>18, <1>19, <1>21
  DEF f, t, front, rf, address

\* A device record, byte by byte.
LaidOut(r) ==
  LET n == Len(r.name)
      b == DeviceBytes(r)
      f == Len(r.front)
      t == f + 4 + Len(r.address)
      h == Len(Ahead(r))
  IN /\ b \in Seq(Bytes) /\ Len(b) = h + 3 + n
     /\ f \in Nat /\ t \in Nat /\ h \in Nat /\ f + 4 <= t /\ t + 5 <= h
     /\ b[f + 1] = 136 /\ b[f + 2] = 0 /\ b[f + 3] = 206 /\ b[f + 4] = r.rf
     /\ b[t + 1] = SectionTag /\ b[t + 2] = r.section /\ b[t + 3] = TypeTag
     /\ b[t + 5] = ExtraTag
     /\ b[h + 1] = NameTag /\ b[h + 2] = LenBase + n /\ b[h + 3 + n] = Delimiter
     /\ \A p \in 1..n : b[h + 2 + p] = r.name[p]

LEMMA DeviceBytesAre ==
  ASSUME NEW r \in DeviceRecord
  PROVE  LaidOut(r)
<1> DEFINE n == Len(r.name)
           f == Len(r.front)
           t == f + 4 + Len(r.address)
           ahead == Ahead(r)
           h == Len(ahead)
           start == <<NameTag, LenBase + n>>
           text == r.name
           end == <<Delimiter>>
           y1 == ahead \o start
           y2 == y1 \o text
           b == y2 \o end
<1>1. text \in Texts
  BY DEF DeviceRecord
<1>2. text \in Seq(Bytes) /\ n \in 0..95
  BY <1>1, TextsAre
<1>5. /\ ahead \in Seq(Bytes)
      /\ ahead[f + 1] = 136 /\ ahead[f + 2] = 0 /\ ahead[f + 3] = 206 /\ ahead[f + 4] = r.rf
      /\ ahead[t + 1] = SectionTag /\ ahead[t + 2] = r.section /\ ahead[t + 3] = TypeTag
      /\ ahead[t + 5] = ExtraTag
  <2>1. ahead \in Seq(Bytes)
    BY AheadIs, Zenon
  <2>2. /\ ahead[f + 1] = 136 /\ ahead[f + 2] = 0 /\ ahead[f + 3] = 206
        /\ ahead[f + 4] = r.rf
    BY AheadIs, Zenon
  <2>3. /\ ahead[t + 1] = SectionTag /\ ahead[t + 2] = r.section
        /\ ahead[t + 3] = TypeTag /\ ahead[t + 5] = ExtraTag
    BY AheadIs, Zenon
  <2> QED
    BY ONLY <2>1, <2>2, <2>3
<1>6. h \in Nat /\ f \in Nat /\ t \in Nat /\ f + 4 <= t /\ t + 5 <= h
  BY AheadIs, Zenon
<1>9. DeviceBytes(r) = b
  BY DEF DeviceBytes
<1> HIDE DEF ahead
<1>7. start \in Seq(Bytes) /\ Len(start) = 2 /\ start[1] = NameTag /\ start[2] = LenBase + n
  <2>1. \A m \in 0..95 : LenBase + m \in Bytes
    BY DEF LenBase, Bytes
  <2> HIDE DEF n
  <2>2. LenBase + n \in Bytes
    BY <1>2, <2>1
  <2>3. NameTag \in Bytes
    BY DEF NameTag, Bytes
  <2> QED
    BY <2>2, <2>3
<1>8. end \in Seq(Bytes) /\ Len(end) = 1 /\ end[1] = Delimiter
  BY DEF Delimiter, Bytes
<1> HIDE DEF start, end, y1, y2, b
<1>10. /\ y1 \in Seq(Bytes) /\ Len(y1) = Len(ahead) + Len(start)
       /\ \A j \in 1..Len(ahead) : y1[j] = ahead[j]
       /\ \A j \in 1..Len(start) : y1[Len(ahead) + j] = start[j]
  <2>1. ahead \in Seq(Bytes) /\ start \in Seq(Bytes)
    BY <1>5, <1>7
  <2> QED
    BY ONLY <2>1, Joined DEF y1
<1>11. /\ y2 \in Seq(Bytes) /\ Len(y2) = Len(y1) + Len(text)
       /\ \A j \in 1..Len(y1) : y2[j] = y1[j]
       /\ \A j \in 1..Len(text) : y2[Len(y1) + j] = text[j]
  <2>1. y1 \in Seq(Bytes) /\ text \in Seq(Bytes)
    BY <1>2, <1>10
  <2> QED
    BY ONLY <2>1, Joined DEF y2
<1>12. /\ b \in Seq(Bytes) /\ Len(b) = Len(y2) + Len(end)
       /\ \A j \in 1..Len(y2) : b[j] = y2[j]
       /\ \A j \in 1..Len(end) : b[Len(y2) + j] = end[j]
  <2>1. y2 \in Seq(Bytes) /\ end \in Seq(Bytes)
    BY <1>8, <1>11
  <2> QED
    BY ONLY <2>1, Joined DEF b
<1>13. n \in Nat
  BY <1>2
<1>14. Len(y1) = h + 2 /\ Len(y2) = h + 2 + n /\ Len(b) = h + 3 + n
  <2>1. Len(y1) = h + 2 /\ Len(y2) = Len(y1) + n /\ Len(b) = Len(y2) + 1
    BY <1>7, <1>8, <1>10, <1>11, <1>12
  <2> HIDE DEF h, n
  <2> QED
    BY ONLY <1>6, <1>13, <2>1
<1> HIDE DEF h, t, f
<1>15. ASSUME NEW j \in 1..h PROVE b[j] = ahead[j]
  <2>1. j \in 1..Len(ahead) /\ j \in 1..Len(y1) /\ j \in 1..Len(y2)
    <3> HIDE DEF n
    <3>1. j \in 1..(h + 2) /\ j \in 1..(h + 2 + n)
      BY ONLY <1>6, <1>13, j \in 1..h
    <3> QED
      BY <1>14, <3>1 DEF h
  <2> QED
    BY <1>10, <1>11, <1>12, <2>1
<1>16. /\ b[f + 1] = 136 /\ b[f + 2] = 0 /\ b[f + 3] = 206 /\ b[f + 4] = r.rf
       /\ b[t + 1] = SectionTag /\ b[t + 2] = r.section /\ b[t + 3] = TypeTag
       /\ b[t + 5] = ExtraTag
  <2>1. /\ f + 1 \in 1..h /\ f + 2 \in 1..h /\ f + 3 \in 1..h /\ f + 4 \in 1..h
        /\ t + 1 \in 1..h /\ t + 2 \in 1..h /\ t + 3 \in 1..h /\ t + 5 \in 1..h
    BY ONLY <1>6
  <2>2. /\ b[f + 1] = ahead[f + 1] /\ b[f + 2] = ahead[f + 2]
        /\ b[f + 3] = ahead[f + 3] /\ b[f + 4] = ahead[f + 4]
        /\ b[t + 1] = ahead[t + 1] /\ b[t + 2] = ahead[t + 2]
        /\ b[t + 3] = ahead[t + 3] /\ b[t + 5] = ahead[t + 5]
    BY <1>15, <2>1
  <2> QED
    BY <1>5, <2>2
<1>17. b[h + 1] = NameTag /\ b[h + 2] = LenBase + n
  <2>1. ASSUME NEW j \in 1..2 PROVE b[h + j] = start[j]
    <3>1. h + j \in 1..(h + 2) /\ h + j \in 1..(h + 2 + n)
      <4> HIDE DEF n
      <4> QED
        BY ONLY <1>6, <1>13, j \in 1..2
    <3>2. b[h + j] = y2[h + j] /\ y2[h + j] = y1[h + j]
      BY <1>11, <1>12, <1>14, <3>1
    <3>3. y1[h + j] = start[j]
      BY <1>7, <1>10 DEF h
    <3> QED
      BY <3>2, <3>3
  <2> QED
    BY <1>7, <2>1
<1>18. ASSUME NEW p \in 1..n PROVE b[h + 2 + p] = text[p]
  <2>1. h + 2 + p \in 1..(h + 2 + n)
    <3> HIDE DEF n
    <3> QED
      BY ONLY <1>6, <1>13, p \in 1..n
  <2>2. b[h + 2 + p] = y2[h + 2 + p]
    BY <1>12, <1>14, <2>1
  <2>3. y2[h + 2 + p] = text[p]
    BY <1>11, <1>14
  <2> QED
    BY <2>2, <2>3
<1>19. b[h + 3 + n] = Delimiter
  <2>1. (h + 2 + n) + 1 = h + 3 + n /\ 1 \in 1..1
    <3> HIDE DEF n
    <3> QED
      BY ONLY <1>6, <1>13
  <2> QED
    BY <1>8, <1>12, <1>14, <2>1
<1> QED
  BY ONLY <1>6, <1>9, <1>12, <1>14, <1>16, <1>17, <1>18, <1>19, Zenon
  DEF LaidOut, f, t, h, ahead
-----------------------------------------------------------------------------
(***************************************************************************)
(* Where the records are.                                                  *)
(***************************************************************************)
SectionParts == [k \in DOMAIN sections |-> SectionBytes(sections[k])]
DeviceParts == [k \in DOMAIN devices |-> DeviceBytes(devices[k])]

SectionAt(k) == 1 + Offset(SectionParts, k)
DeviceAt(k) == DevicesStart + Offset(DeviceParts, k)

\* Where its name tag is.
NameAt(k) == DeviceAt(k) + Len(Ahead(devices[k]))

\* What the volume is made of.
Records ==
  /\ sections \in Seq(SectionRecords) /\ devices \in Seq(DeviceRecords)
  /\ Len(SectionsBytes(sections)) <= NamesSize

\* It has been read.
Loaded == data = NamesRegion(sections) \o DevicesRegion(devices)

LEMMA PartsAre ==
  ASSUME Records
  PROVE  /\ SectionParts \in Seq(Seq(Bytes)) /\ Len(SectionParts) = Len(sections)
         /\ DeviceParts \in Seq(Seq(Bytes)) /\ Len(DeviceParts) = Len(devices)
         /\ \A k \in DOMAIN sections : /\ SectionParts[k] = SectionBytes(sections[k])
                                       /\ sections[k] \in SectionRecord
         /\ \A k \in DOMAIN devices :
              /\ DeviceParts[k] = DeviceBytes(devices[k])
              /\ devices[k] \in DeviceRecord
<1>1. ASSUME NEW k \in DOMAIN sections
      PROVE  sections[k] \in SectionRecord
  <2>1. sections[k] \in SectionRecords
    BY DEF Records
  <2> QED
    BY <2>1, ParserAssumption DEF SectionRecord
<1>2. ASSUME NEW k \in DOMAIN devices
      PROVE  devices[k] \in DeviceRecord
  <2>1. devices[k] \in DeviceRecords
    BY DEF Records
  <2>2. DeviceRecords \subseteq DeviceRecord
    BY ParserAssumption DEF DeviceRecord
  <2> QED
    BY <2>1, <2>2
<1>3. \A k \in DOMAIN sections : SectionBytes(sections[k]) \in Seq(Bytes)
  BY <1>1, SectionBytesAre
<1>4. ASSUME NEW k \in DOMAIN devices PROVE DeviceBytes(devices[k]) \in Seq(Bytes)
  <2> DEFINE r == devices[k]
  <2>1. r \in DeviceRecord
    BY <1>2
  <2> HIDE DEF r
  <2>2. LaidOut(r)
    BY ONLY <2>1, DeviceBytesAre
  <2>3. DeviceBytes(r) \in Seq(Bytes)
    BY ONLY <2>2, Zenon DEF LaidOut
  <2> QED
    BY <2>3 DEF r
<1>5. /\ DOMAIN sections = 1..Len(sections) /\ Len(sections) \in Nat
      /\ DOMAIN devices = 1..Len(devices) /\ Len(devices) \in Nat
  BY DEF Records
<1>6. SectionParts \in Seq(Seq(Bytes)) /\ Len(SectionParts) = Len(sections)
  BY <1>3, <1>5 DEF SectionParts
<1>7. DeviceParts \in Seq(Seq(Bytes)) /\ Len(DeviceParts) = Len(devices)
  BY <1>4, <1>5 DEF DeviceParts
<1> QED
  BY <1>1, <1>2, <1>6, <1>7 DEF SectionParts, DeviceParts

LEMMA SectionPart ==
  ASSUME Records
  PROVE  /\ SectionParts \in Seq(Seq(Bytes)) /\ DOMAIN sections = 1..Len(SectionParts)
         /\ Len(SectionParts) \in Nat
         /\ \A k \in DOMAIN sections :
              /\ Len(SectionParts[k]) = 6 + Len(sections[k].name)
              /\ Len(sections[k].name) \in 0..95 /\ Offset(SectionParts, k) \in Nat
<1>1. SectionParts \in Seq(Seq(Bytes)) /\ Len(SectionParts) = Len(sections)
  BY PartsAre
<1>2. DOMAIN sections = 1..Len(SectionParts) /\ Len(SectionParts) \in Nat
  BY <1>1 DEF Records
<1>3. ASSUME NEW k \in DOMAIN sections
      PROVE  /\ Len(SectionParts[k]) = 6 + Len(sections[k].name)
             /\ Len(sections[k].name) \in 0..95 /\ Offset(SectionParts, k) \in Nat
  <2> DEFINE r == sections[k]
  <2>1. SectionParts[k] = SectionBytes(r) /\ r \in SectionRecord
    BY PartsAre
  <2> HIDE DEF r
  <2>2. Len(SectionBytes(r)) = 6 + Len(r.name)
    BY <2>1, SectionBytesAre
  <2>3. r.name \in Texts
    BY <2>1 DEF SectionRecord
  <2>4. Len(r.name) \in 0..95
    BY <2>3, TextsAre
  <2>5. Offset(SectionParts, k) \in Nat
    <3>1. k \in 1..(Len(SectionParts) + 1)
      BY <1>2
    <3> QED
      BY <1>1, <3>1, Offsets
  <2> QED
    BY <2>1, <2>2, <2>4, <2>5 DEF r
<1> QED
  BY <1>1, <1>2, <1>3

LEMMA DevicePart ==
  ASSUME Records
  PROVE  /\ DeviceParts \in Seq(Seq(Bytes)) /\ DOMAIN devices = 1..Len(DeviceParts)
         /\ Len(DeviceParts) \in Nat
         /\ \A k \in DOMAIN devices :
              /\ Len(DeviceParts[k]) = Len(Ahead(devices[k])) + 3 + Len(devices[k].name)
              /\ Len(Ahead(devices[k])) \in Nat
              /\ Len(devices[k].name) \in 0..95 /\ Offset(DeviceParts, k) \in Nat
<1>1. DeviceParts \in Seq(Seq(Bytes)) /\ Len(DeviceParts) = Len(devices)
  BY PartsAre
<1>2. DOMAIN devices = 1..Len(DeviceParts) /\ Len(DeviceParts) \in Nat
  BY <1>1 DEF Records
<1>3. ASSUME NEW k \in DOMAIN devices
      PROVE  /\ Len(DeviceParts[k]) = Len(Ahead(devices[k])) + 3 + Len(devices[k].name)
             /\ Len(Ahead(devices[k])) \in Nat
             /\ Len(devices[k].name) \in 0..95 /\ Offset(DeviceParts, k) \in Nat
  <2> DEFINE r == devices[k]
  <2>1. DeviceParts[k] = DeviceBytes(r) /\ r \in DeviceRecord
    BY PartsAre
  <2> HIDE DEF r
  <2>2. /\ Len(DeviceBytes(r)) = Len(Ahead(r)) + 3 + Len(r.name)
        /\ Len(Ahead(r)) \in Nat
    <3>1. LaidOut(r)
      BY ONLY <2>1, DeviceBytesAre
    <3> QED
      BY ONLY <3>1, Zenon DEF LaidOut
  <2>3. r.name \in Texts
    BY <2>1 DEF DeviceRecord
  <2>4. Len(r.name) \in 0..95
    BY <2>3, TextsAre
  <2>5. Offset(DeviceParts, k) \in Nat
    <3>1. k \in 1..(Len(DeviceParts) + 1)
      BY <1>2
    <3> QED
      BY <1>1, <3>1, Offsets
  <2> QED
    BY <2>1, <2>2, <2>4, <2>5 DEF r
<1> QED
  BY <1>1, <1>2, <1>3

LEMMA ZerosAre ==
  ASSUME NEW n \in Nat
  PROVE  Zeros(n) \in Seq(Bytes) /\ Len(Zeros(n)) = n /\ \A k \in 1..n : Zeros(n)[k] = 0
BY DEF Zeros, Bytes

\* The two regions one behind the other, each byte in its place.
LEMMA Regions ==
  ASSUME Records, Loaded
  PROVE  LET s == SectionsBytes(sections)
             d == DevicesBytes(devices)
         IN /\ s \in Seq(Bytes) /\ d \in Seq(Bytes)
            /\ data \in Seq(Bytes) /\ Len(data) = NamesEnd + Len(d) + 6
            /\ \A q \in 1..Len(s) : 1 + q <= NamesEnd /\ data[1 + q] = s[q]
            /\ \A q \in 1..NamesEnd : q - 1 \notin 1..Len(s) => data[q] = 0
            /\ \A q \in 1..Len(d) : data[NamesEnd + q] = d[q]
            /\ \A q \in 1..6 : data[NamesEnd + Len(d) + q] = 0
<1> DEFINE s == SectionsBytes(sections)
           d == DevicesBytes(devices)
           z == Zeros(NamesSize - Len(s))
           y == Zeros(6)
           front == <<0>> \o s
           first == front \o z
           second == d \o y
<1>1. s \in Seq(Bytes) /\ d \in Seq(Bytes) /\ Len(s) <= NamesSize
  <2>1. s = FlattenSeq(SectionParts) /\ d = FlattenSeq(DeviceParts)
    BY DEF SectionsBytes, DevicesBytes, SectionParts, DeviceParts
  <2> QED
    BY <2>1, PartsAre, FlattenType DEF Records
<1>2. data = first \o second
  BY DEF Loaded, NamesRegion, DevicesRegion
<1> HIDE DEF s, d
<1>3. /\ NamesSize - Len(s) \in Nat
      /\ z \in Seq(Bytes) /\ Len(z) = NamesSize - Len(s)
      /\ \A k \in 1..(NamesSize - Len(s)) : z[k] = 0
  <2>1. NamesSize - Len(s) \in Nat
    BY <1>1, ParserAssumption
  <2> QED
    BY <2>1, ZerosAre
<1>4. y \in Seq(Bytes) /\ Len(y) = 6 /\ \A k \in 1..6 : y[k] = 0
  BY ZerosAre
<1> HIDE DEF z, y
<1>5. <<0>> \in Seq(Bytes) /\ Len(<<0>>) = 1 /\ <<0>>[1] = 0
  BY DEF Bytes
<1>6. /\ front \in Seq(Bytes) /\ Len(front) = 1 + Len(s)
      /\ front[1] = 0 /\ \A q \in 1..Len(s) : front[1 + q] = s[q]
  <2> DEFINE one == <<0>>
  <2>1. one \in Seq(Bytes) /\ s \in Seq(Bytes) /\ Len(one) = 1 /\ one[1] = 0
    BY <1>1, <1>5
  <2> HIDE DEF one
  <2>2. /\ one \o s \in Seq(Bytes) /\ Len(one \o s) = Len(one) + Len(s)
        /\ \A j \in 1..Len(one) : (one \o s)[j] = one[j]
        /\ \A j \in 1..Len(s) : (one \o s)[Len(one) + j] = s[j]
    <3>1. one \in Seq(Bytes) /\ s \in Seq(Bytes)
      BY <2>1
    <3> QED
      BY ONLY <3>1, Joined
  <2>3. front = one \o s
    BY DEF one
  <2> HIDE DEF front
  <2> QED
    BY <2>1, <2>2, <2>3
<1> HIDE DEF front
<1>7. /\ first \in Seq(Bytes) /\ Len(first) = Len(front) + Len(z)
      /\ \A j \in 1..Len(front) : first[j] = front[j]
      /\ \A j \in 1..Len(z) : first[Len(front) + j] = z[j]
  <2>1. front \in Seq(Bytes) /\ z \in Seq(Bytes)
    BY <1>3, <1>6
  <2> QED
    BY ONLY <2>1, Joined
<1>8. /\ second \in Seq(Bytes) /\ Len(second) = Len(d) + Len(y)
      /\ \A j \in 1..Len(d) : second[j] = d[j]
      /\ \A j \in 1..Len(y) : second[Len(d) + j] = y[j]
  <2>1. d \in Seq(Bytes) /\ y \in Seq(Bytes)
    BY <1>1, <1>4
  <2> QED
    BY ONLY <2>1, Joined
<1> HIDE DEF first, second
<1>9. /\ data \in Seq(Bytes) /\ Len(data) = Len(first) + Len(second)
      /\ \A j \in 1..Len(first) : data[j] = first[j]
      /\ \A j \in 1..Len(second) : data[Len(first) + j] = second[j]
  <2>1. first \in Seq(Bytes) /\ second \in Seq(Bytes)
    BY <1>7, <1>8
  <2> QED
    BY ONLY <2>1, <1>2, Joined
<1>10. /\ Len(first) = NamesEnd /\ NamesEnd \in Nat
       /\ Len(s) \in Nat /\ Len(d) \in Nat /\ Len(s) + 1 <= NamesEnd
  BY <1>1, <1>3, <1>6, <1>7, ParserAssumption DEF NamesEnd
<1>11. Len(second) = Len(d) + 6
  BY <1>4, <1>8
<1>12. ASSUME NEW q \in 1..Len(s) PROVE 1 + q <= NamesEnd /\ data[1 + q] = s[q]
  <2>1. 1 + q \in 1..Len(front) /\ 1 + q \in 1..Len(first)
    BY <1>6, <1>10
  <2> QED
    BY <2>1, <1>6, <1>7, <1>9, <1>10
<1>13. ASSUME NEW q \in 1..NamesEnd, q - 1 \notin 1..Len(s) PROVE data[q] = 0
  <2>1. data[q] = first[q]
    BY <1>9, <1>10
  <2>2. CASE q = 1
    <3>1. 1 \in 1..Len(front)
      BY <1>6, <1>10
    <3> QED
      BY <2>1, <2>2, <3>1, <1>6, <1>7
  <2>3. CASE q # 1
    <3>1. /\ q - Len(front) \in 1..Len(z) /\ Len(front) + (q - Len(front)) = q
          /\ q - Len(front) \in 1..(NamesSize - Len(s))
      BY <2>3, <1>3, <1>6, <1>7, <1>10, <1>13
    <3> QED
      BY <2>1, <3>1, <1>3, <1>7
  <2> QED
    BY <2>2, <2>3
<1>14. ASSUME NEW q \in 1..Len(d) PROVE data[NamesEnd + q] = d[q]
  <2>1. q \in 1..Len(second)
    BY <1>10, <1>11
  <2> QED
    BY <2>1, <1>8, <1>9, <1>10
<1>15. ASSUME NEW q \in 1..6 PROVE data[NamesEnd + Len(d) + q] = 0
  <2>1. Len(d) + q \in 1..Len(second) /\ NamesEnd + (Len(d) + q) = NamesEnd + Len(d) + q
    BY <1>10, <1>11
  <2>2. data[NamesEnd + (Len(d) + q)] = second[Len(d) + q]
    BY <2>1, <1>9, <1>10
  <2>3. second[Len(d) + q] = y[q] /\ y[q] = 0
    BY <1>4, <1>8
  <2> QED
    BY <2>1, <2>2, <2>3
<1>16. Len(data) = NamesEnd + Len(d) + 6
  BY <1>9, <1>10, <1>11
<1> QED
  BY <1>1, <1>9, <1>12, <1>13, <1>14, <1>15, <1>16 DEF s, d

\* The k-th section record is where the ones before it end, and its bytes are
\* those the panel wrote.
LEMMA SectionStands ==
  ASSUME Records, Loaded, NEW k \in DOMAIN sections
  PROVE  LET a == SectionAt(k)
             b == SectionBytes(sections[k])
         IN /\ a \in Nat /\ a >= 1 /\ a + Len(b) <= NamesEnd
            /\ \A p \in 1..Len(b) : data[a + p] = b[p]
<1> DEFINE s == SectionsBytes(sections)
           b == SectionBytes(sections[k])
           at == Offset(SectionParts, k)
<1>1. /\ SectionParts \in Seq(Seq(Bytes)) /\ k \in 1..Len(SectionParts)
      /\ SectionParts[k] = b /\ b \in Seq(Bytes)
  BY PartsAre, SectionBytesAre DEF Records
<1>2. s = FlattenSeq(SectionParts)
  BY DEF SectionsBytes, SectionParts
<1>3. \A p \in Nat : p \in 1..Len(b) => at + p \in 1..Len(s) /\ s[at + p] = b[p]
  BY <1>1, <1>2, FlattenAt
<1>4. /\ at \in Nat /\ Offset(SectionParts, k + 1) = at + Len(b)
      /\ at + Len(b) <= Len(s)
  <2>1. /\ at \in Nat /\ Offset(SectionParts, k + 1) = at + Len(b)
        /\ Offset(SectionParts, Len(SectionParts) + 1) = Len(s)
    BY <1>1, <1>2, Offsets
  <2>2. Offset(SectionParts, k) + Len(SectionParts[k]) <= Offset(SectionParts, Len(SectionParts) + 1)
    <3>1. Len(SectionParts) + 1 \in (k + 1)..(Len(SectionParts) + 1)
      BY <1>1
    <3> QED
      BY <1>1, <3>1, OffsetsAscend
  <2> QED
    BY <1>1, <2>1, <2>2
<1>5. /\ Len(s) \in Nat /\ Len(s) <= NamesSize
      /\ \A q \in 1..Len(s) : data[1 + q] = s[q]
  <2>1. s \in Seq(Bytes) /\ \A q \in 1..Len(s) : data[1 + q] = s[q]
    BY Regions
  <2> HIDE DEF s
  <2> QED
    BY <2>1 DEF Records, s
<1> HIDE DEF s, b, at
<1>6. 1 + at \in Nat /\ 1 + at >= 1 /\ 1 + at + Len(b) <= NamesEnd
  BY <1>1, <1>4, <1>5, ParserAssumption DEF NamesEnd
<1>7. ASSUME NEW p \in 1..Len(b) PROVE data[1 + at + p] = b[p]
  <2>1. at + p \in 1..Len(s) /\ s[at + p] = b[p]
    BY <1>3
  <2>2. data[1 + (at + p)] = s[at + p] /\ 1 + (at + p) = 1 + at + p
    BY <1>4, <1>5, <2>1
  <2> QED
    BY <2>1, <2>2
<1> QED
  BY <1>6, <1>7 DEF SectionAt, at, b

LEMMA DeviceStands ==
  ASSUME Records, Loaded, NEW k \in DOMAIN devices
  PROVE  LET a == DeviceAt(k)
             b == DeviceBytes(devices[k])
         IN /\ a \in Nat /\ a >= NamesEnd /\ a + Len(b) <= Len(data) - 6
            /\ \A p \in 1..Len(b) : data[a + p] = b[p]
<1> DEFINE d == DevicesBytes(devices)
           b == DeviceBytes(devices[k])
           at == Offset(DeviceParts, k)
<1>1. /\ DeviceParts \in Seq(Seq(Bytes)) /\ k \in 1..Len(DeviceParts)
      /\ DeviceParts[k] = b /\ b \in Seq(Bytes)
  <2>1. devices[k] \in DeviceRecord
    BY PartsAre
  <2>2. LaidOut(devices[k])
    BY ONLY <2>1, DeviceBytesAre
  <2>3. b \in Seq(Bytes)
    BY ONLY <2>2, Zenon DEF LaidOut
  <2> QED
    BY PartsAre, <2>3 DEF Records
<1>2. d = FlattenSeq(DeviceParts)
  BY DEF DevicesBytes, DeviceParts
<1>3. \A p \in Nat : p \in 1..Len(b) => at + p \in 1..Len(d) /\ d[at + p] = b[p]
  BY <1>1, <1>2, FlattenAt
<1>4. /\ at \in Nat /\ Offset(DeviceParts, k + 1) = at + Len(b)
      /\ at + Len(b) <= Len(d)
  <2>1. /\ at \in Nat /\ Offset(DeviceParts, k + 1) = at + Len(b)
        /\ Offset(DeviceParts, Len(DeviceParts) + 1) = Len(d)
    BY <1>1, <1>2, Offsets
  <2>2. Offset(DeviceParts, k) + Len(DeviceParts[k]) <= Offset(DeviceParts, Len(DeviceParts) + 1)
    <3>1. Len(DeviceParts) + 1 \in (k + 1)..(Len(DeviceParts) + 1)
      BY <1>1
    <3> QED
      BY <1>1, <3>1, OffsetsAscend
  <2> QED
    BY <1>1, <2>1, <2>2
<1>5. /\ d \in Seq(Bytes) /\ Len(data) = NamesEnd + Len(d) + 6
      /\ \A q \in 1..Len(d) : data[NamesEnd + q] = d[q]
  BY Regions
<1> HIDE DEF d, b, at
<1>6. NamesEnd \in Nat /\ DevicesStart = NamesEnd /\ Len(d) \in Nat /\ Len(b) \in Nat
  BY <1>1, <1>5, ParserAssumption DEF NamesEnd, DevicesStart
<1>7. /\ NamesEnd + at \in Nat /\ NamesEnd + at >= NamesEnd
      /\ NamesEnd + at + Len(b) <= Len(data) - 6
  BY <1>4, <1>5, <1>6
<1>8. ASSUME NEW p \in 1..Len(b) PROVE data[NamesEnd + at + p] = b[p]
  <2>1. at + p \in 1..Len(d) /\ d[at + p] = b[p]
    BY <1>3
  <2>2. data[NamesEnd + (at + p)] = d[at + p] /\ NamesEnd + (at + p) = NamesEnd + at + p
    BY <1>4, <1>5, <1>6, <2>1
  <2> QED
    BY <2>1, <2>2
<1>9. DeviceAt(k) = NamesEnd + at
  BY <1>6 DEF DeviceAt, at
<1> QED
  BY <1>7, <1>8, <1>9 DEF b

\* The same by offset, as the parser looks at them.
LEMMA Placed ==
  ASSUME NEW a \in Nat, NEW b \in Seq(Bytes), \A p \in 1..Len(b) : data[a + p] = b[p]
  PROVE  \A p \in 0..(Len(b) - 1) : Byte(a + p) = b[p + 1]
<1> TAKE p \in 0..(Len(b) - 1)
<1>1. p + 1 \in 1..Len(b) /\ a + (p + 1) = a + p + 1
  OBVIOUS
<1> QED
  BY <1>1 DEF Byte

LEMMA TextPlaced ==
  ASSUME NEW a \in Nat, NEW b \in Seq(Bytes), \A p \in 1..Len(b) : data[a + p] = b[p],
         data \in Seq(Bytes), a + Len(b) <= Len(data),
         NEW text \in Seq(Bytes), NEW c \in Nat, c + Len(text) <= Len(b),
         \A p \in 1..Len(text) : b[c + p] = text[p]
  PROVE  Text(a + c, Len(text)) = text
<1> DEFINE n == Len(text)
           from == a + c + 1
           until == a + c + n
           t == SubSeq(data, from, until)
<1>1. n \in Nat /\ Len(b) \in Nat /\ Len(data) \in Nat
  OBVIOUS
<1> HIDE DEF n
<1>2. /\ from \in Nat /\ until \in Nat /\ from >= 1 /\ until <= Len(data)
      /\ until - from + 1 = n /\ \A p \in 1..n : from + p - 1 = a + (c + p)
  BY <1>1 DEF n
<1>3. ASSUME NEW p \in 1..n PROVE data[a + (c + p)] = text[p]
  <2>1. c + p \in 1..Len(b)
    BY <1>1 DEF n
  <2> QED
    BY <2>1 DEF n
<1> HIDE DEF from, until
<1>4. Len(t) = n /\ \A p \in 1..n : t[p] = data[from + p - 1]
  BY <1>1, <1>2
<1>5. t \in Seq(Bytes)
  BY <1>2
<1>6. Len(text) = n /\ \A p \in 1..n : t[p] = text[p]
  BY <1>2, <1>3, <1>4 DEF n
<1> HIDE DEF t
<1>7. t = text
  BY <1>4, <1>5, <1>6
<1>8. Text(a + c, n) = t
  BY DEF Text, t, from, until
<1> QED
  BY <1>7, <1>8 DEF n

LEMMA SectionFields ==
  ASSUME Records, Loaded, NEW k \in DOMAIN sections
  PROVE  LET a == SectionAt(k)
             r == sections[k]
             n == Len(r.name)
         IN /\ a \in Nat /\ a >= 1 /\ n \in 0..95 /\ a + 6 + n <= NamesEnd
            /\ r.number \in 0..255
            /\ Byte(a) = NameTag /\ Byte(a + 1) = RecordSubtag /\ Byte(a + 2) = r.number
            /\ Byte(a + 3) = NameSubtag /\ Byte(a + 4) = 0 /\ Byte(a + 5) = LenBase + n
            /\ \A p \in 6..(5 + n) : Byte(a + p) \in 32..255
            /\ Text(a + 6, n) = r.name
<1> DEFINE a == SectionAt(k)
           r == sections[k]
           n == Len(r.name)
           b == SectionBytes(r)
<1>1. r \in SectionRecord
  BY PartsAre
<1>2. /\ a \in Nat /\ a >= 1 /\ a + Len(b) <= NamesEnd
      /\ \A p \in 1..Len(b) : data[a + p] = b[p]
  BY SectionStands
<1>3. /\ b \in Seq(Bytes) /\ Len(b) = 6 + n
      /\ b[1] = NameTag /\ b[2] = RecordSubtag /\ b[3] = r.number
      /\ b[4] = NameSubtag /\ b[5] = 0 /\ b[6] = LenBase + n
      /\ \A p \in 1..n : b[6 + p] = r.name[p]
  BY <1>1, SectionBytesAre
<1>4. /\ r.name \in Seq(Bytes) /\ n \in 0..95
      /\ \A p \in 1..n : r.name[p] \in 32..255
  BY <1>1, TextsAre DEF SectionRecord
<1>5. r.number \in 0..255
  BY <1>1 DEF SectionRecord, Bytes
<1>6. data \in Seq(Bytes) /\ NamesEnd <= Len(data) /\ NamesEnd \in Nat /\ Len(data) \in Nat
  <2>1. /\ data \in Seq(Bytes) /\ Len(data) = NamesEnd + Len(DevicesBytes(devices)) + 6
        /\ DevicesBytes(devices) \in Seq(Bytes)
    BY Regions
  <2> QED
    BY <2>1, ParserAssumption DEF NamesEnd
<1> HIDE DEF a, b, r
<1>7. \A p \in 0..(Len(b) - 1) : Byte(a + p) = b[p + 1]
  <2>1. a \in Nat /\ b \in Seq(Bytes) /\ \A p \in 1..Len(b) : data[a + p] = b[p]
    BY <1>2, <1>3
  <2> QED
    BY ONLY <2>1, Placed
<1>8. Text(a + 6, n) = r.name
  <2>1. a + Len(b) <= Len(data)
    BY <1>2, <1>3, <1>6
  <2>2. 6 \in Nat /\ 6 + Len(r.name) <= Len(b)
    BY <1>3, <1>4
  <2> QED
    <3>1. /\ a \in Nat /\ b \in Seq(Bytes) /\ data \in Seq(Bytes) /\ r.name \in Seq(Bytes)
          /\ \A p \in 1..Len(b) : data[a + p] = b[p]
          /\ \A p \in 1..Len(r.name) : b[6 + p] = r.name[p]
      BY <1>2, <1>3, <1>4, <1>6
    <3> DEFINE name == r.name
    <3> HIDE DEF name
    <3>2. Text(a + 6, Len(name)) = name
      BY ONLY <2>1, <2>2, <3>1, TextPlaced DEF name
    <3> QED
      BY <3>2 DEF name
<1> HIDE DEF n
<1>9. /\ Byte(a + 0) = b[0 + 1] /\ Byte(a + 1) = b[1 + 1] /\ Byte(a + 2) = b[2 + 1]
      /\ Byte(a + 3) = b[3 + 1] /\ Byte(a + 4) = b[4 + 1] /\ Byte(a + 5) = b[5 + 1]
  <2>1. \A p \in 0..5 : p \in 0..(Len(b) - 1)
    BY <1>3, <1>4
  <2> QED
    BY <1>7, <2>1
<1>10. a + 0 = a
  BY <1>2
<1>11. ASSUME NEW p \in 6..(5 + n) PROVE Byte(a + p) \in 32..255
  <2>1. p - 5 \in 1..n /\ p \in 0..(Len(b) - 1) /\ p + 1 = 6 + (p - 5)
    <3>1. n \in Nat /\ Len(b) = 6 + n
      BY <1>3, <1>4
    <3> QED
      BY ONLY <3>1, p \in 6..(5 + n)
  <2>2. Byte(a + p) = b[6 + (p - 5)]
    BY <1>7, <2>1
  <2>3. b[6 + (p - 5)] = r.name[p - 5] /\ r.name[p - 5] \in 32..255
    BY <1>3, <1>4, <2>1
  <2> QED
    BY <2>2, <2>3
<1>12. a + 6 + n <= NamesEnd
  <2>1. a + Len(b) <= NamesEnd /\ Len(b) = 6 + n
    BY <1>2, <1>3
  <2>2. a \in Nat /\ n \in Nat /\ NamesEnd \in Nat /\ a + (6 + n) = a + 6 + n
    <3>1. a \in Nat /\ n \in Nat /\ NamesEnd \in Nat
      BY <1>2, <1>4, <1>6
    <3> QED
      BY ONLY <3>1
  <2> QED
    BY ONLY <2>1, <2>2
<1>13. /\ Byte(a) = NameTag /\ Byte(a + 1) = RecordSubtag /\ Byte(a + 2) = r.number
       /\ Byte(a + 3) = NameSubtag /\ Byte(a + 4) = 0 /\ Byte(a + 5) = LenBase + n
  <2>1. 0 + 1 = 1 /\ 1 + 1 = 2 /\ 2 + 1 = 3 /\ 3 + 1 = 4 /\ 4 + 1 = 5 /\ 5 + 1 = 6
    OBVIOUS
  <2>2. /\ b[1] = NameTag /\ b[2] = RecordSubtag /\ b[3] = r.number
        /\ b[4] = NameSubtag /\ b[5] = 0 /\ b[6] = LenBase + n
    BY <1>3
  <2> QED
    BY ONLY <1>9, <1>10, <2>1, <2>2
<1>14. a \in Nat /\ a >= 1 /\ n \in 0..95
  BY <1>2, <1>4
<1> QED
  BY ONLY <1>5, <1>8, <1>11, <1>12, <1>13, <1>14 DEF a, r, n

\* What the scan meets at the name of a device, and that all bytes of the record
\* are in their places.
LEMMA DeviceFields ==
  ASSUME Records, Loaded, NEW k \in DOMAIN devices
  PROVE  LET a == DeviceAt(k)
             c == NameAt(k)
             r == devices[k]
             b == DeviceBytes(r)
             n == Len(r.name)
         IN /\ a \in Nat /\ c \in Nat /\ a >= NamesEnd /\ c >= a
            /\ n \in 0..95 /\ c + 3 + n <= Len(data) - 6
            /\ Byte(c) = NameTag /\ Byte(c + 1) = LenBase + n
            /\ Byte(c + 2 + n) = Delimiter
            /\ \A p \in 0..(n - 1) : Byte(c + 2 + p) \in 32..255
            /\ Text(c + 2, n) = r.name
            /\ \A p \in 0..(Len(b) - 1) : Byte(a + p) = b[p + 1]
<1> DEFINE a == DeviceAt(k)
           c == NameAt(k)
           r == devices[k]
           n == Len(r.name)
           b == DeviceBytes(r)
           h == Len(Ahead(r))
<1>1. r \in DeviceRecord
  BY PartsAre
<1>2. /\ a \in Nat /\ a >= NamesEnd /\ a + Len(b) <= Len(data) - 6
      /\ \A p \in 1..Len(b) : data[a + p] = b[p]
  BY DeviceStands
<1> HIDE DEF r
<1>3. /\ b \in Seq(Bytes) /\ Len(b) = h + 3 + n /\ h \in Nat
      /\ b[h + 1] = NameTag /\ b[h + 2] = LenBase + n /\ b[h + 3 + n] = Delimiter
      /\ \A p \in 1..n : b[h + 2 + p] = r.name[p]
  <2>1. LaidOut(r)
    BY ONLY <1>1, DeviceBytesAre
  <2> QED
    BY ONLY <2>1, Zenon DEF LaidOut
<1>4. /\ r.name \in Seq(Bytes) /\ n \in 0..95
      /\ \A p \in 1..n : r.name[p] \in 32..255
  <2>1. r.name \in Texts
    BY <1>1 DEF DeviceRecord
  <2> QED
    BY <2>1, TextsAre
<1>5. c = a + h
  BY DEF NameAt, r
<1>6. data \in Seq(Bytes) /\ Len(data) \in Nat
  BY Regions
<1>7. n \in Nat
  BY <1>4
<1> HIDE DEF a, b, c, h, r
<1>8. \A p \in 0..(Len(b) - 1) : Byte(a + p) = b[p + 1]
  <2>1. a \in Nat /\ b \in Seq(Bytes) /\ \A p \in 1..Len(b) : data[a + p] = b[p]
    BY <1>2, <1>3
  <2> QED
    BY ONLY <2>1, Placed
<1>9. Text(c + 2, n) = r.name
  <2> DEFINE name == r.name
             d == h + 2
  <2>1. /\ a \in Nat /\ b \in Seq(Bytes) /\ data \in Seq(Bytes) /\ name \in Seq(Bytes)
        /\ \A p \in 1..Len(b) : data[a + p] = b[p]
        /\ \A p \in 1..Len(name) : b[d + p] = name[p]
    BY <1>2, <1>3, <1>4, <1>6
  <2>2. Len(name) = n /\ Len(b) = h + 3 + n
    BY <1>3
  <2> HIDE DEF name, n
  <2>3. a + Len(b) <= Len(data)
    <3> DEFINE l == Len(b)
    <3>1. a + l <= Len(data) - 6 /\ l = h + 3 + n
      BY <1>2, <2>2
    <3> HIDE DEF l
    <3>2. a + l <= Len(data)
      BY ONLY <1>2, <1>3, <1>6, <1>7, <3>1
    <3> QED
      BY <3>2 DEF l
  <2>4. d \in Nat /\ d + Len(name) <= Len(b)
    BY <1>3, <1>7, <2>2
  <2> HIDE DEF d
  <2>5. Text(a + d, Len(name)) = name
    BY ONLY <2>1, <2>3, <2>4, TextPlaced
  <2>6. a + d = c + 2
    BY <1>2, <1>3, <1>5 DEF d
  <2> QED
    BY <2>2, <2>5, <2>6 DEF name
<1> HIDE DEF n
<1>10. /\ c \in Nat /\ c >= a /\ c + 3 + n <= Len(data) - 6
  <2> DEFINE l == Len(b)
  <2>1. a \in Nat /\ h \in Nat /\ c = a + h /\ a + l <= Len(data) - 6 /\ l = h + 3 + n
    BY <1>2, <1>3, <1>5
  <2> HIDE DEF l
  <2> QED
    BY ONLY <1>6, <1>7, <2>1
<1>11. ASSUME NEW p \in 0..(2 + n) PROVE Byte(c + p) = b[h + 1 + p]
  <2>1. h + p \in 0..(Len(b) - 1) /\ h + p + 1 = h + 1 + p /\ a + (h + p) = c + p
    <3> DEFINE l == Len(b)
    <3>1. a \in Nat /\ h \in Nat /\ c = a + h /\ l = h + 3 + n
      BY <1>2, <1>3, <1>5
    <3> HIDE DEF l
    <3>2. h + p \in 0..(l - 1) /\ h + p + 1 = h + 1 + p /\ a + (h + p) = c + p
      BY ONLY <1>7, <3>1, p \in 0..(2 + n)
    <3> QED
      BY <3>2 DEF l
  <2> QED
    BY <1>8, <2>1
<1>12. Byte(c) = NameTag /\ Byte(c + 1) = LenBase + n /\ Byte(c + 2 + n) = Delimiter
  <2>1. 0 \in 0..(2 + n) /\ 1 \in 0..(2 + n) /\ 2 + n \in 0..(2 + n)
    BY ONLY <1>7
  <2>2. /\ Byte(c + 0) = b[h + 1 + 0] /\ Byte(c + 1) = b[h + 1 + 1]
        /\ Byte(c + (2 + n)) = b[h + 1 + (2 + n)]
    BY <1>11, <2>1
  <2>3. /\ c + 0 = c /\ h + 1 + 0 = h + 1 /\ h + 1 + 1 = h + 2
        /\ c + (2 + n) = c + 2 + n /\ h + 1 + (2 + n) = h + 3 + n
    <3>1. h \in Nat
      BY <1>3
    <3> QED
      BY ONLY <1>7, <1>10, <3>1
  <2> QED
    BY <1>3, <2>2, <2>3
<1>13. ASSUME NEW p \in 0..(n - 1) PROVE Byte(c + 2 + p) \in 32..255
  <2>1. p + 1 \in 1..n /\ 2 + p \in 0..(2 + n)
    BY ONLY <1>7, p \in 0..(n - 1)
  <2>2. c + (2 + p) = c + 2 + p /\ h + 1 + (2 + p) = h + 2 + (p + 1)
    <3>1. h \in Nat
      BY <1>3
    <3> QED
      BY ONLY <1>7, <1>10, <3>1, p \in 0..(n - 1)
  <2>3. Byte(c + (2 + p)) = b[h + 1 + (2 + p)]
    BY <1>11, <2>1
  <2>4. b[h + 2 + (p + 1)] = r.name[p + 1]
    BY <1>3, <2>1
  <2>5. r.name[p + 1] \in 32..255
    BY <1>4, <2>1 DEF n
  <2> QED
    BY <2>2, <2>3, <2>4, <2>5
<1>14. a >= NamesEnd /\ a \in Nat
  BY <1>2
<1>15. n \in 0..95
  BY <1>4 DEF n
<1> QED
  BY ONLY <1>8, <1>9, <1>10, <1>12, <1>13, <1>14, <1>15, Zenon DEF a, b, c, n, r

\* The records follow one another.
LEMMA SectionsAscend ==
  ASSUME Records, Loaded, NEW j \in DOMAIN sections, NEW k \in DOMAIN sections, j < k
  PROVE  SectionAt(j) + 6 + Len(sections[j].name) <= SectionAt(k)
<1> DEFINE x == Offset(SectionParts, j)
           y == Offset(SectionParts, k)
           n == Len(sections[j].name)
<1>1. /\ SectionParts \in Seq(Seq(Bytes)) /\ j \in 1..Len(SectionParts)
      /\ k \in (j + 1)..(Len(SectionParts) + 1)
  BY SectionPart
<1>2. x + Len(SectionParts[j]) <= y
  BY <1>1, OffsetsAscend
<1>3. Len(SectionParts[j]) = 6 + n /\ n \in Nat /\ x \in Nat /\ y \in Nat
  BY SectionPart
<1>4. SectionAt(j) = 1 + x /\ SectionAt(k) = 1 + y
  BY DEF SectionAt
<1>5. DevicesStart \in Nat
  BY ParserAssumption DEF DevicesStart, NamesEnd
<1> HIDE DEF x, y, n
<1>6. SectionAt(j) + 6 + n <= SectionAt(k)
  BY <1>2, <1>3, <1>4, <1>5
<1> QED
  BY <1>6 DEF n

LEMMA DevicesAscend ==
  ASSUME Records, Loaded, NEW j \in DOMAIN devices, NEW k \in DOMAIN devices, j < k
  PROVE  NameAt(j) + 3 + Len(devices[j].name) <= DeviceAt(k)
<1> DEFINE x == Offset(DeviceParts, j)
           y == Offset(DeviceParts, k)
           n == Len(devices[j].name)
           h == Len(Ahead(devices[j]))
<1>1. /\ DeviceParts \in Seq(Seq(Bytes)) /\ j \in 1..Len(DeviceParts)
      /\ k \in (j + 1)..(Len(DeviceParts) + 1)
  BY DevicePart
<1>2. x + Len(DeviceParts[j]) <= y
  BY <1>1, OffsetsAscend
<1>3. Len(DeviceParts[j]) = h + 3 + n /\ h \in Nat /\ n \in Nat /\ x \in Nat /\ y \in Nat
  <2>1. /\ Len(DeviceParts[j]) = h + 3 + n /\ h \in Nat /\ n \in 0..95 /\ x \in Nat
        /\ y \in Nat
    BY DevicePart
  <2> HIDE DEF h, n, x, y
  <2> QED
    BY <2>1
<1>4. /\ DeviceAt(j) = DevicesStart + x /\ DeviceAt(k) = DevicesStart + y
      /\ NameAt(j) = DeviceAt(j) + h
  BY DEF DeviceAt, NameAt
<1>5. DevicesStart \in Nat
  BY ParserAssumption DEF DevicesStart, NamesEnd
<1> HIDE DEF x, y, n, h
<1>6. NameAt(j) + 3 + n <= DeviceAt(k)
  BY <1>2, <1>3, <1>4, <1>5
<1> QED
  BY <1>6 DEF n

\* Whatever is not zero is part of a record.
LEMMA SectionFound ==
  ASSUME Records, Loaded, NEW o \in 0..(NamesEnd - 1), Byte(o) # 0
  PROVE  \E k \in DOMAIN sections : o - SectionAt(k) \in 0..(5 + Len(sections[k].name))
<1> DEFINE s == SectionsBytes(sections)
<1>1. o \in 1..Len(s)
  <2>1. \A q \in 1..NamesEnd : q - 1 \notin 1..Len(s) => data[q] = 0
    BY Regions
  <2>2. o + 1 \in 1..NamesEnd /\ o + 1 - 1 = o
    BY ParserAssumption DEF NamesEnd
  <2> QED
    BY <2>1, <2>2 DEF Byte
<1>2. SectionParts \in Seq(Seq(Bytes)) /\ s = FlattenSeq(SectionParts)
  BY PartsAre DEF SectionsBytes, SectionParts
<1>3. PICK k \in 1..Len(SectionParts) : o - Offset(SectionParts, k) \in 1..Len(SectionParts[k])
  BY <1>1, <1>2, FlattenAt
<1>4. k \in DOMAIN sections
  BY SectionPart
<1>5. /\ Len(SectionParts[k]) = 6 + Len(sections[k].name)
      /\ Offset(SectionParts, k) \in Nat /\ Len(sections[k].name) \in Nat
  BY <1>4, SectionPart
<1>6. o - (1 + Offset(SectionParts, k)) \in 0..(5 + Len(sections[k].name))
  <2> DEFINE x == Offset(SectionParts, k)
             n == Len(sections[k].name)
  <2>1. x \in Nat /\ n \in Nat /\ o - x \in 1..(6 + n)
    BY <1>3, <1>5
  <2>2. o \in Int
    BY <1>1
  <2> HIDE DEF x, n
  <2>3. o - (1 + x) \in 0..(5 + n)
    BY ONLY <2>1, <2>2
  <2> QED
    BY <2>3 DEF x, n
<1> QED
  BY <1>4, <1>6 DEF SectionAt

LEMMA DeviceFound ==
  ASSUME Records, Loaded, NEW o \in NamesEnd..(Len(data) - 1), Byte(o) # 0
  PROVE  \E k \in DOMAIN devices : o - DeviceAt(k) \in 0..(Len(DeviceBytes(devices[k])) - 1)
<1> DEFINE d == DevicesBytes(devices)
<1>1. NamesEnd \in Nat /\ DevicesStart = NamesEnd
  BY ParserAssumption DEF NamesEnd, DevicesStart
<1>2. o + 1 - NamesEnd \in 1..Len(d)
  <2>1. /\ d \in Seq(Bytes) /\ Len(data) = NamesEnd + Len(d) + 6
        /\ \A q \in 1..6 : data[NamesEnd + Len(d) + q] = 0
    BY Regions
  <2>2. Len(d) \in Nat
    BY <2>1
  <2> HIDE DEF d
  <2>3. SUFFICES ASSUME o + 1 - NamesEnd \notin 1..Len(d) PROVE FALSE
    OBVIOUS
  <2> DEFINE q == o + 1 - NamesEnd - Len(d)
  <2>4. q \in 1..6 /\ NamesEnd + Len(d) + q = o + 1
    BY <1>1, <2>1, <2>2, <2>3
  <2> HIDE DEF q
  <2> QED
    BY <2>1, <2>4 DEF Byte
<1>3. DeviceParts \in Seq(Seq(Bytes)) /\ d = FlattenSeq(DeviceParts)
  BY PartsAre DEF DevicesBytes, DeviceParts
<1>4. PICK k \in 1..Len(DeviceParts) :
        (o + 1 - NamesEnd) - Offset(DeviceParts, k) \in 1..Len(DeviceParts[k])
  BY <1>2, <1>3, FlattenAt
<1>5. k \in DOMAIN devices
  BY DevicePart
<1>6. /\ DeviceParts[k] = DeviceBytes(devices[k]) /\ Offset(DeviceParts, k) \in Nat
      /\ Len(DeviceParts[k]) \in Nat
  <2>1. DeviceParts[k] = DeviceBytes(devices[k]) /\ DeviceParts[k] \in Seq(Bytes)
    BY <1>3, <1>5, PartsAre
  <2>2. Offset(DeviceParts, k) \in Nat
    BY <1>5, DevicePart
  <2> QED
    BY <2>1, <2>2
<1>7. o - (NamesEnd + Offset(DeviceParts, k)) \in 0..(Len(DeviceParts[k]) - 1)
  <2> DEFINE x == Offset(DeviceParts, k)
             l == Len(DeviceParts[k])
             e == NamesEnd
  <2>1. x \in Nat /\ l \in Nat /\ e \in Nat /\ (o + 1 - e) - x \in 1..l
    BY <1>1, <1>4, <1>6
  <2>2. o \in Int
    <3>1. NamesEnd \in Int /\ Len(data) - 1 \in Int
      BY <1>1, Regions
    <3> QED
      BY <3>1
  <2> HIDE DEF x, l, e
  <2>3. o - (e + x) \in 0..(l - 1)
    BY ONLY <2>1, <2>2
  <2> QED
    BY <2>3 DEF x, l, e
<1> QED
  BY <1>1, <1>5, <1>6, <1>7 DEF DeviceAt

-----------------------------------------------------------------------------
(***************************************************************************)
(* What the scans recognise.                                               *)
(***************************************************************************)
\* No byte of a section record but its first looks like the start of one.
LEMMA SectionTagOnly ==
  ASSUME Records, Loaded, NEW o \in 0..(NamesEnd - 1),
         Byte(o) = NameTag, Byte(o + 3) = NameSubtag
  PROVE  \E k \in DOMAIN sections : o = SectionAt(k)
<1>1. PICK k \in DOMAIN sections : o - SectionAt(k) \in 0..(5 + Len(sections[k].name))
  BY SectionFound DEF NameTag
<1> DEFINE a == SectionAt(k)
           n == Len(sections[k].name)
           p == o - a
<1>2. /\ a \in Nat /\ n \in 0..95
      /\ Byte(a + 1) = RecordSubtag /\ Byte(a + 2) = sections[k].number
      /\ Byte(a + 3) = NameSubtag /\ Byte(a + 4) = 0 /\ Byte(a + 5) = LenBase + n
      /\ \A m \in 6..(5 + n) : Byte(a + m) \in 32..255
  BY SectionFields
<1>3. p \in 0..(5 + n)
  BY <1>1
<1> HIDE DEF a, n
<1>4. o = a + p /\ o + 3 = a + p + 3
  BY <1>2
<1> HIDE DEF p
<1>5. LenBase + n >= 160
  BY <1>2 DEF LenBase
<1>6. p # 1 /\ p # 3 /\ p # 4 /\ p # 5
  BY <1>2, <1>4, <1>5 DEF NameTag, RecordSubtag, NameSubtag
<1>7. p # 2
  <2>1. SUFFICES ASSUME p = 2 PROVE FALSE
    OBVIOUS
  <2>2. o + 3 = a + 5
    BY <1>2, <1>4, <2>1
  <2> QED
    BY <2>2, <1>2, <1>5 DEF NameSubtag
<1>8. p \notin 6..(5 + n)
  BY <1>2, <1>4 DEF NameTag
<1>9. p = 0
  BY <1>2, <1>3, <1>6, <1>7, <1>8
<1> QED
  BY <1>2, <1>4, <1>9 DEF a

AllClear == \A k \in DOMAIN devices : Unambiguous(devices[k])

\* No byte of an unambiguous device record but its name tag looks like one.
LEMMA DeviceTagOnly ==
  ASSUME Records, Loaded, AllClear, NEW o \in NamesEnd..(Len(data) - 1), Byte(o) = NameTag,
         NEW l \in 1..MaxNameLength, Byte(o + 1) - LenBase = l, Byte(o + 2 + l) = Delimiter
  PROVE  \E k \in DOMAIN devices : o = NameAt(k)
<1>1. PICK k \in DOMAIN devices : o - DeviceAt(k) \in 0..(Len(DeviceBytes(devices[k])) - 1)
  BY DeviceFound DEF NameTag
<1> DEFINE a == DeviceAt(k)
           c == NameAt(k)
           r == devices[k]
           n == Len(r.name)
           b == DeviceBytes(r)
           h == Len(Ahead(r))
           p == o - a
<1>2. r \in DeviceRecord /\ Unambiguous(r)
  BY PartsAre DEF AllClear
<1>3. /\ a \in Nat /\ n \in 0..95 /\ Byte(c + 1) = LenBase + n /\ Byte(c + 2 + n) = Delimiter
      /\ \A m \in 0..(n - 1) : Byte(c + 2 + m) \in 32..255
      /\ \A m \in 0..(Len(b) - 1) : Byte(a + m) = b[m + 1]
  BY DeviceFields
<1>4. p \in 0..(Len(b) - 1) /\ c = a + h
  BY <1>1 DEF NameAt
<1> HIDE DEF r
<1>5. h \in Nat /\ Len(b) = h + 3 + n
  <2>1. LaidOut(r)
    BY ONLY <1>2, DeviceBytesAre
  <2> QED
    BY ONLY <2>1, Zenon DEF LaidOut
<1>6. \A q \in 1..h :
        LET m == b[q + 1] - LenBase
        IN b[q] = NameTag /\ m \in 1..MaxNameLength =>
             q + 2 + m <= Len(b) /\ b[q + 2 + m] # Delimiter
  <2>1. h + 1 - 1 = h
    <3> HIDE DEF h
    <3> QED
      BY <1>5
  <2> QED
    BY <1>2, <2>1 DEF Unambiguous
<1>7. n \in Nat /\ l \in Nat /\ l >= 1 /\ o \in Int
  <2>1. o \in Int
    BY Regions, ParserAssumption DEF NamesEnd
  <2>2. l \in Nat /\ l >= 1
    BY ParserAssumption
  <2> QED
    BY <1>3, <2>1, <2>2
<1> HIDE DEF a, b, c, h, n
<1>8. p \in 0..(h + 2 + n) /\ o = a + p
  <2>1. Len(b) - 1 = h + 2 + n
    BY <1>5, <1>7
  <2> QED
    BY <1>3, <1>4, <1>7, <2>1
<1> HIDE DEF p
<1>9. p >= h
  <2> SUFFICES ASSUME p < h PROVE FALSE
    BY <1>5, <1>8
  <2> DEFINE q == p + 1
  <2>1. q \in 1..h /\ p \in 0..(Len(b) - 1) /\ p + 1 \in 0..(Len(b) - 1)
    BY <1>5, <1>7, <1>8
  <2>2. a + (p + 1) = o + 1 /\ q + 1 = (p + 1) + 1
    BY <1>3, <1>8
  <2>3. b[q] = NameTag /\ b[q + 1] = Byte(o + 1)
    BY <1>3, <1>8, <2>1, <2>2
  <2>4. q + 2 + l <= Len(b) /\ b[q + 2 + l] # Delimiter
    BY <1>6, <2>1, <2>3
  <2>5. /\ p + 2 + l \in 0..(Len(b) - 1) /\ (p + 2 + l) + 1 = q + 2 + l
        /\ a + (p + 2 + l) = o + 2 + l
    BY <1>3, <1>5, <1>7, <1>8, <2>1, <2>4
  <2>6. Byte(o + 2 + l) = b[q + 2 + l]
    BY <1>3, <2>5
  <2> QED
    BY <2>4, <2>6
<1>10. p # h + 1
  <2> SUFFICES ASSUME p = h + 1 PROVE FALSE
    OBVIOUS
  <2>1. o = c + 1
    BY <1>3, <1>4, <1>5, <1>8
  <2>2. LenBase + n # NameTag
    BY <1>7 DEF LenBase, NameTag
  <2> QED
    BY <1>3, <2>1, <2>2
<1>11. p \notin (h + 2)..(h + 1 + n)
  <2> SUFFICES ASSUME p \in (h + 2)..(h + 1 + n) PROVE FALSE
    OBVIOUS
  <2> DEFINE m == p - h - 2
             x == Byte(c + 2 + m)
  <2>1. m \in 0..(n - 1) /\ c + 2 + m = o
    BY <1>3, <1>4, <1>5, <1>7, <1>8
  <2>2. x \in 32..255 /\ x = NameTag
    BY <1>3, <2>1
  <2> HIDE DEF x
  <2> QED
    BY <2>2 DEF NameTag
<1>12. p # h + 2 + n
  <2> SUFFICES ASSUME p = h + 2 + n PROVE FALSE
    OBVIOUS
  <2>1. o = c + 2 + n
    BY <1>3, <1>4, <1>5, <1>7, <1>8
  <2> QED
    BY <1>3, <2>1 DEF NameTag, Delimiter
<1>13. p = h
  BY <1>5, <1>7, <1>8, <1>9, <1>10, <1>11, <1>12
<1>14. o = c
  BY <1>4, <1>8, <1>13
<1> QED
  BY <1>14 DEF c

LEMMA Sizes ==
  ASSUME Records, Loaded
  PROVE  NamesEnd \in Nat \ {0} /\ Len(data) \in Nat /\ NamesEnd + 6 <= Len(data)
<1> DEFINE d == DevicesBytes(devices)
<1>1. d \in Seq(Bytes) /\ data \in Seq(Bytes) /\ Len(data) = NamesEnd + Len(d) + 6
  BY Regions
<1>2. Len(d) \in Nat /\ NamesEnd \in Nat \ {0}
  BY <1>1, ParserAssumption DEF NamesEnd
<1> HIDE DEF d
<1> QED
  BY <1>1, <1>2

\* At a record, the scan for names finds its length; nowhere else does it find
\* a record.
LEMMA NameLengthIs ==
  ASSUME Records, Loaded, NEW k \in DOMAIN sections, i = SectionAt(k)
  PROVE  NameLength = Len(sections[k].name)
<1> DEFINE n == Len(sections[k].name)
<1>1. Byte(i + 5) = LenBase + n /\ n \in 0..95
  BY SectionFields
<1> HIDE DEF n
<1>2. Byte(i + 5) - LenBase = n
  BY <1>1 DEF LenBase
<1> QED
  BY <1>2 DEF NameLength, n

LEMMA SectionRecognised ==
  ASSUME Records, Loaded, i \in 1..(NamesEnd - 1)
  PROVE  /\ AtSectionRecord =>
              \E k \in DOMAIN sections :
                i = SectionAt(k) /\ Len(sections[k].name) \in 1..MaxNameLength
         /\ \A k \in DOMAIN sections :
              i = SectionAt(k) /\ Len(sections[k].name) \in 1..MaxNameLength => AtSectionRecord
<1>1. ASSUME AtSectionRecord
      PROVE  \E k \in DOMAIN sections :
               i = SectionAt(k) /\ Len(sections[k].name) \in 1..MaxNameLength
  <2>1. Byte(i) = NameTag /\ Byte(i + 3) = NameSubtag /\ NameLength \in 1..MaxNameLength
    BY <1>1 DEF AtSectionRecord
  <2>2. i \in 0..(NamesEnd - 1)
    OBVIOUS
  <2>3. PICK k \in DOMAIN sections : i = SectionAt(k)
    BY <2>1, <2>2, SectionTagOnly
  <2> QED
    BY <2>1, <2>3, NameLengthIs
<1>2. ASSUME NEW k \in DOMAIN sections, i = SectionAt(k),
             Len(sections[k].name) \in 1..MaxNameLength
      PROVE  AtSectionRecord
  <2> DEFINE n == Len(sections[k].name)
  <2>1. NameLength = n
    BY <1>2, NameLengthIs
  <2>2. /\ Byte(i) = NameTag /\ Byte(i + 1) = RecordSubtag
        /\ Byte(i + 3) = NameSubtag /\ Byte(i + 4) = 0 /\ Byte(i + 5) = LenBase + n
        /\ i \in Nat /\ n \in 0..95 /\ i + 6 + n <= NamesEnd
    BY <1>2, SectionFields
  <2> HIDE DEF n
  <2>3. Byte(i + 5) >= LenBase
    BY <2>2 DEF LenBase
  <2>4. i + 6 + n <= Len(data)
    BY <2>2, Sizes
  <2>5. n \in 1..MaxNameLength
    BY <1>2 DEF n
  <2> QED
    BY <2>1, <2>2, <2>3, <2>4, <2>5 DEF AtSectionRecord
<1> QED
  BY <1>1, <1>2

\* The same of the scan for entries.
LEMMA DeviceNameLengthIs ==
  ASSUME Records, Loaded, NEW k \in DOMAIN devices, i = NameAt(k)
  PROVE  /\ DeviceNameLength = Len(devices[k].name)
         /\ Text(i + 2, DeviceNameLength) = devices[k].name
         /\ Byte(i) = NameTag /\ Byte(i + 2 + DeviceNameLength) = Delimiter
         /\ i + 2 + DeviceNameLength < Len(data) - 6
<1> DEFINE c == NameAt(k)
           n == Len(devices[k].name)
<1>1. /\ c \in Nat /\ n \in 0..95 /\ c + 3 + n <= Len(data) - 6
      /\ Byte(c) = NameTag /\ Byte(c + 1) = LenBase + n
      /\ Byte(c + 2 + n) = Delimiter /\ Text(c + 2, n) = devices[k].name
  BY DeviceFields
<1>2. i = c
  OBVIOUS
<1> HIDE DEF c, n
<1>3. Byte(i + 1) - LenBase = n
  BY <1>1, <1>2 DEF LenBase
<1>4. DeviceNameLength = n
  BY <1>3 DEF DeviceNameLength
<1>5. i + 2 + n < Len(data) - 6
  BY <1>1, <1>2, Sizes
<1> QED
  BY <1>1, <1>2, <1>4, <1>5 DEF n

LEMMA DeviceRecognised ==
  ASSUME Records, Loaded, AllClear, i \in NamesEnd..(Len(data) - 1)
  PROVE  /\ AtDeviceName =>
              \E k \in DOMAIN devices :
                i = NameAt(k) /\ Len(devices[k].name) \in 1..MaxNameLength
         /\ \A k \in DOMAIN devices :
              i = NameAt(k) /\ Len(devices[k].name) \in 1..MaxNameLength => AtDeviceName
<1>1. ASSUME AtDeviceName
      PROVE  \E k \in DOMAIN devices :
               i = NameAt(k) /\ Len(devices[k].name) \in 1..MaxNameLength
  <2> DEFINE l == DeviceNameLength
  <2>1. /\ Byte(i) = NameTag /\ l \in 1..MaxNameLength
        /\ Byte(i + 2 + l) = Delimiter /\ Byte(i + 1) - LenBase = l
    BY <1>1 DEF AtDeviceName, DeviceNameLength
  <2> HIDE DEF l
  <2>2. PICK k \in DOMAIN devices : i = NameAt(k)
    BY <2>1, DeviceTagOnly
  <2>3. l = Len(devices[k].name)
    BY <2>2, DeviceNameLengthIs DEF l
  <2> QED
    BY <2>1, <2>2, <2>3
<1>2. ASSUME NEW k \in DOMAIN devices, i = NameAt(k),
             Len(devices[k].name) \in 1..MaxNameLength
      PROVE  AtDeviceName
  <2>1. /\ DeviceNameLength \in 1..MaxNameLength
        /\ Byte(i) = NameTag /\ Byte(i + 2 + DeviceNameLength) = Delimiter
        /\ i + 2 + DeviceNameLength < Len(data) - 6
    BY <1>2, DeviceNameLengthIs
  <2>2. i + 2 + DeviceNameLength < Len(data)
    BY <2>1, Sizes, ParserAssumption
  <2> QED
    BY <2>1, <2>2 DEF AtDeviceName
<1> QED
  BY <1>1, <1>2

\* Where a backward search stops if nothing nearer is found.
LEMMA NearestIs ==
  ASSUME NEW S, S \subseteq Int, NEW top \in S, \A j \in S : j <= top
  PROVE  Nearest(S) = top
<1>1. \A y \in S : top >= y
  OBVIOUS
<1>2. Max(S) \in S /\ \A y \in S : Max(S) >= y
  BY <1>1 DEF Max
<1> DEFINE m == Max(S)
<1>3. m \in Int /\ top \in Int /\ m >= top /\ m <= top
  BY <1>2
<1> HIDE DEF m
<1>4. m = top
  BY <1>3
<1> QED
  BY <1>4 DEF Nearest, m

\* What a search sees from the name tag of an unambiguous record: its own bytes,
\* and its own tags as the last ones.
Seen(k) ==
  LET a == DeviceAt(k)
      c == NameAt(k)
      r == devices[k]
      b == DeviceBytes(r)
      f == Len(r.front)
      t == f + 4 + Len(r.address)
      h == Len(Ahead(r))
  IN /\ a \in Nat \ {0} /\ c = a + h /\ c < Len(data) /\ Len(data) \in Nat
     /\ f \in Nat /\ t \in Nat /\ h \in Nat /\ f + 4 <= t /\ t + 5 <= h
     /\ b \in Seq(Bytes) /\ h + 3 <= Len(b)
     /\ \A p \in 0..(h + 2) : Byte(a + p) = b[p + 1]
     /\ h - t < SectionReach /\ h - f < RfReach
     /\ b[f + 1] = 136 /\ b[f + 2] = 0 /\ b[f + 3] = 206 /\ b[f + 4] = r.rf
     /\ b[t + 1] = SectionTag /\ b[t + 2] = r.section /\ b[t + 3] = TypeTag
     /\ b[t + 5] = ExtraTag /\ r.section \in 0..15
     /\ \A p \in (t + 1)..(h - 4) :
          ~(/\ b[p + 1] = SectionTag /\ b[p + 2] <= 15
            /\ b[p + 3] = TypeTag /\ b[p + 5] = ExtraTag)
     /\ \A p \in (f + 1)..(h - 4) : SubSeq(b, p + 1, p + 3) # RfMarker

LEMMA SeenFromName ==
  ASSUME Records, Loaded, AllClear, NEW k \in DOMAIN devices
  PROVE  Seen(k)
<1> DEFINE a == DeviceAt(k)
           c == NameAt(k)
           r == devices[k]
           n == Len(r.name)
           b == DeviceBytes(r)
           f == Len(r.front)
           t == f + 4 + Len(r.address)
           h == Len(Ahead(r))
<1>1. r \in DeviceRecord /\ Unambiguous(r)
  BY PartsAre DEF AllClear
<1>2. /\ a \in Nat /\ a >= NamesEnd /\ c \in Nat /\ n \in 0..95 /\ c + 3 + n <= Len(data) - 6
      /\ \A p \in 0..(Len(b) - 1) : Byte(a + p) = b[p + 1]
  BY DeviceFields
<1>3. c = a + h
  BY DEF NameAt
<1> HIDE DEF r
<1>4. /\ b \in Seq(Bytes) /\ Len(b) = h + 3 + n
      /\ f \in Nat /\ t \in Nat /\ h \in Nat /\ f + 4 <= t /\ t + 5 <= h
      /\ b[f + 1] = 136 /\ b[f + 2] = 0 /\ b[f + 3] = 206 /\ b[f + 4] = r.rf
      /\ b[t + 1] = SectionTag /\ b[t + 2] = r.section /\ b[t + 3] = TypeTag
      /\ b[t + 5] = ExtraTag
  <2>1. LaidOut(r)
    BY ONLY <1>1, DeviceBytesAre
  <2> QED
    BY ONLY <2>1, Zenon DEF LaidOut
<1>5. r.section \in 0..15
  BY <1>1 DEF DeviceRecord
<1> DEFINE marker == f + 1
           tag == marker + 4 + Len(r.address)
<1>6. /\ (h + 1) - tag < SectionReach /\ (h + 1) - marker < RfReach
      /\ \A p \in (tag + 1)..((h + 1) - 4) :
           ~(/\ b[p] = SectionTag /\ b[p + 1] <= 15
             /\ b[p + 2] = TypeTag /\ b[p + 4] = ExtraTag)
      /\ \A p \in (marker + 1)..((h + 1) - 4) : SubSeq(b, p, p + 2) # RfMarker
  BY <1>1, Zenon DEF Unambiguous
<1>7. tag = t + 1
  <2> DEFINE x == Len(r.address)
  <2>1. f \in Nat /\ x \in Nat
    <3>1. r.address \in Seq(Bytes)
      BY <1>1 DEF DeviceRecord
    <3> QED
      BY <1>4, <3>1
  <2> HIDE DEF x, f
  <2>2. f + 1 + 4 + x = f + 4 + x + 1
    BY ONLY <2>1
  <2> QED
    BY <2>2 DEF x
<1> HIDE DEF b, t, h, tag
<1>8. /\ (h + 1) - (t + 1) < SectionReach
      /\ \A p \in (t + 1 + 1)..((h + 1) - 4) :
           ~(/\ b[p] = SectionTag /\ b[p + 1] <= 15
             /\ b[p + 2] = TypeTag /\ b[p + 4] = ExtraTag)
  BY ONLY <1>6, <1>7
<1> HIDE DEF a, b, c, f, t, h, n
<1>9. n \in Nat /\ a \in Nat \ {0} /\ Len(data) \in Nat
  <2>1. n \in Nat
    BY <1>2
  <2>2. NamesEnd \in Nat \ {0} /\ Len(data) \in Nat
    BY Sizes
  <2> QED
    BY <1>2, <2>1, <2>2
<1>10. c < Len(data)
  BY <1>2, <1>9
<1>11. ASSUME NEW p \in 0..(h + 2) PROVE Byte(a + p) = b[p + 1]
  <2>1. p \in 0..(Len(b) - 1)
    BY <1>4, <1>9
  <2> QED
    BY <1>2, <2>1
<1>12. h - t < SectionReach /\ h - f < RfReach
  BY <1>4, <1>6, <1>8, ParserAssumption
<1>13. ASSUME NEW p \in (t + 1)..(h - 4)
       PROVE  ~(/\ b[p + 1] = SectionTag /\ b[p + 2] <= 15
                /\ b[p + 3] = TypeTag /\ b[p + 5] = ExtraTag)
  <2>1. /\ p + 1 \in (t + 1 + 1)..((h + 1) - 4)
        /\ p + 1 + 1 = p + 2 /\ p + 1 + 2 = p + 3 /\ p + 1 + 4 = p + 5
    BY <1>4
  <2>2. ~(/\ b[p + 1] = SectionTag /\ b[p + 1 + 1] <= 15
          /\ b[p + 1 + 2] = TypeTag /\ b[p + 1 + 4] = ExtraTag)
    BY <1>8, <2>1
  <2> QED
    BY <2>1, <2>2
<1>14. ASSUME NEW p \in (f + 1)..(h - 4) PROVE SubSeq(b, p + 1, p + 3) # RfMarker
  <2>1. p + 1 \in (f + 1 + 1)..((h + 1) - 4) /\ p + 1 + 2 = p + 3
    BY <1>4
  <2>2. SubSeq(b, p + 1, p + 1 + 2) # RfMarker
    BY <1>6, <2>1
  <2> QED
    BY <2>1, <2>2
<1>15. h + 3 <= Len(b)
  BY <1>4, <1>9
<1> QED
  BY ONLY <1>3, <1>4, <1>5, <1>9, <1>10, <1>11, <1>12, <1>13, <1>14, <1>15, Zenon
  DEF Seen, a, b, c, f, t, h, r

\* The searches behind the name tag of a record end at its own tags.
LEMMA OwnSection ==
  ASSUME Records, Loaded, AllClear, NEW k \in DOMAIN devices
  PROVE  SectionOf(NameAt(k)) = devices[k].section + 1
<1> DEFINE a == DeviceAt(k)
           c == NameAt(k)
           b == DeviceBytes(devices[k])
           t == Len(devices[k].front) + 4 + Len(devices[k].address)
           h == Len(Ahead(devices[k]))
           At(j) == /\ Byte(j) = SectionTag /\ j + 4 < Len(data)
                    /\ Byte(j + 2) = TypeTag /\ Byte(j + 4) = ExtraTag
                    /\ Byte(j + 1) <= 15
           found == {j \in Behind(c, SectionReach) : At(j)}
<1>0. Seen(k)
  BY SeenFromName
<1>1. /\ a \in Nat \ {0} /\ c = a + h /\ c < Len(data) /\ Len(data) \in Nat
      /\ t \in Nat /\ h \in Nat /\ t + 5 <= h /\ h - t < SectionReach
      /\ b[t + 1] = SectionTag /\ b[t + 2] = devices[k].section /\ b[t + 3] = TypeTag
      /\ b[t + 5] = ExtraTag /\ devices[k].section \in 0..15
  BY ONLY <1>0, Zenon DEF Seen
<1>2. \A p \in 0..(h + 2) : Byte(a + p) = b[p + 1]
  BY ONLY <1>0, Zenon DEF Seen
<1>3. \A p \in (t + 1)..(h - 4) :
        ~(/\ b[p + 1] = SectionTag /\ b[p + 2] <= 15
          /\ b[p + 3] = TypeTag /\ b[p + 5] = ExtraTag)
  BY ONLY <1>0, Zenon DEF Seen
<1>4. SectionOf(c) = IF found = {} THEN 1 ELSE Byte(Nearest(found) + 1) + 1
  BY DEF SectionOf
<1> HIDE DEF a, b, c, t, h
<1>5. /\ Byte(a + t) = SectionTag /\ Byte(a + t + 1) = devices[k].section
      /\ Byte(a + t + 2) = TypeTag /\ Byte(a + t + 4) = ExtraTag
  <2>1. /\ t \in 0..(h + 2) /\ t + 1 \in 0..(h + 2) /\ t + 2 \in 0..(h + 2)
        /\ t + 4 \in 0..(h + 2)
        /\ a + (t + 1) = a + t + 1 /\ a + (t + 2) = a + t + 2 /\ a + (t + 4) = a + t + 4
        /\ t + 1 + 1 = t + 2 /\ t + 2 + 1 = t + 3 /\ t + 4 + 1 = t + 5
    BY <1>1
  <2> QED
    BY <1>1, <1>2, <2>1
<1>6. a + t \in Behind(c, SectionReach)
  BY <1>1, ParserAssumption DEF Behind
<1>7. At(a + t)
  <2>1. a + t + 4 < Len(data)
    BY <1>1
  <2>2. devices[k].section <= 15
    <3> DEFINE x == devices[k].section
    <3>1. x \in 0..15
      BY <1>1
    <3> HIDE DEF x
    <3>2. x <= 15
      BY ONLY <3>1
    <3> QED
      BY <3>2 DEF x
  <2> QED
    BY <1>5, <2>1, <2>2
<1>8. ASSUME NEW j \in found PROVE j \in Int /\ j <= a + t
  <2> HIDE DEF At
  <2>1. j \in Behind(c, SectionReach) /\ At(j)
    OBVIOUS
  <2> HIDE DEF found
  <2>2. j \in 0..(c - 4)
    BY <2>1 DEF Behind
  <2>3. j \in Nat /\ j <= c - 4
    BY <1>1, <2>2
  <2> SUFFICES ASSUME j > a + t PROVE FALSE
    BY <1>1, <2>3
  <2> DEFINE p == j - a
  <2>4. /\ p \in (t + 1)..(h - 4) /\ p \in 0..(h + 2) /\ p + 1 \in 0..(h + 2)
        /\ p + 2 \in 0..(h + 2) /\ p + 4 \in 0..(h + 2)
        /\ a + p = j /\ a + (p + 1) = j + 1 /\ a + (p + 2) = j + 2 /\ a + (p + 4) = j + 4
        /\ p + 1 + 1 = p + 2 /\ p + 2 + 1 = p + 3 /\ p + 4 + 1 = p + 5
    BY <1>1, <2>3
  <2> HIDE DEF p
  <2>5. /\ Byte(j) = b[p + 1] /\ Byte(j + 1) = b[p + 2]
        /\ Byte(j + 2) = b[p + 3] /\ Byte(j + 4) = b[p + 5]
    BY <1>2, <2>4
  <2>6. /\ Byte(j) = SectionTag /\ Byte(j + 1) <= 15
        /\ Byte(j + 2) = TypeTag /\ Byte(j + 4) = ExtraTag
    BY <2>1 DEF At
  <2> QED
    BY <1>3, <2>4, <2>5, <2>6
<1>9. a + t \in found
  BY <1>6, <1>7
<1> HIDE DEF found
<1>10. Nearest(found) = a + t
  BY <1>8, <1>9, NearestIs
<1> QED
  BY <1>4, <1>5, <1>9, <1>10 DEF c

LEMMA ThreeBytes ==
  ASSUME NEW s \in Seq(Bytes), NEW j \in Nat, j + 3 <= Len(s)
  PROVE  SubSeq(s, j + 1, j + 3) = RfMarker <=> s[j + 1] = 136 /\ s[j + 2] = 0 /\ s[j + 3] = 206
<1> DEFINE t == SubSeq(s, j + 1, j + 3)
<1>1. t \in Seq(Bytes) /\ Len(t) = 3
  OBVIOUS
<1>2. t[1] = s[j + 1] /\ t[2] = s[j + 2] /\ t[3] = s[j + 3]
  OBVIOUS
<1> HIDE DEF t
<1>3. t = <<t[1], t[2], t[3]>>
  BY <1>1
<1>4. t = RfMarker <=> s[j + 1] = 136 /\ s[j + 2] = 0 /\ s[j + 3] = 206
  BY <1>2, <1>3 DEF RfMarker
<1> QED
  BY <1>4 DEF t

\* The same three bytes in the volume as in the record.
LEMMA MarkerStands ==
  ASSUME data \in Seq(Bytes), NEW b \in Seq(Bytes), NEW a \in Nat, NEW p \in Nat,
         a + p + 3 <= Len(data), p + 3 <= Len(b), Byte(a + p) = b[p + 1],
         Byte(a + p + 1) = b[p + 2], Byte(a + p + 2) = b[p + 3]
  PROVE  Text(a + p, 3) = RfMarker <=> SubSeq(b, p + 1, p + 3) = RfMarker
<1>1. a + p \in Nat /\ a + p + 1 + 1 = a + p + 2 /\ a + p + 2 + 1 = a + p + 3
  OBVIOUS
<1>2. SubSeq(data, a + p + 1, a + p + 3) = RfMarker <=>
        data[a + p + 1] = 136 /\ data[a + p + 2] = 0 /\ data[a + p + 3] = 206
  <2> DEFINE j == a + p
  <2>1. j \in Nat /\ j + 3 <= Len(data) /\ data \in Seq(Bytes)
    BY <1>1
  <2> HIDE DEF j
  <2>2. SubSeq(data, j + 1, j + 3) = RfMarker <=>
          data[j + 1] = 136 /\ data[j + 2] = 0 /\ data[j + 3] = 206
    BY ONLY <2>1, ThreeBytes
  <2> QED
    BY ONLY <2>2 DEF j
<1>3. SubSeq(b, p + 1, p + 3) = RfMarker <=> b[p + 1] = 136 /\ b[p + 2] = 0 /\ b[p + 3] = 206
  <2>1. b \in Seq(Bytes) /\ p \in Nat /\ p + 3 <= Len(b)
    OBVIOUS
  <2> QED
    BY ONLY <2>1, ThreeBytes
<1>4. /\ data[a + p + 1] = b[p + 1] /\ data[a + p + 2] = b[p + 2]
      /\ data[a + p + 3] = b[p + 3]
  BY <1>1 DEF Byte
<1>5. data[a + p + 1] = 136 /\ data[a + p + 2] = 0 /\ data[a + p + 3] = 206 <=>
        b[p + 1] = 136 /\ b[p + 2] = 0 /\ b[p + 3] = 206
  BY ONLY <1>4
<1>6. Text(a + p, 3) = SubSeq(data, a + p + 1, a + p + 3)
  BY ONLY Zenon DEF Text
<1> QED
  BY ONLY <1>2, <1>3, <1>5, <1>6, Zenon

LEMMA OwnRf ==
  ASSUME Records, Loaded, AllClear, NEW k \in DOMAIN devices
  PROVE  RfOf(NameAt(k)) = devices[k].rf
<1> DEFINE a == DeviceAt(k)
           c == NameAt(k)
           b == DeviceBytes(devices[k])
           f == Len(devices[k].front)
           h == Len(Ahead(devices[k]))
           At(j) == Text(j, 3) = RfMarker /\ j + 3 < Len(data)
           found == {j \in Behind(c, RfReach) : At(j)}
<1>0. Seen(k)
  BY SeenFromName
<1>1. /\ a \in Nat \ {0} /\ c = a + h /\ c < Len(data) /\ Len(data) \in Nat
      /\ f \in Nat /\ h \in Nat /\ h - f < RfReach /\ b \in Seq(Bytes) /\ h + 3 <= Len(b)
      /\ b[f + 1] = 136 /\ b[f + 2] = 0 /\ b[f + 3] = 206 /\ b[f + 4] = devices[k].rf
  BY ONLY <1>0, Zenon DEF Seen
<1>2. \A p \in 0..(h + 2) : Byte(a + p) = b[p + 1]
  BY ONLY <1>0, Zenon DEF Seen
<1>3. \A p \in (f + 1)..(h - 4) : SubSeq(b, p + 1, p + 3) # RfMarker
  BY ONLY <1>0, Zenon DEF Seen
<1>4. f + 9 <= h
  <2> DEFINE t == f + 4 + Len(devices[k].address)
  <2>1. t \in Nat /\ f + 4 <= t /\ t + 5 <= h
    BY ONLY <1>0, Zenon DEF Seen
  <2> HIDE DEF t, f, h
  <2> QED
    BY <1>1, <2>1
<1>5. RfOf(c) = IF found = {} THEN 0 ELSE Byte(Nearest(found) + 3)
  BY DEF RfOf
<1>6. data \in Seq(Bytes)
  BY Regions
<1> HIDE DEF a, b, c, f, h
<1>7. ASSUME NEW p \in 0..(h - 4)
      PROVE  Text(a + p, 3) = RfMarker <=> SubSeq(b, p + 1, p + 3) = RfMarker
  <2>1. /\ p \in Nat /\ p \in 0..(h + 2) /\ p + 1 \in 0..(h + 2) /\ p + 2 \in 0..(h + 2)
        /\ a + (p + 1) = a + p + 1 /\ a + (p + 2) = a + p + 2
        /\ p + 1 + 1 = p + 2 /\ p + 2 + 1 = p + 3
        /\ a + p + 3 <= Len(data) /\ p + 3 <= Len(b)
    BY <1>1, <1>4
  <2>2. Byte(a + p) = b[p + 1] /\ Byte(a + p + 1) = b[p + 2] /\ Byte(a + p + 2) = b[p + 3]
    BY <1>2, <2>1
  <2>3. data \in Seq(Bytes) /\ b \in Seq(Bytes) /\ a \in Nat
    BY <1>1, <1>6
  <2> QED
    BY ONLY <2>1, <2>2, <2>3, MarkerStands
<1>8. a + f \in Behind(c, RfReach)
  BY <1>1, <1>4, ParserAssumption DEF Behind
<1>9. At(a + f)
  <2>1. a + f + 3 < Len(data) /\ f + 3 <= Len(b) /\ f \in 0..(h - 4)
    BY <1>1, <1>4
  <2>2. SubSeq(b, f + 1, f + 3) = RfMarker
    <3>1. b \in Seq(Bytes) /\ f \in Nat /\ b[f + 1] = 136 /\ b[f + 2] = 0 /\ b[f + 3] = 206
      BY <1>1
    <3> QED
      BY ONLY <2>1, <3>1, ThreeBytes
  <2> QED
    BY <1>7, <2>1, <2>2
<1>10. ASSUME NEW j \in found PROVE j \in Int /\ j <= a + f
  <2> HIDE DEF At
  <2>1. j \in Behind(c, RfReach) /\ At(j)
    OBVIOUS
  <2> HIDE DEF found
  <2>2. j \in 0..(c - 4)
    BY <2>1 DEF Behind
  <2>3. j \in Nat /\ j <= c - 4
    BY <1>1, <2>2
  <2> SUFFICES ASSUME j > a + f PROVE FALSE
    BY <1>1, <2>3
  <2> DEFINE p == j - a
  <2>4. p \in (f + 1)..(h - 4) /\ p \in 0..(h - 4) /\ a + p = j
    BY <1>1, <2>3
  <2> HIDE DEF p
  <2>5. Text(j, 3) = RfMarker
    BY <2>1 DEF At
  <2> QED
    BY <1>3, <1>7, <2>4, <2>5
<1>11. a + f \in found
  BY <1>8, <1>9
<1> HIDE DEF found
<1>12. Nearest(found) = a + f
  BY <1>10, <1>11, NearestIs
<1>13. Byte(a + f + 3) = devices[k].rf
  <2>1. f + 3 \in 0..(h + 2) /\ a + (f + 3) = a + f + 3 /\ f + 3 + 1 = f + 4
    BY <1>1, <1>4
  <2>2. Byte(a + (f + 3)) = b[f + 3 + 1]
    BY <1>2, <2>1
  <2>3. b[f + 4] = devices[k].rf
    BY <1>1
  <2> QED
    BY ONLY <2>1, <2>2, <2>3
<1> QED
  BY <1>5, <1>11, <1>12, <1>13 DEF c

-----------------------------------------------------------------------------
(***************************************************************************)
(* The inductive invariant: the scans have taken what lies behind them.    *)
(***************************************************************************)
SectionsBefore(o) == {k \in DOMAIN sections : Nameable(sections[k]) /\ SectionAt(k) < o}
DevicesBefore(o) == {k \in DOMAIN devices : Listable(devices[k]) /\ NameAt(k) < o}

Entries == [position : Nat, name : Texts, section : 1..16, rf : Bytes]

\* The entries are those of the records among ks, unless a record may be misread.
Listed(ks) == AllClear => entries \in Seq(Entries) /\ EntriesOf(ks)

IInv ==
  /\ Records
  /\ pc \in {"read", "names", "devices", "done", "failed"}
  /\ pc \in {"names", "devices", "done"} => Loaded
  /\ pc = "read" => names = <<>>
  /\ pc \in {"read", "names"} => entries = <<>>
  /\ pc = "names" => i \in 1..NamesEnd /\ NamesOf(SectionsBefore(i))
  /\ pc \in {"devices", "done"} => NamesOf({k \in DOMAIN sections : Nameable(sections[k])})
  /\ pc = "devices" => i \in NamesEnd..Len(data) /\ Listed(DevicesBefore(i))
  /\ pc = "done" => Listed({k \in DOMAIN devices : Listable(devices[k])})

\* The volume is what the panel wrote, once both inversions are undone.
LEMMA PlainBytes ==
  ASSUME Records
  PROVE  NamesRegion(sections) \o DevicesRegion(devices) \in Seq(Bytes)
<1> DEFINE s == SectionsBytes(sections)
           d == DevicesBytes(devices)
           z == Zeros(NamesSize - Len(s))
           y == Zeros(6)
           one == <<0>>
<1>1. s \in Seq(Bytes) /\ d \in Seq(Bytes) /\ Len(s) <= NamesSize
  <2>1. s = FlattenSeq(SectionParts) /\ d = FlattenSeq(DeviceParts)
    BY DEF SectionsBytes, DevicesBytes, SectionParts, DeviceParts
  <2> QED
    BY <2>1, PartsAre, FlattenType DEF Records
<1>2. NamesRegion(sections) = (one \o s) \o z /\ DevicesRegion(devices) = d \o y
  BY DEF NamesRegion, DevicesRegion
<1> HIDE DEF s, d
<1>3. z \in Seq(Bytes) /\ y \in Seq(Bytes) /\ one \in Seq(Bytes)
  <2>1. NamesSize - Len(s) \in Nat
    BY <1>1, ParserAssumption
  <2>2. one \in Seq(Bytes)
    BY DEF Bytes
  <2> QED
    BY <2>1, <2>2, ZerosAre
<1> HIDE DEF z, y, one
<1>4. one \o s \in Seq(Bytes) /\ d \o y \in Seq(Bytes)
  BY <1>1, <1>3
<1>5. (one \o s) \o z \in Seq(Bytes)
  BY <1>3, <1>4
<1>6. ((one \o s) \o z) \o (d \o y) \in Seq(Bytes)
  BY <1>4, <1>5
<1> QED
  BY <1>2, <1>6

LEMMA ReadBack ==
  ASSUME Records, data' = [k \in DOMAIN Volume |-> 255 - Volume[k]],
         UNCHANGED <<sections, devices>>
  PROVE  Loaded'
<1> DEFINE plain == NamesRegion(sections) \o DevicesRegion(devices)
<1>1. plain \in Seq(Bytes)
  BY PlainBytes
<1>2. Volume = [k \in DOMAIN plain |-> 255 - plain[k]]
  BY DEF Volume
<1>3. Loaded' <=> data' = plain
  BY DEF Loaded
<1> HIDE DEF plain
<1>4. DOMAIN Volume = DOMAIN plain
  BY <1>2
<1>5. ASSUME NEW k \in DOMAIN plain PROVE 255 - Volume[k] = plain[k]
  <2> DEFINE x == plain[k]
  <2>1. x \in Int /\ Volume[k] = 255 - x
    <3>1. x \in Bytes
      BY <1>1
    <3>2. Volume[k] = 255 - x
      BY <1>2
    <3> QED
      BY <3>1, <3>2 DEF Bytes
  <2> HIDE DEF x
  <2>2. 255 - (255 - x) = x
    BY <2>1
  <2> QED
    BY <2>1, <2>2 DEF x
<1>6. data' = [k \in DOMAIN plain |-> plain[k]]
  BY <1>4, <1>5
<1>7. plain = [k \in DOMAIN plain |-> plain[k]]
  BY <1>1
<1> QED
  BY <1>3, <1>6, <1>7

\* The records stay where they are.
LEMMA RecordsStay ==
  ASSUME UNCHANGED <<sections, devices>>
  PROVE  /\ Records => Records'
         /\ AllClear' = AllClear
         /\ \A k : SectionAt(k)' = SectionAt(k) /\ NameAt(k)' = NameAt(k)
<1>1. SectionParts' = SectionParts /\ DeviceParts' = DeviceParts
  BY DEF SectionParts, DeviceParts
<1>2. ASSUME Records PROVE Records'
  BY <1>2 DEF Records, SectionsBytes
<1>3. \A k : SectionAt(k)' = SectionAt(k) /\ NameAt(k)' = NameAt(k)
  BY <1>1 DEF SectionAt, DeviceAt, NameAt
<1>4. AllClear' = AllClear
  BY DEF AllClear
<1> QED
  BY <1>2, <1>3, <1>4

LEMMA LoadedStays ==
  ASSUME Loaded, UNCHANGED <<sections, devices, data>>
  PROVE  Loaded'
BY DEF Loaded

\* One more record, behind all others, gives its section its name.
LEMMA OneMoreName ==
  ASSUME NEW ks, ks \subseteq DOMAIN sections, DOMAIN sections \subseteq Nat, NamesOf(ks),
         NEW k \in DOMAIN sections, \A j \in ks : j < k,
         \A j \in DOMAIN sections : sections[j].number \in Nat,
         UNCHANGED sections,
         names' = [n \in DOMAIN names \cup {sections[k].number + 1} |->
                     IF n = sections[k].number + 1 THEN sections[k].name ELSE names[n]]
  PROVE  NamesOf(ks \cup {k})'
<1> DEFINE number == sections[k].number + 1
           more == ks \cup {k}
<1>1. DOMAIN names = {sections[j].number + 1 : j \in ks}
  BY DEF NamesOf
<1>2. DOMAIN names' = {sections'[j].number + 1 : j \in more}
  BY <1>1
<1>3. ASSUME NEW j \in more,
             \A l \in more : sections'[l].number = sections'[j].number => l <= j
      PROVE  names'[sections'[j].number + 1] = sections'[j].name
  <2>1. CASE j = k
    BY <2>1
  <2>2. CASE j # k
    <3>1. j \in ks /\ j < k /\ j \in Nat /\ k \in Nat
      BY <2>2
    <3>2. sections[k].number # sections[j].number
      BY <1>3, <3>1
    <3>3. names[sections[j].number + 1] = sections[j].name
      BY <1>3, <3>1 DEF NamesOf
    <3>4. sections[j].number + 1 \in DOMAIN names
      BY <1>1, <3>1
    <3>5. sections[j].number + 1 # number
      <4>1. sections[j].number \in Nat /\ sections[k].number \in Nat
        BY <3>1
      <4> QED
        BY <3>2, <4>1
    <3>6. names'[sections[j].number + 1] = names[sections[j].number + 1]
      BY <3>4, <3>5
    <3> QED
      BY <3>3, <3>6
  <2> QED
    BY <2>1, <2>2
<1> QED
  BY <1>2, <1>3 DEF NamesOf

\* One more entry, of a record behind all others.
LEMMA OneMoreEntry ==
  ASSUME NEW ks, ks \subseteq Nat, EntriesOf(ks), entries \in Seq(Entries),
         NEW k \in Nat, \A j \in ks : j < k, UNCHANGED devices,
         entries' = Append(entries, EntryOf(devices[k], Len(entries)))
  PROVE  EntriesOf(ks \cup {k})'
<1> DEFINE m == Len(entries)
           new == EntryOf(devices[k], m)
           more == ks \cup {k}
<1>1. m \in Nat /\ DOMAIN entries = 1..m
  OBVIOUS
<1>2. PICK of \in [DOMAIN entries -> ks] :
        /\ \A j \in ks : \E n \in DOMAIN entries : of[n] = j
        /\ \A l, n \in DOMAIN entries : l < n => of[l] < of[n]
        /\ \A n \in DOMAIN entries : entries[n] = EntryOf(devices[of[n]], n - 1)
  BY DEF EntriesOf
<1>3. /\ DOMAIN entries' = 1..(m + 1) /\ entries'[m + 1] = new
      /\ \A n \in 1..m : entries'[n] = entries[n]
  <2> HIDE DEF new
  <2>1. entries' = Append(entries, new)
    BY DEF new
  <2> QED
    BY <2>1
<1> HIDE DEF m
<1> DEFINE also == [n \in 1..(m + 1) |-> IF n = m + 1 THEN k ELSE of[n]]
<1>4. /\ also \in [DOMAIN entries' -> more] /\ also[m + 1] = k /\ m + 1 \in 1..(m + 1)
      /\ \A n \in 1..m : also[n] = of[n] /\ of[n] \in ks /\ n \in 1..(m + 1)
      /\ \A n \in 1..(m + 1) : n = m + 1 \/ n \in 1..m
  BY <1>1, <1>2, <1>3
<1> HIDE DEF also
<1>5. \A j \in more : \E n \in DOMAIN entries' : also[n] = j
  <2>1. ASSUME NEW j \in ks PROVE \E n \in DOMAIN entries' : also[n] = j
    <3>1. PICK n \in 1..m : of[n] = j
      BY <1>1, <1>2
    <3> QED
      BY <1>3, <1>4, <3>1
  <2>2. \E n \in DOMAIN entries' : also[n] = k
    BY <1>3, <1>4
  <2> QED
    BY <2>1, <2>2
<1>6. \A l, n \in DOMAIN entries' : l < n => also[l] < also[n]
  <2> SUFFICES ASSUME NEW l \in 1..(m + 1), NEW n \in 1..(m + 1), l < n
               PROVE  also[l] < also[n]
    BY <1>3
  <2>1. l \in 1..m
    BY <1>1
  <2>2. CASE n = m + 1
    BY <2>1, <2>2, <1>4
  <2>3. CASE n # m + 1
    <3>1. n \in 1..m
      BY <2>3, <1>4
    <3>2. of[l] < of[n]
      BY <1>1, <1>2, <2>1, <3>1
    <3> QED
      BY <1>4, <2>1, <3>1, <3>2
  <2> QED
    BY <2>2, <2>3
<1>7. \A n \in DOMAIN entries' : entries'[n] = EntryOf(devices'[also[n]], n - 1)
  <2> SUFFICES ASSUME NEW n \in 1..(m + 1)
               PROVE  entries'[n] = EntryOf(devices[also[n]], n - 1)
    BY <1>3
  <2>1. CASE n = m + 1
    <3>1. n - 1 = m
      BY <1>1, <2>1
    <3> QED
      BY <1>3, <1>4, <2>1, <3>1
  <2>2. CASE n # m + 1
    <3>1. n \in 1..m
      BY <2>2, <1>4
    <3>2. entries[n] = EntryOf(devices[of[n]], n - 1)
      BY <1>1, <1>2, <3>1
    <3> QED
      BY <1>3, <1>4, <3>1, <3>2
  <2> QED
    BY <2>1, <2>2
<1> QED
  BY <1>4, <1>5, <1>6, <1>7 DEF EntriesOf

-----------------------------------------------------------------------------
(***************************************************************************)
(* The steps.                                                              *)
(***************************************************************************)
LEMMA InitInv == Init => IInv
<1> SUFFICES ASSUME Init PROVE IInv
  OBVIOUS
<1>1. sections \in Seq(SectionRecords) /\ devices \in Seq(DeviceRecords)
  BY ParserAssumption DEF Init, SeqOf
<1> QED
  BY <1>1 DEF Init, IInv, Records

\* No record stands before the scan.
LEMMA SectionStart ==
  ASSUME Records
  PROVE  \A k \in DOMAIN sections : SectionAt(k) \in Nat /\ SectionAt(k) >= 1
<1> SUFFICES ASSUME NEW k \in DOMAIN sections
             PROVE  SectionAt(k) \in Nat /\ SectionAt(k) >= 1
  OBVIOUS
<1> DEFINE x == Offset(SectionParts, k)
<1>1. x \in Nat
  BY SectionPart
<1>2. SectionAt(k) = 1 + x
  BY DEF SectionAt
<1> HIDE DEF x
<1> QED
  BY <1>1, <1>2

LEMMA ReadKeeps == IInv /\ Read => IInv'
<1> SUFFICES ASSUME IInv, Read PROVE IInv'
  OBVIOUS
<1>1. /\ pc = "read" /\ Records /\ names = <<>> /\ entries = <<>>
      /\ UNCHANGED <<sections, devices, names, entries>>
  BY DEF IInv, Read
<1>2. Records' /\ \A k : SectionAt(k)' = SectionAt(k)
  BY <1>1, RecordsStay
<1>3. CASE pc' = "failed"
  BY <1>1, <1>2, <1>3 DEF IInv
<1>4. CASE pc' = "names"
  <2>1. i' = NamesStart /\ data' = [k \in DOMAIN Volume |-> 255 - Volume[k]]
    BY <1>4 DEF Read
  <2>2. Loaded'
    BY <1>1, <2>1, ReadBack
  <2>3. i' = 1 /\ NamesEnd \in Nat \ {0}
    BY <2>1, ParserAssumption DEF NamesStart, NamesEnd
  <2>4. SectionsBefore(i)' = {}
    <3>1. ASSUME NEW k \in DOMAIN sections PROVE SectionAt(k)' >= 1 /\ SectionAt(k)' \in Nat
      <4>1. SectionAt(k) \in Nat /\ SectionAt(k) >= 1
        BY <1>1, SectionStart
      <4> QED
        BY <1>2, <4>1
    <3> QED
      BY <1>1, <2>3, <3>1 DEF SectionsBefore
  <2>5. NamesOf(SectionsBefore(i))'
    BY <1>1, <2>4 DEF NamesOf
  <2> QED
    BY <1>1, <1>2, <1>4, <2>2, <2>3, <2>5 DEF IInv
<1> QED
  BY <1>3, <1>4 DEF Read

\* What is known while the names are read.
LEMMA NamesState ==
  ASSUME IInv, pc = "names"
  PROVE  /\ Records /\ Loaded /\ entries = <<>>
         /\ i \in 1..NamesEnd /\ NamesOf(SectionsBefore(i))
BY DEF IInv

\* The records passed are those passed before, and one that is taken.
LEMMA SectionsPassed ==
  ASSUME Records, Loaded, i \in Nat, NEW k \in DOMAIN sections, i = SectionAt(k)
  PROVE  /\ SectionsBefore(i + 6 + Len(sections[k].name)) =
              SectionsBefore(i) \cup (IF Nameable(sections[k]) THEN {k} ELSE {})
         /\ \A j \in SectionsBefore(i) : j < k
<1> DEFINE n == Len(sections[k].name)
           o == i + 6 + n
<1>1. DOMAIN sections \subseteq Nat
  BY DEF Records
<1>2. \A j \in DOMAIN sections : SectionAt(j) \in Nat /\ Len(sections[j].name) \in 0..95
  BY SectionFields
<1>3. ASSUME NEW j \in DOMAIN sections PROVE SectionAt(j) < o <=> SectionAt(j) < i \/ j = k
  <2>1. CASE j = k
    <3>1. n \in 0..95
      BY <1>2
    <3> HIDE DEF n
    <3> QED
      BY <2>1, <3>1
  <2>2. CASE j < k
    <3>1. SectionAt(j) + 6 + Len(sections[j].name) <= SectionAt(k)
      BY <2>2, SectionsAscend
    <3>2. SectionAt(j) < i
      BY <1>2, <3>1
    <3>3. n \in 0..95 /\ SectionAt(j) \in Nat
      BY <1>2
    <3> HIDE DEF n
    <3> QED
      BY <3>2, <3>3
  <2>3. CASE k < j
    <3>1. SectionAt(k) + 6 + n <= SectionAt(j)
      BY <2>3, SectionsAscend
    <3>2. n \in 0..95 /\ SectionAt(j) \in Nat /\ j # k
      BY <1>1, <1>2, <2>3
    <3> HIDE DEF n
    <3> QED
      BY <3>1, <3>2
  <2> QED
    BY <1>1, <2>1, <2>2, <2>3
<1>4. ASSUME NEW j \in SectionsBefore(i) PROVE j < k
  <2>1. j \in DOMAIN sections /\ SectionAt(j) < SectionAt(k)
    BY DEF SectionsBefore
  <2>2. CASE k < j
    <3>1. SectionAt(k) + 6 + n <= SectionAt(j)
      BY <2>1, <2>2, SectionsAscend
    <3>2. n \in 0..95 /\ SectionAt(j) \in Nat /\ SectionAt(k) \in Nat
      BY <1>2, <2>1
    <3> HIDE DEF n
    <3> QED
      BY <2>1, <3>1, <3>2
  <2>3. j # k
    BY <1>2, <2>1
  <2> QED
    BY <1>1, <2>1, <2>2, <2>3
<1> HIDE DEF o
<1>5. SectionsBefore(o) = SectionsBefore(i) \cup (IF Nameable(sections[k]) THEN {k} ELSE {})
  BY <1>3 DEF SectionsBefore
<1> QED
  BY <1>4, <1>5 DEF o

LEMMA TakeNameKeeps == IInv /\ TakeName => IInv'
<1> SUFFICES ASSUME IInv, TakeName PROVE IInv'
  OBVIOUS
<1>1. /\ pc = "names" /\ NamesLeft /\ AtSectionRecord
      /\ i' = i + 6 + NameLength
      /\ UNCHANGED <<pc, sections, devices, data, entries>>
  BY DEF TakeName
<1>2. /\ Records /\ Loaded /\ entries = <<>>
      /\ i \in 1..NamesEnd /\ NamesOf(SectionsBefore(i))
  BY <1>1, NamesState
<1>3. i \in 1..(NamesEnd - 1)
  BY <1>1, <1>2, Sizes DEF NamesLeft
<1>4. PICK k \in DOMAIN sections :
        i = SectionAt(k) /\ Len(sections[k].name) \in 1..MaxNameLength
  BY <1>1, <1>2, <1>3, SectionRecognised
<1> DEFINE n == Len(sections[k].name)
<1>5. NameLength = n
  BY <1>2, <1>4, NameLengthIs
<1>6. /\ i \in Nat /\ n \in 0..95 /\ i + 6 + n <= NamesEnd
      /\ Byte(i + 2) = sections[k].number /\ Text(i + 6, n) = sections[k].name
  BY <1>2, <1>4, SectionFields
<1>7. Records' /\ Loaded' /\ \A j : SectionAt(j)' = SectionAt(j)
  BY <1>1, <1>2, RecordsStay, LoadedStays
<1> DEFINE old == SectionsBefore(i)
<1>8. PICK ks : ks = old
  OBVIOUS
<1>9. /\ SectionsBefore(i + 6 + n) = ks \cup (IF Nameable(sections[k]) THEN {k} ELSE {})
      /\ \A j \in ks : j < k
  BY <1>2, <1>4, <1>6, <1>8, SectionsPassed
<1>10. NamesOf(SectionsBefore(i))'
  <2>1. SectionsBefore(i)' = SectionsBefore(i + 6 + n)
    BY <1>1, <1>5, <1>7 DEF SectionsBefore
  <2>2. CASE Nameable(sections[k])
    <3>1. HasLetter(sections[k].name)
      BY <2>2 DEF Nameable
    <3>2. names' = [m \in DOMAIN names \cup {sections[k].number + 1} |->
                      IF m = sections[k].number + 1 THEN sections[k].name ELSE names[m]]
      BY <1>5, <1>6, <3>1, Zenon DEF TakeName
    <3>3. ASSUME NEW j \in DOMAIN sections PROVE sections[j].number \in Nat
      <4>1. sections[j] \in SectionRecord
        BY <1>2, PartsAre
      <4> QED
        BY <4>1 DEF SectionRecord, Bytes
    <3>4. ks \subseteq DOMAIN sections /\ DOMAIN sections \subseteq Nat /\ NamesOf(ks)
      BY <1>2, <1>8 DEF SectionsBefore, Records
    <3>5. NamesOf(ks \cup {k})'
      BY <1>1, <1>9, <3>2, <3>3, <3>4, OneMoreName
    <3> QED
      BY <1>9, <2>1, <2>2, <3>5
  <2>3. CASE ~Nameable(sections[k])
    <3>1. ~HasLetter(sections[k].name)
      BY <1>4, <2>3 DEF Nameable
    <3>2. names' = names
      BY <1>5, <1>6, <3>1, Zenon DEF TakeName
    <3>3. SectionsBefore(i)' = ks /\ NamesOf(ks)
      BY <1>2, <1>8, <1>9, <2>1, <2>3
    <3> QED
      BY <1>1, <3>2, <3>3 DEF NamesOf
  <2> QED
    BY <2>2, <2>3
<1>11. i' \in 1..NamesEnd
  <2>1. i' = i + 6 + n
    BY <1>1, <1>5
  <2>2. NamesEnd \in Nat /\ i >= 1
    BY <1>2, Sizes
  <2> HIDE DEF n
  <2> QED
    BY <1>6, <2>1, <2>2
<1> QED
  BY <1>1, <1>2, <1>7, <1>10, <1>11 DEF IInv

LEMMA NextNameByteKeeps == IInv /\ NextNameByte => IInv'
<1> SUFFICES ASSUME IInv, NextNameByte PROVE IInv'
  OBVIOUS
<1>1. /\ pc = "names" /\ NamesLeft /\ ~AtSectionRecord /\ i' = i + 1
      /\ UNCHANGED <<pc, sections, devices, data, names, entries>>
  BY DEF NextNameByte
<1>2. /\ Records /\ Loaded /\ entries = <<>>
      /\ i \in 1..NamesEnd /\ NamesOf(SectionsBefore(i))
  BY <1>1, NamesState
<1>3. i \in 1..(NamesEnd - 1)
  BY <1>1, <1>2, Sizes DEF NamesLeft
<1>4. Records' /\ Loaded' /\ \A j : SectionAt(j)' = SectionAt(j)
  BY <1>1, <1>2, RecordsStay, LoadedStays
<1>5. SectionsBefore(i)' = SectionsBefore(i)
  <2>1. ASSUME NEW j \in DOMAIN sections, Nameable(sections[j])
        PROVE  SectionAt(j) < i + 1 <=> SectionAt(j) < i
    <3>1. i # SectionAt(j)
      BY <1>1, <1>2, <1>3, <2>1, SectionRecognised DEF Nameable
    <3>2. SectionAt(j) \in Nat /\ i \in Nat
      BY <1>2, <1>3, SectionFields, Sizes
    <3> QED
      BY <3>1, <3>2
  <2> QED
    BY <1>1, <1>4, <2>1 DEF SectionsBefore
<1>6. NamesOf(SectionsBefore(i))'
  <2>1. PICK ks : ks = SectionsBefore(i)
    OBVIOUS
  <2>2. NamesOf(ks) /\ SectionsBefore(i)' = ks
    BY <1>2, <1>5, <2>1
  <2> QED
    BY <1>1, <2>2 DEF NamesOf
<1>7. i' \in 1..NamesEnd
  BY <1>1, <1>2, <1>3, Sizes
<1> QED
  BY <1>1, <1>2, <1>4, <1>6, <1>7 DEF IInv

\* Behind the scan of the names there is no record that it has not passed.
LEMMA NamesDoneKeeps == IInv /\ NamesDone => IInv'
<1> SUFFICES ASSUME IInv, NamesDone PROVE IInv'
  OBVIOUS
<1>1. /\ pc = "names" /\ ~NamesLeft /\ pc' = "devices" /\ i' = NamesEnd
      /\ UNCHANGED <<sections, devices, data, names, entries>>
  BY DEF NamesDone, DevicesStart
<1>2. /\ Records /\ Loaded /\ entries = <<>>
      /\ i \in 1..NamesEnd /\ NamesOf(SectionsBefore(i))
  BY <1>1, NamesState
<1>3. /\ NamesEnd \in Nat /\ Len(data) \in Nat /\ NamesEnd + 6 <= Len(data)
  BY <1>2, Sizes
<1>4. i = NamesEnd
  BY <1>1, <1>2, <1>3 DEF NamesLeft
<1>5. Records' /\ Loaded' /\ \A j : NameAt(j)' = NameAt(j)
  BY <1>1, <1>2, RecordsStay, LoadedStays
<1>6. PICK ks : ks = {k \in DOMAIN sections : Nameable(sections[k])}
  OBVIOUS
<1>7. SectionsBefore(i) = ks
  <2>1. ASSUME NEW k \in DOMAIN sections PROVE SectionAt(k) < i
    <3> DEFINE n == Len(sections[k].name)
    <3>1. SectionAt(k) \in Nat /\ n \in 0..95 /\ SectionAt(k) + 6 + n <= NamesEnd
      BY <1>2, SectionFields
    <3> HIDE DEF n
    <3> QED
      BY <1>3, <1>4, <3>1
  <2> QED
    BY <1>6, <2>1 DEF SectionsBefore
<1>8. NamesOf({k \in DOMAIN sections : Nameable(sections[k])})'
  <2>1. NamesOf(ks) /\ {k \in DOMAIN sections' : Nameable(sections'[k])} = ks
    BY <1>1, <1>2, <1>6, <1>7
  <2> QED
    BY <1>1, <2>1 DEF NamesOf
<1>9. DevicesBefore(i)' = {}
  <2>1. ASSUME NEW k \in DOMAIN devices PROVE ~(NameAt(k)' < i')
    <3>1. NameAt(k) \in Nat /\ NameAt(k) >= NamesEnd
      <4>1. /\ DeviceAt(k) \in Nat /\ NameAt(k) \in Nat /\ DeviceAt(k) >= NamesEnd
            /\ NameAt(k) >= DeviceAt(k)
        BY <1>2, DeviceFields
      <4> QED
        BY <1>3, <4>1
    <3> QED
      BY <1>1, <1>3, <1>5, <3>1
  <2> QED
    BY <1>1, <2>1 DEF DevicesBefore
<1>10. Listed(DevicesBefore(i))'
  <2>1. DOMAIN entries' = {} /\ entries' \in Seq(Entries)
    BY <1>1, <1>2
  <2> DEFINE of == [k \in {} |-> k]
  <2>2. of \in [{} -> {}]
    OBVIOUS
  <2> HIDE DEF of
  <2> QED
    BY <1>9, <2>1, <2>2 DEF EntriesOf, Listed
<1>11. i' \in NamesEnd..Len(data')
  BY <1>1, <1>3
<1> QED
  BY <1>1, <1>2, <1>5, <1>8, <1>10, <1>11 DEF IInv

\* What is known while the device entries are read.
LEMMA DevicesState ==
  ASSUME IInv, pc = "devices"
  PROVE  /\ Records /\ Loaded
         /\ NamesOf({k \in DOMAIN sections : Nameable(sections[k])})
         /\ i \in NamesEnd..Len(data) /\ Listed(DevicesBefore(i))
BY DEF IInv

\* The names stay while the devices are read.
LEMMA NamesStay ==
  ASSUME NamesOf({k \in DOMAIN sections : Nameable(sections[k])}), UNCHANGED <<sections, names>>
  PROVE  NamesOf({k \in DOMAIN sections : Nameable(sections[k])})'
<1>1. PICK ks : ks = {k \in DOMAIN sections : Nameable(sections[k])}
  OBVIOUS
<1>2. NamesOf(ks) /\ {k \in DOMAIN sections' : Nameable(sections'[k])} = ks
  BY <1>1
<1> QED
  BY <1>2 DEF NamesOf

LEMMA DevicesPassed ==
  ASSUME Records, Loaded, i \in Nat, NEW k \in DOMAIN devices, i = NameAt(k)
  PROVE  /\ DevicesBefore(i + 2 + Len(devices[k].name)) =
              DevicesBefore(i) \cup (IF Listable(devices[k]) THEN {k} ELSE {})
         /\ \A j \in DevicesBefore(i) : j < k
<1> DEFINE n == Len(devices[k].name)
           o == i + 2 + n
<1>1. DOMAIN devices \subseteq Nat
  BY DEF Records
<1>2. \A j \in DOMAIN devices :
        /\ DeviceAt(j) \in Nat /\ NameAt(j) \in Nat /\ NameAt(j) >= DeviceAt(j)
        /\ Len(devices[j].name) \in 0..95
  BY DeviceFields
<1>3. ASSUME NEW j \in DOMAIN devices, j < k
      PROVE  NameAt(j) < i
  <2> DEFINE m == Len(devices[j].name)
  <2>1. NameAt(j) + 3 + m <= DeviceAt(k)
    BY <1>3, DevicesAscend
  <2>2. m \in Nat /\ NameAt(j) \in Nat /\ DeviceAt(k) \in Nat /\ NameAt(k) >= DeviceAt(k)
    BY <1>2
  <2> HIDE DEF m
  <2> QED
    BY <2>1, <2>2
<1>4. ASSUME NEW j \in DOMAIN devices, k < j
      PROVE  i + 2 + n <= NameAt(j)
  <2>1. NameAt(k) + 3 + n <= DeviceAt(j)
    BY <1>4, DevicesAscend
  <2>2. /\ n \in Nat /\ NameAt(k) \in Nat /\ DeviceAt(j) \in Nat
        /\ NameAt(j) \in Nat /\ NameAt(j) >= DeviceAt(j)
    BY <1>2
  <2> HIDE DEF n
  <2> QED
    BY <2>1, <2>2
<1>5. n \in Nat
  BY <1>2
<1>6. ASSUME NEW j \in DOMAIN devices
      PROVE  /\ NameAt(j) < o <=> NameAt(j) < i \/ j = k
             /\ NameAt(j) < i => j < k
  <2>1. NameAt(j) \in Nat /\ j \in Nat /\ k \in Nat
    BY <1>1, <1>2
  <2> HIDE DEF n
  <2>2. o = i + 2 + n
    OBVIOUS
  <2> HIDE DEF o
  <2>3. CASE j = k
    BY <1>5, <2>1, <2>2, <2>3
  <2>4. CASE j < k
    <3>1. NameAt(j) < i
      BY <1>3, <2>4
    <3> QED
      BY <1>5, <2>1, <2>2, <2>4, <3>1
  <2>5. CASE k < j
    <3>1. o <= NameAt(j)
      BY <1>4, <2>2, <2>5
    <3> QED
      BY <1>5, <2>1, <2>2, <2>5, <3>1
  <2> QED
    BY <2>1, <2>3, <2>4, <2>5
<1> HIDE DEF o
<1>7. DevicesBefore(o) = DevicesBefore(i) \cup (IF Listable(devices[k]) THEN {k} ELSE {})
  BY <1>6 DEF DevicesBefore
<1>8. \A j \in DevicesBefore(i) : j < k
  BY <1>6 DEF DevicesBefore
<1> QED
  BY <1>7, <1>8 DEF o

LEMMA TakeEntryKeeps == IInv /\ TakeEntry => IInv'
<1> SUFFICES ASSUME IInv, TakeEntry PROVE IInv'
  OBVIOUS
<1>1. /\ pc = "devices" /\ DevicesLeft /\ AtDeviceName
      /\ i' = i + 2 + DeviceNameLength
      /\ UNCHANGED <<pc, sections, devices, data, names>>
  BY DEF TakeEntry
<1>2. /\ Records /\ Loaded
      /\ NamesOf({k \in DOMAIN sections : Nameable(sections[k])})
      /\ i \in NamesEnd..Len(data) /\ Listed(DevicesBefore(i))
  BY <1>1, DevicesState
<1>3. NamesEnd \in Nat /\ Len(data) \in Nat
  BY <1>2, Sizes
<1>4. i \in NamesEnd..(Len(data) - 1) /\ i \in Nat
  BY <1>1, <1>2, <1>3 DEF DevicesLeft
<1>5. /\ Records' /\ Loaded' /\ AllClear' = AllClear
      /\ \A j : NameAt(j)' = NameAt(j)
  BY <1>1, <1>2, RecordsStay, LoadedStays
<1>6. ASSUME AllClear PROVE entries' \in Seq(Entries) /\ EntriesOf(DevicesBefore(i))'
  <2>1. entries \in Seq(Entries) /\ EntriesOf(DevicesBefore(i))
    BY <1>2, <1>6 DEF Listed
  <2>2. PICK k \in DOMAIN devices :
          i = NameAt(k) /\ Len(devices[k].name) \in 1..MaxNameLength
    BY <1>1, <1>2, <1>4, <1>6, DeviceRecognised
  <2> DEFINE r == devices[k]
             n == Len(r.name)
  <2>3. /\ DeviceNameLength = n /\ Text(i + 2, n) = r.name
        /\ i + 2 + n < Len(data) - 6
    BY <1>2, <2>2, DeviceNameLengthIs
  <2>4. SectionOf(i) = r.section + 1 /\ RfOf(i) = r.rf
    BY <1>2, <1>6, <2>2, OwnSection, OwnRf
  <2>5. PICK ks : ks = DevicesBefore(i)
    OBVIOUS
  <2>6. /\ DevicesBefore(i + 2 + n) = ks \cup (IF Listable(r) THEN {k} ELSE {})
         /\ \A j \in ks : j < k
    BY <1>2, <1>4, <2>2, <2>5, DevicesPassed
  <2>7. DevicesBefore(i)' = DevicesBefore(i + 2 + n)
    BY <1>1, <2>3, <1>5 DEF DevicesBefore
  <2>8. ks \subseteq Nat /\ k \in Nat /\ EntriesOf(ks)
    BY <1>2, <2>1, <2>5 DEF DevicesBefore, Records
  <2>9. r \in DeviceRecord
    BY <1>2, PartsAre
  <2>10. EntriesOf(DevicesBefore(i))' /\ entries' \in Seq(Entries)
    <3>1. CASE Listable(r)
      <4>1. HasLetter(r.name) /\ IsText(r.name)
        BY <3>1 DEF Listable
      <4>2. entries' = Append(entries, [position |-> Len(entries), name |-> r.name,
                                        section |-> r.section + 1, rf |-> r.rf])
        BY <2>3, <2>4, <4>1, Zenon DEF TakeEntry
      <4>3. entries' = Append(entries, EntryOf(r, Len(entries)))
        BY <4>2 DEF EntryOf
      <4>4. EntriesOf(ks \cup {k})'
        BY <1>1, <2>1, <2>6, <2>8, <4>3, OneMoreEntry
      <4>5. EntryOf(r, Len(entries)) \in Entries
        <5>1. /\ r.name \in Texts /\ r.section + 1 \in 1..16 /\ r.rf \in Bytes
              /\ Len(entries) \in Nat
          BY <2>1, <2>9 DEF DeviceRecord
        <5> QED
          BY <5>1 DEF EntryOf, Entries
      <4>6. entries' \in Seq(Entries)
        BY <2>1, <4>3, <4>5
      <4> QED
        BY <2>6, <2>7, <3>1, <4>4, <4>6
    <3>2. CASE ~Listable(r)
      <4>1. ~(HasLetter(r.name) /\ IsText(r.name))
        BY <2>2, <3>2 DEF Listable
      <4>2. entries' = entries
        BY <2>3, <4>1, Zenon DEF TakeEntry
      <4>3. DevicesBefore(i)' = ks
        BY <2>6, <2>7, <3>2
      <4>4. EntriesOf(ks)' <=> EntriesOf(ks)
        BY ONLY <4>2, <1>1 DEF EntriesOf
      <4> QED
        BY <2>1, <2>8, <4>2, <4>3, <4>4
    <3> QED
      BY <3>1, <3>2
  <2> QED
    BY <2>10
<1>7. Listed(DevicesBefore(i))'
  BY <1>6, <1>5 DEF Listed
<1>8. i' \in NamesEnd..Len(data')
  <2> DEFINE l == DeviceNameLength
  <2>1. i' = i + 2 + l /\ l \in 1..MaxNameLength /\ i + 2 + l < Len(data)
    BY <1>1 DEF AtDeviceName
  <2> HIDE DEF l
  <2> QED
    BY <1>1, <1>3, <1>4, <2>1, ParserAssumption
<1>9. NamesOf({j \in DOMAIN sections : Nameable(sections[j])})'
  BY <1>1, <1>2, NamesStay
<1> QED
  BY <1>1, <1>7, <1>8, <1>5, <1>9 DEF IInv

LEMMA NextDeviceByteKeeps == IInv /\ NextDeviceByte => IInv'
<1> SUFFICES ASSUME IInv, NextDeviceByte PROVE IInv'
  OBVIOUS
<1>1. /\ pc = "devices" /\ DevicesLeft /\ ~AtDeviceName /\ i' = i + 1
      /\ UNCHANGED <<pc, sections, devices, data, names, entries>>
  BY DEF NextDeviceByte
<1>2. /\ Records /\ Loaded
      /\ NamesOf({k \in DOMAIN sections : Nameable(sections[k])})
      /\ i \in NamesEnd..Len(data) /\ Listed(DevicesBefore(i))
  BY <1>1, DevicesState
<1>3. NamesEnd \in Nat /\ Len(data) \in Nat
  BY <1>2, Sizes
<1>4. i \in NamesEnd..(Len(data) - 1) /\ i \in Nat
  BY <1>1, <1>2, <1>3 DEF DevicesLeft
<1>5. /\ Records' /\ Loaded' /\ AllClear' = AllClear
      /\ \A j : NameAt(j)' = NameAt(j)
  BY <1>1, <1>2, RecordsStay, LoadedStays
<1>6. ASSUME AllClear PROVE DevicesBefore(i)' = DevicesBefore(i)
  <2>1. ASSUME NEW j \in DOMAIN devices, Listable(devices[j])
        PROVE  NameAt(j) < i + 1 <=> NameAt(j) < i
    <3>1. i # NameAt(j)
      BY <1>1, <1>2, <1>4, <1>6, <2>1, DeviceRecognised DEF Listable
    <3>2. NameAt(j) \in Nat
      BY <1>2, DeviceFields
    <3> QED
      BY <1>4, <3>1, <3>2
  <2> QED
    BY <1>1, <1>5, <2>1 DEF DevicesBefore
<1>7. Listed(DevicesBefore(i))'
  <2> SUFFICES ASSUME AllClear PROVE (entries \in Seq(Entries) /\ EntriesOf(DevicesBefore(i)))'
    BY <1>5 DEF Listed
  <2>1. PICK ks : ks = DevicesBefore(i)
    OBVIOUS
  <2>2. entries \in Seq(Entries) /\ EntriesOf(ks) /\ DevicesBefore(i)' = ks
    BY <1>2, <1>6, <2>1 DEF Listed
  <2>3. entries' = entries /\ devices' = devices
    BY <1>1
  <2> QED
    BY ONLY <2>2, <2>3 DEF EntriesOf
<1>8. i' \in NamesEnd..Len(data')
  BY <1>1, <1>3, <1>4
<1>9. NamesOf({j \in DOMAIN sections : Nameable(sections[j])})'
  BY <1>1, <1>2, NamesStay
<1> QED
  BY <1>1, <1>2, <1>5, <1>7, <1>8, <1>9 DEF IInv

\* Behind the scan of the devices there is no record left either.
LEMMA DevicesDoneKeeps == IInv /\ DevicesDone => IInv'
<1> SUFFICES ASSUME IInv, DevicesDone PROVE IInv'
  OBVIOUS
<1>1. /\ pc = "devices" /\ ~DevicesLeft /\ pc' = "done"
      /\ UNCHANGED <<sections, devices, data, i, names, entries>>
  BY DEF DevicesDone
<1>2. /\ Records /\ Loaded
      /\ NamesOf({k \in DOMAIN sections : Nameable(sections[k])})
      /\ i \in NamesEnd..Len(data) /\ Listed(DevicesBefore(i))
  BY <1>1, DevicesState
<1>3. NamesEnd \in Nat /\ Len(data) \in Nat
  BY <1>2, Sizes
<1>4. Records' /\ Loaded' /\ AllClear' = AllClear
  BY <1>1, <1>2, RecordsStay, LoadedStays
<1>5. PICK ks : ks = {k \in DOMAIN devices : Listable(devices[k])}
  OBVIOUS
<1>6. DevicesBefore(i) = ks
  <2>1. ASSUME NEW k \in DOMAIN devices PROVE NameAt(k) < i
    <3> DEFINE n == Len(devices[k].name)
    <3>1. NameAt(k) \in Nat /\ n \in 0..95 /\ NameAt(k) + 3 + n <= Len(data) - 6
      BY <1>2, DeviceFields
    <3>2. i \in Int /\ i >= Len(data) - 5
      <4>1. i \in NamesEnd..Len(data) /\ ~(i < Len(data) - 5)
        BY <1>1, <1>2 DEF DevicesLeft
      <4> QED
        BY ONLY <1>3, <4>1
    <3> HIDE DEF n
    <3> QED
      BY ONLY <1>3, <3>1, <3>2
  <2> QED
    BY <1>5, <2>1 DEF DevicesBefore
<1>7. Listed({k \in DOMAIN devices : Listable(devices[k])})'
  <2> SUFFICES ASSUME AllClear
               PROVE  (/\ entries \in Seq(Entries)
                       /\ EntriesOf({k \in DOMAIN devices : Listable(devices[k])}))'
    BY <1>4 DEF Listed
  <2>1. /\ entries \in Seq(Entries) /\ EntriesOf(ks)
        /\ {k \in DOMAIN devices' : Listable(devices'[k])} = ks
    BY <1>1, <1>2, <1>5, <1>6 DEF Listed
  <2>2. EntriesOf(ks)'
    BY <1>1, <2>1 DEF EntriesOf
  <2> QED
    BY <1>1, <2>1, <2>2
<1>8. NamesOf({j \in DOMAIN sections : Nameable(sections[j])})'
  BY <1>1, <1>2, NamesStay
<1> QED
  BY <1>1, <1>2, <1>4, <1>7, <1>8 DEF IInv

\* Nothing changes once the volume is parsed or cannot be read.
LEMMA StutterKeeps == IInv /\ UNCHANGED vars => IInv'
<1> SUFFICES ASSUME IInv, UNCHANGED vars PROVE IInv'
  OBVIOUS
<1>1. UNCHANGED <<pc, sections, devices, data, i, names, entries>>
  BY DEF vars
<1>2. /\ Records => Records'
      /\ Loaded => Loaded'
      /\ AllClear' = AllClear
      /\ \A j : SectionAt(j)' = SectionAt(j) /\ NameAt(j)' = NameAt(j)
  BY <1>1, RecordsStay, LoadedStays
<1>3. PICK ks, ls : /\ ks = {k \in DOMAIN devices : Listable(devices[k])}
                    /\ ls = DevicesBefore(i)
  OBVIOUS
<1>4. PICK ms, os : /\ ms = {k \in DOMAIN sections : Nameable(sections[k])}
                    /\ os = SectionsBefore(i)
  OBVIOUS
<1>5. /\ {k \in DOMAIN devices : Listable(devices[k])}' = ks
      /\ {k \in DOMAIN sections : Nameable(sections[k])}' = ms
  BY <1>1, <1>3, <1>4
<1>6. DevicesBefore(i)' = ls /\ SectionsBefore(i)' = os
  BY <1>1, <1>2, <1>3, <1>4 DEF DevicesBefore, SectionsBefore
<1>7. /\ Listed(ks) => Listed({k \in DOMAIN devices : Listable(devices[k])})'
      /\ Listed(ls) => Listed(DevicesBefore(i))'
  <2>1. ASSUME NEW places PROVE Listed(places) => Listed(places)'
    <3>1. EntriesOf(places) => EntriesOf(places)'
      BY <1>1 DEF EntriesOf
    <3> QED
      BY <1>1, <1>2, <3>1 DEF Listed
  <2>2. Listed(ks)' <=> Listed({k \in DOMAIN devices : Listable(devices[k])})'
    BY <1>5
  <2>3. Listed(ls)' <=> Listed(DevicesBefore(i))'
    BY <1>6
  <2> QED
    BY <2>1, <2>2, <2>3
<1>8. /\ NamesOf(ms) => NamesOf({k \in DOMAIN sections : Nameable(sections[k])})'
      /\ NamesOf(os) => NamesOf(SectionsBefore(i))'
  BY <1>1, <1>5, <1>6 DEF NamesOf
<1>9. /\ Records'
      /\ pc' \in {"read", "names", "devices", "done", "failed"}
      /\ pc' \in {"names", "devices", "done"} => Loaded'
      /\ pc' = "read" => names' = <<>>
      /\ pc' \in {"read", "names"} => entries' = <<>>
  BY <1>1, <1>2 DEF IInv
<1>10. /\ pc' = "names" => i' \in 1..NamesEnd /\ NamesOf(SectionsBefore(i))'
       /\ pc' \in {"devices", "done"} =>
            NamesOf({k \in DOMAIN sections : Nameable(sections[k])})'
  BY <1>1, <1>4, <1>8 DEF IInv
<1>11. /\ pc' = "devices" => i' \in NamesEnd..Len(data') /\ Listed(DevicesBefore(i))'
       /\ pc' = "done" => Listed({k \in DOMAIN devices : Listable(devices[k])})'
  BY <1>1, <1>3, <1>7 DEF IInv
<1> QED
  BY <1>9, <1>10, <1>11 DEF IInv

LEMMA NextKeeps == IInv /\ [Next]_vars => IInv'
<1> SUFFICES ASSUME IInv, [Next]_vars PROVE IInv'
  OBVIOUS
<1>1. CASE Read
  BY <1>1, ReadKeeps
<1>2. CASE TakeName
  BY <1>2, TakeNameKeeps
<1>3. CASE NextNameByte
  BY <1>3, NextNameByteKeeps
<1>4. CASE NamesDone
  BY <1>4, NamesDoneKeeps
<1>5. CASE TakeEntry
  BY <1>5, TakeEntryKeeps
<1>6. CASE NextDeviceByte
  BY <1>6, NextDeviceByteKeeps
<1>7. CASE DevicesDone
  BY <1>7, DevicesDoneKeeps
<1>8. CASE UNCHANGED vars
  BY <1>8, StutterKeeps
<1> QED
  BY <1>1, <1>2, <1>3, <1>4, <1>5, <1>6, <1>7, <1>8 DEF Next, Done

-----------------------------------------------------------------------------
\* What lies behind a scan has been taken, and nothing else: of the section names
\* whatever the volume holds, of the devices if their records are unambiguous
\* (_parse_section_names, _parse_device_entries).
THEOREM ParserInvariant == Spec => []IInv
<1> QED
  BY InitInv, NextKeeps, PTL DEF Spec

\* Every section has the name of its last record that has a letter; no section
\* has the name of another one or of a device (config_reader.py,
\* _parse_section_names).
THEOREM NamesReachTheirSections == Spec => []NamesAreTheSections
<1>1. IInv => NamesAreTheSections
  BY DEF IInv, NamesAreTheSections
<1> QED
  BY <1>1, ParserInvariant, PTL

\* Unless a record spells a tag in its other bytes, every nameable device is listed
\* once, in the panel's order, with the section and the RF byte of its own record,
\* whatever its address, its type and the bytes ahead of its name
\* (config_reader.py, _parse_device_entries, _find_section_byte and _find_rf_byte0).
THEOREM RecordsAreListed == Spec => []EntriesAreTheRecords
<1>1. IInv => EntriesAreTheRecords
  BY DEF IInv, Listed, AllClear, EntriesAreTheRecords
<1> QED
  BY <1>1, ParserInvariant, PTL
=============================================================================
