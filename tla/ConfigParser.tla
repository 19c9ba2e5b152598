----------------------------- MODULE ConfigParser -----------------------------
(***************************************************************************)
(* Reading the panel configuration off the FLEXI_CFG volume                *)
(* (config_reader.py): decryption, the scan for section names and the scan *)
(* for device entries, one step per iteration of either loop.              *)
(*                                                                         *)
(* What the panel writes is outside the repository; it is the layout that  *)
(* the parser's comments and the records of its tests give.  Bytes whose   *)
(* meaning these leave open are any bytes.  Offsets are counted from 0 as  *)
(* in the code, and a name is a few bytes, of which only matters what the  *)
(* parser asks: letters, other printable characters, bytes that are not    *)
(* text.                                                                   *)
(***************************************************************************)
EXTENDS Integers, Sequences, SequencesExt

CONSTANTS
  SectionRecords, \* bound: the section name records a volume may have,
  DeviceRecords,  \* the device records
  MaxSections,    \* and how many of the former
  MaxDevices,     \* and of the latter
  MaxNameLength,  \* _MAX_NAME_LENGTH, 40 in the code
  NamesSize,      \* bytes of the section names' region
  SectionReach,   \* how far _find_section_byte looks back, 50 in the code
  RfReach         \* how far _find_rf_byte0 looks back, 60 in the code

Bytes == 0..255

\* Text has no control characters, and its length is written in one byte.
Texts == {text \in Seq(32..255) : Len(text) <= 95}

ASSUME ParserAssumption ==
  /\ SectionRecords \subseteq [number : Bytes, name : Texts]
  /\ DeviceRecords \subseteq [front : Seq(Bytes), rf : Bytes, address : Seq(Bytes),
                              section : 0..15, type : Bytes, extra : Seq(Bytes), name : Texts]
  /\ MaxSections \in Nat /\ MaxDevices \in Nat
  /\ MaxNameLength \in 1..40 /\ NamesSize \in Nat \ {0}
  /\ SectionReach \in Nat /\ RfReach \in Nat

\* Bytes with a meaning to the parser.
NameTag == 6
Delimiter == 7
LenBase == 160
RecordSubtag == 129
NameSubtag == 133
SectionTag == 2
TypeTag == 3
ExtraTag == 4
RfMarker == <<136, 0, 206>>

\* Of the bytes of a name, the one that stands for letters, and the one that
\* stands for what is no character at all.
Letter == 97
NoText == 255

VARIABLES
  pc,        \* "read", "names", "devices", "done" or "failed" (ConfigReadError)
  sections,  \* the panel's section records
  devices,   \* the panel's device records, device number = index - 1
  data,      \* the decrypted bytes
  i,         \* offset of the running scan
  names,     \* section number -> name
  entries    \* the DeviceEntry list

vars == <<pc, sections, devices, data, i, names, entries>>

-----------------------------------------------------------------------------
(***************************************************************************)
(* The volume, as the panel's export leaves it (external).                 *)
(***************************************************************************)
SectionBytes(r) ==
  <<NameTag, RecordSubtag, r.number, NameSubtag, 0, LenBase + Len(r.name)>> \o r.name

\* What a device record has before its name.  front is what follows the delimiter
\* of the record before, 09 81 and the device's number as a rule; address begins
\* with [b1] [b2] and goes on to the section tag; extra is what 04 introduces.
Ahead(r) ==
  r.front \o RfMarker \o <<r.rf>> \o r.address
    \o <<SectionTag, r.section, TypeTag, r.type, ExtraTag>> \o r.extra

DeviceBytes(r) == Ahead(r) \o <<NameTag, LenBase + Len(r.name)>> \o r.name \o <<Delimiter>>

Zeros(n) == [k \in 1..n |-> 0]

SectionsBytes(rs) == FlattenSeq([k \in DOMAIN rs |-> SectionBytes(rs[k])])
DevicesBytes(rs) == FlattenSeq([k \in DOMAIN rs |-> DeviceBytes(rs[k])])

NamesRegion(rs) == <<0>> \o SectionsBytes(rs) \o Zeros(NamesSize - Len(SectionsBytes(rs)))
DevicesRegion(rs) == DevicesBytes(rs) \o Zeros(6)

\* Every byte is stored inverted.
Volume == LET plain == NamesRegion(sections) \o DevicesRegion(devices)
          IN [k \in DOMAIN plain |-> 255 - plain[k]]

-----------------------------------------------------------------------------
Init ==
  /\ pc = "read"
  /\ sections \in SeqOf(SectionRecords, MaxSections)
  /\ Len(SectionsBytes(sections)) <= NamesSize
  /\ devices \in SeqOf(DeviceRecords, MaxDevices)
  /\ data = <<>> /\ i = 0 /\ names = <<>> /\ entries = <<>>

\* Where the two scans begin and the first one ends.
NamesStart == 1
NamesEnd == 1 + NamesSize
DevicesStart == NamesEnd

Byte(offset) == data[offset + 1]
Text(offset, n) == SubSeq(data, offset + 1, offset + n)

\* any(c.isalpha()) of the decoded name, and _is_valid_name.
HasLetter(name) == \E k \in DOMAIN name : name[k] = Letter
IsText(name) == \A k \in DOMAIN name : name[k] # NoText

\* Read and decrypt, or a ConfigReadError for an unreadable or short volume.
Read ==
  /\ pc = "read"
  /\ \/ pc' = "failed" /\ UNCHANGED <<data, i>>
     \/ /\ pc' = "names" /\ i' = NamesStart
        /\ data' = [k \in DOMAIN Volume |-> 255 - Volume[k]]
  /\ UNCHANGED <<sections, devices, names, entries>>

-----------------------------------------------------------------------------
(***************************************************************************)
(* _parse_section_names.                                                   *)
(***************************************************************************)
NamesLeft == i < NamesEnd /\ i + 6 < Len(data)

NameLength == Byte(i + 5) - LenBase

AtSectionRecord ==
  /\ Byte(i) = NameTag /\ Byte(i + 1) = RecordSubtag
  /\ Byte(i + 3) = NameSubtag /\ Byte(i + 4) = 0
  /\ Byte(i + 5) >= LenBase
  /\ NameLength \in 1..MaxNameLength /\ i + 6 + NameLength <= Len(data)

\* Mutant: the number of the record is taken for the number of the section.
TakeNameByRecord ==
  /\ pc = "names" /\ NamesLeft /\ AtSectionRecord
  /\ LET name == Text(i + 6, NameLength)
         number == Byte(i + 2)
     IN names' = IF HasLetter(name)
                 THEN [n \in DOMAIN names \cup {number} |->
                         IF n = number THEN name ELSE names[n]]
                 ELSE names
  /\ i' = i + 6 + NameLength
  /\ UNCHANGED <<pc, sections, devices, data, entries>>

TakeName ==
  /\ pc = "names" /\ NamesLeft /\ AtSectionRecord
  /\ LET name == Text(i + 6, NameLength)
         number == Byte(i + 2) + 1
     IN names' = IF HasLetter(name)
                 THEN [n \in DOMAIN names \cup {number} |->
                         IF n = number THEN name ELSE names[n]]
                 ELSE names
  /\ i' = i + 6 + NameLength
  /\ UNCHANGED <<pc, sections, devices, data, entries>>

NextNameByte ==
  /\ pc = "names" /\ NamesLeft /\ ~AtSectionRecord
  /\ i' = i + 1
  /\ UNCHANGED <<pc, sections, devices, data, names, entries>>

NamesDone ==
  /\ pc = "names" /\ ~NamesLeft
  /\ pc' = "devices" /\ i' = DevicesStart
  /\ UNCHANGED <<sections, devices, data, names, entries>>

-----------------------------------------------------------------------------
(***************************************************************************)
(* _parse_device_entries.                                                  *)
(***************************************************************************)
\* The offsets before the name tag that a backward search visits.
Behind(offset, reach) ==
  {j \in 0..(offset - 4) : j > offset - reach /\ j > 0}

\* Mutant: the search runs forwards and stops at the farthest pattern.
Farthest(S) == Min(S)

\* Where a search that runs backwards stops.
Nearest(S) == Max(S)

\* _find_section_byte
SectionOf(offset) ==
  LET At(j) == /\ Byte(j) = SectionTag /\ j + 4 < Len(data)
               /\ Byte(j + 2) = TypeTag /\ Byte(j + 4) = ExtraTag
               /\ Byte(j + 1) <= 15
      found == {j \in Behind(offset, SectionReach) : At(j)}
  IN IF found = {} THEN 1 ELSE Byte(Nearest(found) + 1) + 1

\* _find_rf_byte0
RfOf(offset) ==
  LET found == {j \in Behind(offset, RfReach) : Text(j, 3) = RfMarker /\ j + 3 < Len(data)}
  IN IF found = {} THEN 0 ELSE Byte(Nearest(found) + 3)

DevicesLeft == i < Len(data) - 5

DeviceNameLength == Byte(i + 1) - LenBase

AtDeviceName ==
  /\ Byte(i) = NameTag /\ DeviceNameLength \in 1..MaxNameLength
  /\ i + 2 + DeviceNameLength < Len(data)
  /\ Byte(i + 2 + DeviceNameLength) = Delimiter

TakeEntry ==
  /\ pc = "devices" /\ DevicesLeft /\ AtDeviceName
  /\ LET name == Text(i + 2, DeviceNameLength) IN
       entries' = IF HasLetter(name) /\ IsText(name)
                  THEN Append(entries, [position |-> Len(entries), name |-> name,
                                        section |-> SectionOf(i), rf |-> RfOf(i)])
                  ELSE entries
  /\ i' = i + 2 + DeviceNameLength
  /\ UNCHANGED <<pc, sections, devices, data, names>>

NextDeviceByte ==
  /\ pc = "devices" /\ DevicesLeft /\ ~AtDeviceName
  /\ i' = i + 1
  /\ UNCHANGED <<pc, sections, devices, data, names, entries>>

DevicesDone ==
  /\ pc = "devices" /\ ~DevicesLeft
  /\ pc' = "done"
  /\ UNCHANGED <<sections, devices, data, i, names, entries>>

Done == pc \in {"done", "failed"} /\ UNCHANGED vars

Next ==
  \/ Read \/ TakeName \/ NextNameByte \/ NamesDone
  \/ TakeEntry \/ NextDeviceByte \/ DevicesDone \/ Done

Spec == Init /\ [][Next]_vars

-----------------------------------------------------------------------------
\* A record the device scan is meant to list.
Listable(r) == Len(r.name) \in 1..MaxNameLength /\ HasLetter(r.name) /\ IsText(r.name)

\* What is to be listed of a record.
EntryOf(r, position) ==
  [position |-> position, name |-> r.name, section |-> r.section + 1, rf |-> r.rf]

\* The entries are those of the records among ks, each once, in their order.
EntriesOf(ks) ==
  \E of \in [DOMAIN entries -> ks] :
    /\ \A k \in ks : \E n \in DOMAIN entries : of[n] = k
    /\ \A m, n \in DOMAIN entries : m < n => of[m] < of[n]
    /\ \A n \in DOMAIN entries : entries[n] = EntryOf(devices[of[n]], n - 1)

\* No bytes of the record spell a tag where the scan or a search comes by, and the
\* record's own tags are within reach of both searches: no 06 with a length that ends
\* at an 07, no 02 s 03 t 04 behind the true one, no second 88 00 ce.  Single bytes
\* that are tags do no harm.
Unambiguous(r) ==
  LET bytes == DeviceBytes(r)
      marker == Len(r.front) + 1
      tag == marker + 4 + Len(r.address)
      name == Len(Ahead(r)) + 1
      Length(p) == bytes[p + 1] - LenBase
  IN /\ \A p \in 1..(name - 1) :
          bytes[p] = NameTag /\ Length(p) \in 1..MaxNameLength =>
            p + 2 + Length(p) <= Len(bytes) /\ bytes[p + 2 + Length(p)] # Delimiter
     /\ name - tag < SectionReach
     /\ \A p \in (tag + 1)..(name - 4) :
          ~(/\ bytes[p] = SectionTag /\ bytes[p + 1] <= 15
            /\ bytes[p + 2] = TypeTag /\ bytes[p + 4] = ExtraTag)
     /\ name - marker < RfReach
     /\ \A p \in (marker + 1)..(name - 4) : SubSeq(bytes, p, p + 2) # RfMarker

\* The scan lists every nameable device once, in the panel's order, each with
\* the section and the RF byte of its own record: the backward searches never
\* stop at a neighbour's tags, and no byte of one record is taken for another.
\* All this as long as the records are unambiguous; the parser cannot tell when
\* they are not.
EntriesAreTheRecords ==
  pc = "done" /\ (\A k \in DOMAIN devices : Unambiguous(devices[k])) =>
    EntriesOf({k \in DOMAIN devices : Listable(devices[k])})

\* A record that names its section.
Nameable(r) == Len(r.name) \in 1..MaxNameLength /\ HasLetter(r.name)

\* Each section of the records among ks has the name of its last one, no other
\* section has a name.
NamesOf(ks) ==
  /\ DOMAIN names = {sections[k].number + 1 : k \in ks}
  /\ \A k \in ks :
       (\A j \in ks : sections[j].number = sections[k].number => j <= k) =>
         names[sections[k].number + 1] = sections[k].name

\* A section has the name of its last record that has a letter, and no section
\* gets the name of another or of a device.
NamesAreTheSections ==
  pc \in {"devices", "done"} => NamesOf({k \in DOMAIN sections : Nameable(sections[k])})

\* config_reader.py:328: the position in the list is the device number, which
\* the queries and the activity bitmap of the HID protocol go by.
PositionIsDeviceNumber ==
  pc = "done" => \A k \in DOMAIN entries : entries[k].name = devices[entries[k].position + 1].name
=============================================================================
