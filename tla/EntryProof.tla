----------------------------- MODULE EntryProof -----------------------------
(***************************************************************************)
(* Proofs about module Entry, for any number of changes, breaks and        *)
(* probes.                                                                 *)
(***************************************************************************)
EXTENDS Entry, SequenceTheorems, TLAPS

USE DEF setupVars, clientVars, panelVars, dataVars, configVars, entityVars, refreshVars,
        historyVars, SetupGoes

-----------------------------------------------------------------------------
(***************************************************************************)
(* The inductive invariant.                                                *)
(***************************************************************************)
IsSections(packet) == packet.type = "SECTIONS"

\* The queue holds no sections.
Silent(queue) == \A k \in 1..Len(queue) : ~IsSections(queue[k])

\* Its last ones are of that version.
EndsWith(queue, version) ==
  \E k \in 1..Len(queue) :
    /\ IsSections(queue[k]) /\ queue[k].version = version
    /\ \A j \in (k + 1)..Len(queue) : ~IsSections(queue[j])

\* Versions grow from the coordinator's data through both queues to the panel.
AtLeast(queue, version) ==
  \A k \in 1..Len(queue) : IsSections(queue[k]) => version <= queue[k].version

AtMost(queue, version) ==
  \A k \in 1..Len(queue) : IsSections(queue[k]) => queue[k].version <= version

Before(front, back) ==
  \A k \in 1..Len(back) : IsSections(back[k]) => AtMost(front, back[k].version)

Ascending(queue) ==
  \A j, k \in 1..Len(queue) :
    j < k /\ IsSections(queue[j]) /\ IsSections(queue[k]) => queue[j].version <= queue[k].version

OrderInv ==
  /\ Ascending(toRead) /\ Ascending(posted) /\ Before(posted, toRead)
  /\ AtLeast(posted, sections) /\ AtLeast(toRead, sections)
  /\ AtMost(posted, panel) /\ AtMost(toRead, panel) /\ sections <= panel

\* Once the startup queries are answered, the newest version the coordinator
\* will have is the panel's, if it ever had one.
LatestInv ==
  link = "up" /\ reader = "run" /\ ~asked =>
    \/ EndsWith(toRead, panel)
    \/ Silent(toRead) /\ EndsWith(posted, panel)
    \/ Silent(toRead) /\ Silent(posted) /\ sections \in {panel, Nothing}

\* What each point of the set-up has behind it, and that the entity shows the
\* coordinator's data.
SetupInv ==
  /\ setup = "connect" => link = "closed" /\ reader = "off"
  /\ setup \in {"connect", "construct"} => ~wired
  /\ setup \in {"wait", "export", "probe", "forward", "loaded"} => wired
  /\ ~wired => posted = <<>> /\ sections = Nothing
  /\ link = "up" => reader # "off"
  /\ listening => setup = "loaded" /\ entity = sections /\ sections # Nothing
  /\ ready => sections # Nothing

\* Unless the link broke or the set-up missed it, the first answer is on its way
\* or has come.
Expected ==
  \/ reader = "startup" \/ asked \/ ~Silent(toRead) \/ ~Silent(posted) \/ sections # Nothing

AnswerInv ==
  breaks = 0 /\ ~missed =>
    /\ setup \in {"construct", "wait", "export", "probe", "forward", "loaded"} =>
         link = "up" /\ reader # "off" /\ Expected
    /\ setup \in {"export", "probe", "forward"} => sections # Nothing
    /\ setup = "loaded" => listening

Inv == TypeOK /\ OrderInv /\ LatestInv /\ SetupInv /\ AnswerInv

-----------------------------------------------------------------------------
(***************************************************************************)
(* Queues of packets.                                                      *)
(***************************************************************************)
\* Versions are integers.
LEMMA PacketVersion ==
  ASSUME NEW packet \in Packets, IsSections(packet)
  PROVE  packet.version \in Versions /\ packet.version \in Int
BY EntryAssumption DEF Packets, IsSections, Versions

\* A queue that holds nothing.
LEMMA EmptyQueue ==
  ASSUME NEW version \in Int, NEW queue
  PROVE  /\ <<>> \in Seq(Packets) /\ Silent(<<>>) /\ ~EndsWith(<<>>, version)
         /\ AtLeast(<<>>, version) /\ AtMost(<<>>, version) /\ Ascending(<<>>)
         /\ Before(<<>>, queue) /\ Before(queue, <<>>)
<1>1. <<>> \in Seq(Packets) /\ Len(<<>>) = 0 /\ 1..Len(<<>>) = {}
  OBVIOUS
<1> QED
  BY <1>1 DEF Silent, EndsWith, AtLeast, AtMost, Ascending, Before

\* What a packet put behind a queue changes.
LEMMA QueueAppend ==
  ASSUME NEW queue \in Seq(Packets), NEW packet \in Packets, NEW version \in Int,
         NEW grown, grown = Append(queue, packet)
  PROVE  /\ grown \in Seq(Packets) /\ grown # <<>>
         /\ Silent(grown) <=> Silent(queue) /\ ~IsSections(packet)
         /\ IsSections(packet) => (EndsWith(grown, version) <=> packet.version = version)
         /\ ~IsSections(packet) => (EndsWith(grown, version) <=> EndsWith(queue, version))
         /\ AtLeast(grown, version)
              <=> AtLeast(queue, version) /\ (IsSections(packet) => version <= packet.version)
         /\ AtMost(grown, version)
              <=> AtMost(queue, version) /\ (IsSections(packet) => packet.version <= version)
         /\ Ascending(grown)
              <=> Ascending(queue) /\ (IsSections(packet) => AtMost(queue, packet.version))
<1> DEFINE n == Len(queue)
<1>1. /\ n \in Nat /\ grown \in Seq(Packets) /\ grown # <<>> /\ Len(grown) = n + 1
      /\ \A k \in 1..n : grown[k] = queue[k]
      /\ grown[n + 1] = packet
  BY AppendProperties, LenProperties
<1>2. 1..Len(grown) = (1..n) \cup {n + 1} /\ \A k \in 1..n : k < n + 1
  BY <1>1
<1>3. Silent(grown) <=> Silent(queue) /\ ~IsSections(packet)
  BY <1>1, <1>2 DEF Silent
<1>4. AtLeast(grown, version)
        <=> AtLeast(queue, version) /\ (IsSections(packet) => version <= packet.version)
  BY <1>1, <1>2 DEF AtLeast
<1>5. AtMost(grown, version)
        <=> AtMost(queue, version) /\ (IsSections(packet) => packet.version <= version)
  BY <1>1, <1>2 DEF AtMost
<1>6. IsSections(packet) => (EndsWith(grown, version) <=> packet.version = version)
  <2> SUFFICES ASSUME IsSections(packet)
               PROVE  EndsWith(grown, version) <=> packet.version = version
    OBVIOUS
  <2>1. \A k \in 1..n : n + 1 \in (k + 1)..Len(grown)
    BY <1>1
  <2>2. n + 1 \in 1..Len(grown) /\ (n + 2)..Len(grown) = {}
    BY <1>1
  <2>3. ASSUME EndsWith(grown, version)
        PROVE  packet.version = version
    BY <1>1, <1>2, <2>1, <2>3 DEF EndsWith
  <2>4. ASSUME packet.version = version
        PROVE  EndsWith(grown, version)
    BY <1>1, <2>2, <2>4 DEF EndsWith
  <2> QED
    BY <2>3, <2>4
<1>7. ~IsSections(packet) => (EndsWith(grown, version) <=> EndsWith(queue, version))
  <2> SUFFICES ASSUME ~IsSections(packet)
               PROVE  EndsWith(grown, version) <=> EndsWith(queue, version)
    OBVIOUS
  <2>1. \A k \in 1..n : \A j \in (k + 1)..n : j \in 1..n /\ j \in (k + 1)..Len(grown)
    BY <1>1
  <2>2. \A k \in 1..n : \A j \in (k + 1)..Len(grown) : j \in (k + 1)..n \/ j = n + 1
    BY <1>1
  <2>3. 1..n \subseteq 1..Len(grown)
    BY <1>1
  <2>4. ASSUME NEW k \in 1..n, \A j \in (k + 1)..n : ~IsSections(queue[j])
        PROVE  \A j \in (k + 1)..Len(grown) : ~IsSections(grown[j])
    BY <1>1, <2>1, <2>2, <2>4
  <2>5. ASSUME NEW k \in 1..n, \A j \in (k + 1)..Len(grown) : ~IsSections(grown[j])
        PROVE  \A j \in (k + 1)..n : ~IsSections(queue[j])
    BY <1>1, <2>1, <2>5
  <2>6. EndsWith(grown, version) => EndsWith(queue, version)
    BY <1>1, <1>2, <2>5 DEF EndsWith
  <2>7. EndsWith(queue, version) => EndsWith(grown, version)
    BY <1>1, <2>3, <2>4 DEF EndsWith
  <2> QED
    BY <2>6, <2>7
<1>8. Ascending(grown)
        <=> Ascending(queue) /\ (IsSections(packet) => AtMost(queue, packet.version))
  <2>1. /\ \A j \in 1..Len(grown) : ~(n + 1 < j)
        /\ n + 1 \in 1..Len(grown) /\ 1..n \subseteq 1..Len(grown)
    BY <1>1
  <2>2. ASSUME Ascending(grown)
        PROVE  Ascending(queue)
    BY <1>1, <2>1, <2>2 DEF Ascending
  <2>3. ASSUME Ascending(grown), IsSections(packet)
        PROVE  AtMost(queue, packet.version)
    BY <1>1, <1>2, <2>1, <2>3 DEF Ascending, AtMost
  <2>4. ASSUME Ascending(queue), IsSections(packet) => AtMost(queue, packet.version),
               NEW j \in 1..Len(grown), NEW k \in 1..Len(grown),
               j < k, IsSections(grown[j]), IsSections(grown[k])
        PROVE  grown[j].version <= grown[k].version
    <3>1. j \in 1..n
      BY <1>1, <2>4
    <3>2. CASE k = n + 1
      BY <1>1, <2>4, <3>1, <3>2 DEF AtMost
    <3>3. CASE k # n + 1
      <4>1. k \in 1..n
        BY <1>1, <3>3
      <4> QED
        BY <1>1, <2>4, <3>1, <4>1 DEF Ascending
    <3> QED
      BY <3>2, <3>3
  <2>5. ASSUME Ascending(queue), IsSections(packet) => AtMost(queue, packet.version)
        PROVE  Ascending(grown)
    BY <2>4, <2>5 DEF Ascending
  <2> QED
    BY <2>2, <2>3, <2>5
<1> QED
  BY <1>1, <1>3, <1>4, <1>5, <1>6, <1>7, <1>8

\* What is left when the first packet is taken.
LEMMA QueueTail ==
  ASSUME NEW queue \in Seq(Packets), queue # <<>>, NEW version \in Int,
         NEW rest, rest = Tail(queue), NEW first, first = Head(queue)
  PROVE  /\ rest \in Seq(Packets) /\ first \in Packets
         /\ Silent(queue) <=> Silent(rest) /\ ~IsSections(first)
         /\ EndsWith(queue, version)
              => \/ EndsWith(rest, version)
                 \/ Silent(rest) /\ IsSections(first) /\ first.version = version
         /\ AtLeast(queue, version)
              => AtLeast(rest, version) /\ (IsSections(first) => version <= first.version)
         /\ AtMost(queue, version)
              => AtMost(rest, version) /\ (IsSections(first) => first.version <= version)
         /\ Ascending(queue)
              => Ascending(rest) /\ (IsSections(first) => AtLeast(rest, first.version))
<1> DEFINE n == Len(rest)
<1>1. /\ n \in Nat /\ rest \in Seq(Packets) /\ first \in Packets /\ Len(queue) = n + 1
      /\ first = queue[1]
      /\ \A k \in 1..n : rest[k] = queue[k + 1]
  BY HeadTailProperties, LenProperties
<1>2. /\ \A k \in 1..n : k + 1 \in 1..Len(queue) /\ 1 < k + 1
      /\ 1 \in 1..Len(queue)
      /\ \A j, k \in 1..n : j < k => j + 1 < k + 1
  BY <1>1
<1>3. \A k \in 1..Len(queue) : k # 1 => k - 1 \in 1..n /\ queue[k] = rest[k - 1]
  BY <1>1
<1>4. Silent(queue) <=> Silent(rest) /\ ~IsSections(first)
  BY <1>1, <1>2, <1>3 DEF Silent
<1>5. AtLeast(queue, version)
        => AtLeast(rest, version) /\ (IsSections(first) => version <= first.version)
  BY <1>1, <1>2 DEF AtLeast
<1>6. AtMost(queue, version)
        => AtMost(rest, version) /\ (IsSections(first) => first.version <= version)
  BY <1>1, <1>2 DEF AtMost
<1>7. Ascending(queue)
        => Ascending(rest) /\ (IsSections(first) => AtLeast(rest, first.version))
  BY <1>1, <1>2 DEF Ascending, AtLeast
<1>8. ASSUME NEW k \in 1..Len(queue), IsSections(queue[k]), queue[k].version = version,
             \A j \in (k + 1)..Len(queue) : ~IsSections(queue[j])
      PROVE  \/ EndsWith(rest, version)
             \/ Silent(rest) /\ IsSections(first) /\ first.version = version
  <2>1. CASE k = 1
    <3>1. \A j \in 1..n : j + 1 \in (k + 1)..Len(queue)
      BY <1>1, <2>1
    <3> QED
      BY <1>1, <1>8, <2>1, <3>1 DEF Silent
  <2>2. CASE k # 1
    <3>1. k - 1 \in 1..n /\ \A j \in ((k - 1) + 1)..n : j \in 1..n /\ j + 1 \in (k + 1)..Len(queue)
      BY <1>1, <2>2
    <3>2. \A j \in ((k - 1) + 1)..n : ~IsSections(rest[j])
      BY <1>1, <1>8, <3>1
    <3> QED
      BY <1>3, <1>8, <2>2, <3>1, <3>2 DEF EndsWith
  <2> QED
    BY <2>1, <2>2
<1> QED
  BY <1>1, <1>4, <1>5, <1>6, <1>7, <1>8 DEF EndsWith

\* The order of two queues when a packet is put behind one of them.
LEMMA BeforeAppend ==
  ASSUME NEW queue \in Seq(Packets), NEW packet \in Packets, NEW other \in Seq(Packets),
         NEW grown, grown = Append(queue, packet)
  PROVE  /\ Before(other, queue) /\ (IsSections(packet) => AtMost(other, packet.version))
              => Before(other, grown)
         /\ Before(queue, other) /\ (IsSections(packet) => AtLeast(other, packet.version))
              => Before(grown, other)
<1> DEFINE n == Len(queue)
<1>1. /\ n \in Nat /\ Len(grown) = n + 1
      /\ \A k \in 1..n : grown[k] = queue[k]
      /\ grown[n + 1] = packet
      /\ 1..Len(grown) = (1..n) \cup {n + 1}
  BY AppendProperties, LenProperties
<1>2. ASSUME NEW k \in 1..Len(other), IsSections(other[k]),
             AtMost(queue, other[k].version),
             IsSections(packet) => packet.version <= other[k].version
      PROVE  AtMost(grown, other[k].version)
  BY <1>1, <1>2 DEF AtMost
<1> QED
  BY <1>1, <1>2 DEF Before, AtLeast

\* The same when the first packet of one is taken.
LEMMA BeforeTail ==
  ASSUME NEW queue \in Seq(Packets), queue # <<>>, NEW other \in Seq(Packets),
         NEW rest, rest = Tail(queue), NEW first, first = Head(queue)
  PROVE  /\ Before(other, queue)
              => Before(other, rest) /\ (IsSections(first) => AtMost(other, first.version))
         /\ Before(queue, other)
              => Before(rest, other) /\ (IsSections(first) => AtLeast(other, first.version))
<1> DEFINE n == Len(rest)
<1>1. /\ n \in Nat /\ Len(queue) = n + 1 /\ first = queue[1]
      /\ \A k \in 1..n : rest[k] = queue[k + 1] /\ k + 1 \in 1..Len(queue)
      /\ 1 \in 1..Len(queue)
  BY HeadTailProperties, LenProperties
<1>2. \A version : AtMost(queue, version)
        => AtMost(rest, version) /\ (IsSections(first) => first.version <= version)
  BY <1>1 DEF AtMost
<1>3. Before(other, queue)
        => Before(other, rest) /\ (IsSections(first) => AtMost(other, first.version))
  BY <1>1 DEF Before
<1>4. Before(queue, other)
        => Before(rest, other) /\ (IsSections(first) => AtLeast(other, first.version))
  BY <1>2 DEF Before, AtLeast
<1> QED
  BY <1>3, <1>4

\* The panel's answer is two packets behind the others.
LEMMA Answer ==
  ASSUME VersionTypes, AnswerStartup
  PROVE  \E model_ \in Packets, sections_ \in Packets :
           /\ ~IsSections(model_) /\ IsSections(sections_) /\ sections_.version = panel
           /\ Append(toRead, model_) \in Seq(Packets)
           /\ toRead' = Append(Append(toRead, model_), sections_)
<1> DEFINE model_ == [type |-> "MODEL"]
           sections_ == [type |-> "SECTIONS", version |-> panel]
<1>1. model_ \in Packets /\ sections_ \in Packets
  BY DEF VersionTypes, Packets
<1>2. ~IsSections(model_) /\ IsSections(sections_) /\ sections_.version = panel
  BY DEF IsSections
<1>3. toRead \in Seq(Packets) /\ toRead' = toRead \o <<model_, sections_>>
  BY DEF VersionTypes, AnswerStartup
<1> HIDE DEF model_, sections_
<1>4. /\ <<model_, sections_>> \in Seq(Packets) /\ Append(toRead, model_) \in Seq(Packets)
      /\ Append(Append(toRead, model_), sections_) \in Seq(Packets)
  BY <1>1, <1>3
<1>5. toRead' = Append(Append(toRead, model_), sections_)
  BY <1>1, <1>3, <1>4
<1> QED
  BY <1>1, <1>2, <1>4, <1>5

-----------------------------------------------------------------------------
(***************************************************************************)
(* Types.                                                                  *)
(***************************************************************************)
\* Flags are truth values.
LEMMA NextFlagTypes ==
  ASSUME FlagTypes, Next
  PROVE  FlagTypes'
<1> USE DEF FlagTypes
<1>1. CASE SetupStep
  BY <1>1, ZenonT(40) DEF SetupStep, Connect, Construct, WaitForInitialData, ExportConfig, ProbeStatus,
              ForwardPlatforms
<1>2. CASE UnloadStep
  BY <1>2 DEF UnloadStep, UnloadPlatforms, Disconnect
<1>3. CASE ReaderStep
  BY <1>3 DEF ReaderStep, SendStartup, ReadPacket, NoticeBreak, Reconnect
<1>4. CASE LoopStep
  BY <1>4, ZenonT(40) DEF LoopStep, ProcessSections, ProcessModel, FinishRefresh, FailRefresh
<1>5. CASE BeginRefresh \/ AnswerStartup \/ ChangeSections \/ BreakLink \/ Quiescent
  BY <1>5, ZenonT(40) DEF BeginRefresh, AnswerStartup, ChangeSections, BreakLink, Quiescent, vars
<1> QED
  BY <1>1, <1>2, <1>3, <1>4, <1>5 DEF Next

\* The set-up, the link and the reader are at places of their code.
LEMMA NextPlaceTypes ==
  ASSUME PlaceTypes, Next
  PROVE  PlaceTypes'
<1> USE DEF PlaceTypes
<1>1. CASE SetupStep
  BY <1>1 DEF SetupStep, Connect, Construct, WaitForInitialData, ExportConfig, ProbeStatus,
              ForwardPlatforms
<1>2. CASE UnloadStep
  BY <1>2 DEF UnloadStep, UnloadPlatforms, Disconnect
<1>3. CASE ReaderStep
  BY <1>3 DEF ReaderStep, SendStartup, ReadPacket, NoticeBreak, Reconnect
<1>4. CASE LoopStep
  BY <1>4 DEF LoopStep, ProcessSections, ProcessModel, FinishRefresh, FailRefresh
<1>5. CASE BeginRefresh \/ AnswerStartup \/ ChangeSections \/ BreakLink \/ Quiescent
  BY <1>5 DEF BeginRefresh, AnswerStartup, ChangeSections, BreakLink, Quiescent, vars
<1> QED
  BY <1>1, <1>2, <1>3, <1>4, <1>5 DEF Next

\* Counters stay within their bounds.
LEMMA NextCountTypes ==
  ASSUME CountTypes, Next
  PROVE  CountTypes'
<1> USE DEF CountTypes
<1>1. CASE UNCHANGED <<probes, infos, breaks>>
  BY <1>1
<1>2. CASE SetupStep \/ UnloadStep
  BY <1>1, <1>2 DEF SetupStep, Connect, Construct, WaitForInitialData, ExportConfig, ProbeStatus,
     ForwardPlatforms, UnloadStep, UnloadPlatforms, Disconnect
<1>3. CASE ReaderStep
  BY <1>1, <1>3 DEF ReaderStep, SendStartup, ReadPacket, NoticeBreak, Reconnect
<1>4. CASE ProcessSections \/ ProcessModel \/ FailRefresh \/ AnswerStartup \/ ChangeSections
             \/ Quiescent
  BY <1>1, <1>4 DEF ProcessSections, ProcessModel, FailRefresh, AnswerStartup, ChangeSections,
     Quiescent, vars
<1>5. CASE FinishRefresh
  BY <1>5 DEF FinishRefresh
<1>6. CASE BeginRefresh
  BY <1>6, EntryAssumption DEF BeginRefresh
<1>7. CASE BreakLink
  BY <1>7, EntryAssumption DEF BreakLink
<1> QED
  BY <1>2, <1>3, <1>4, <1>5, <1>6, <1>7 DEF Next, LoopStep

\* The queues hold packets, the data and the entity have versions.
LEMMA NextVersionTypes ==
  ASSUME FlagTypes, VersionTypes, Next
  PROVE  VersionTypes'
<1>1. ASSUME UNCHANGED <<panel, toRead, posted, sections>>,
             entity' \in {entity, sections, Nothing}
      PROVE  VersionTypes'
  BY <1>1 DEF VersionTypes
<1>2. CASE Connect \/ Construct \/ WaitForInitialData \/ ExportConfig \/ ProbeStatus
  BY <1>1, <1>2 DEF Connect, Construct, WaitForInitialData, ExportConfig, ProbeStatus
<1>3. CASE ForwardPlatforms \/ UnloadPlatforms
  BY <1>1, <1>3 DEF ForwardPlatforms, UnloadPlatforms
<1>4. CASE Disconnect
  BY <1>4, EmptyQueue DEF Disconnect, VersionTypes
<1>5. CASE SendStartup \/ NoticeBreak \/ Reconnect
  BY <1>1, <1>5 DEF SendStartup, NoticeBreak, Reconnect
<1>6. CASE ReadPacket
  <2>1. toRead' \in Seq(Packets) /\ Head(toRead) \in Packets
    BY <1>6, HeadTailProperties DEF ReadPacket, VersionTypes
  <2>2. posted' \in Seq(Packets)
    BY <1>6, <2>1 DEF ReadPacket, VersionTypes
  <2> QED
    BY <1>6, <2>1, <2>2 DEF ReadPacket, VersionTypes
<1>7. CASE ProcessSections
  <2>1. posted' \in Seq(Packets) /\ Head(posted) \in Packets
    BY <1>7, HeadTailProperties DEF ProcessSections, VersionTypes
  <2>2. sections' \in Versions
    BY <1>7, <2>1, PacketVersion DEF ProcessSections, IsSections
  <2>3. entity' \in {entity, sections'}
    BY <1>7 DEF ProcessSections, NotifyListeners
  <2> QED
    BY <1>7, <2>1, <2>2, <2>3 DEF ProcessSections, VersionTypes
<1>8. CASE ProcessModel
  BY <1>8, HeadTailProperties DEF ProcessModel, VersionTypes
<1>9. CASE FinishRefresh \/ FailRefresh
  BY <1>1, <1>9 DEF FinishRefresh, FailRefresh, NotifyListeners
<1>10. CASE BeginRefresh \/ Quiescent
  BY <1>1, <1>10 DEF BeginRefresh, Quiescent, vars
<1>11. CASE AnswerStartup
  <2>1. toRead' \in Seq(Packets)
    BY <1>11, Answer
  <2> QED
    BY <1>11, <2>1 DEF AnswerStartup, VersionTypes
<1>12. CASE ChangeSections
  <2>1. panel' \in Versions
    BY <1>12, EntryAssumption DEF ChangeSections, VersionTypes, Versions
  <2>2. [type |-> "SECTIONS", version |-> panel'] \in Packets
    BY <2>1 DEF Packets
  <2>3. toRead' \in Seq(Packets)
    BY <1>12, <2>2 DEF ChangeSections, VersionTypes
  <2> QED
    BY <1>12, <2>1, <2>3 DEF ChangeSections, VersionTypes
<1>13. CASE BreakLink
  BY <1>13, EmptyQueue DEF BreakLink, VersionTypes
<1> QED
  BY <1>2, <1>3, <1>4, <1>5, <1>6, <1>7, <1>8, <1>9, <1>10, <1>11, <1>12, <1>13
     DEF Next, SetupStep, UnloadStep, ReaderStep, LoopStep

\* Every step keeps the types.
LEMMA NextTypeOK ==
  ASSUME TypeOK, Next
  PROVE  TypeOK'
BY NextFlagTypes, NextPlaceTypes, NextCountTypes, NextVersionTypes DEF TypeOK

-----------------------------------------------------------------------------
(***************************************************************************)
(* The order of versions.                                                  *)
(***************************************************************************)
\* A bound of a queue may be moved away from it.
LEMMA BoundsMove ==
  ASSUME NEW queue \in Seq(Packets), NEW low \in Int, NEW high \in Int, low <= high
  PROVE  (AtLeast(queue, high) => AtLeast(queue, low)) /\ (AtMost(queue, low) => AtMost(queue, high))
<1>1. \A k \in 1..Len(queue) : queue[k] \in Packets
  OBVIOUS
<1> QED
  BY <1>1, PacketVersion DEF AtLeast, AtMost

\* What the panel says is the newest, behind all before it.
LEMMA NewestBehind ==
  ASSUME NEW queue \in Seq(Packets), NEW ahead \in Seq(Packets), NEW packet \in Packets,
         NEW low \in Int, NEW high \in Int, low <= high,
         Ascending(queue), Before(ahead, queue), AtLeast(queue, low), AtMost(queue, high),
         AtMost(ahead, high), IsSections(packet) => packet.version = high,
         NEW grown, grown = Append(queue, packet)
  PROVE  Ascending(grown) /\ Before(ahead, grown) /\ AtLeast(grown, low) /\ AtMost(grown, high)
<1>1. AtLeast(grown, low)
  BY QueueAppend
<1>2. AtMost(grown, high)
  <2>1. AtMost(grown, high)
          <=> AtMost(queue, high) /\ (IsSections(packet) => packet.version <= high)
    BY QueueAppend
  <2> QED
    BY <2>1
<1>3. Ascending(grown)
  <2>1. Ascending(grown)
          <=> Ascending(queue) /\ (IsSections(packet) => AtMost(queue, packet.version))
    BY QueueAppend
  <2> QED
    BY <2>1
<1>4. Before(ahead, grown)
  BY BeforeAppend
<1> QED
  BY <1>1, <1>2, <1>3, <1>4

\* Versions are ordered from the coordinator's data through both queues to the panel.
LEMMA NextOrderInv ==
  ASSUME VersionTypes, OrderInv, SetupInv, Next
  PROVE  OrderInv'
<1> USE DEF OrderInv
<1>1. /\ toRead \in Seq(Packets) /\ posted \in Seq(Packets)
      /\ panel \in Int /\ sections \in Int /\ Nothing <= panel /\ Nothing \in Int
  BY EntryAssumption DEF VersionTypes, Versions, Nothing
<1>2. ASSUME UNCHANGED <<panel, toRead, posted, sections>>
      PROVE  OrderInv'
  BY <1>2
<1>3. ASSUME toRead' = <<>>, UNCHANGED <<panel, posted, sections>>
      PROVE  OrderInv'
  <2>1. Ascending(toRead') /\ Before(posted, toRead') /\ AtLeast(toRead', sections)
        /\ AtMost(toRead', panel)
    BY <1>1, <1>3, EmptyQueue
  <2> QED
    BY <1>3, <2>1
<1>4. CASE ReadPacket
  <2> DEFINE first == Head(toRead)
  <2>1. /\ toRead # <<>> /\ toRead' = Tail(toRead) /\ UNCHANGED <<panel, sections>>
        /\ posted' = IF wired THEN Append(posted, first) ELSE posted
    BY <1>4 DEF ReadPacket
  <2>2. /\ first \in Packets /\ toRead' \in Seq(Packets)
        /\ Ascending(toRead') /\ (IsSections(first) => AtLeast(toRead', first.version))
        /\ AtLeast(toRead', sections) /\ (IsSections(first) => sections <= first.version)
        /\ AtMost(toRead', panel) /\ (IsSections(first) => first.version <= panel)
    BY <1>1, <2>1, QueueTail
  <2>3. Before(posted, toRead') /\ (IsSections(first) => AtMost(posted, first.version))
    BY <1>1, <2>1, BeforeTail
  <2>4. CASE wired
    <3>1. posted' = Append(posted, first)
      BY <2>1, <2>4
    <3>2. Ascending(posted') /\ AtLeast(posted', sections) /\ AtMost(posted', panel)
      BY <1>1, <2>2, <2>3, <3>1, QueueAppend
    <3>3. Before(posted', toRead')
      BY <1>1, <2>2, <2>3, <3>1, BeforeAppend
    <3> QED
      BY <2>1, <2>2, <3>2, <3>3
  <2>5. CASE ~wired
    BY <2>1, <2>2, <2>3, <2>5
  <2> QED
    BY <2>4, <2>5
<1>5. CASE ProcessSections
  <2> DEFINE first == Head(posted)
  <2>1. /\ posted # <<>> /\ posted' = Tail(posted) /\ UNCHANGED <<panel, toRead>>
        /\ sections' = first.version /\ IsSections(first)
    BY <1>5 DEF ProcessSections, IsSections
  <2>2. /\ first \in Packets /\ posted' \in Seq(Packets)
        /\ Ascending(posted') /\ AtLeast(posted', first.version)
        /\ AtMost(posted', panel) /\ first.version <= panel
    BY <1>1, <2>1, QueueTail
  <2>3. Before(posted', toRead) /\ AtLeast(toRead, first.version)
    BY <1>1, <2>1, BeforeTail
  <2> QED
    BY <2>1, <2>2, <2>3
<1>6. CASE ProcessModel
  <2>1. posted # <<>> /\ posted' = Tail(posted) /\ UNCHANGED <<panel, toRead, sections>>
    BY <1>6 DEF ProcessModel
  <2>2. Ascending(posted') /\ AtLeast(posted', sections) /\ AtMost(posted', panel)
    BY <1>1, <2>1, QueueTail
  <2>3. Before(posted', toRead)
    BY <1>1, <2>1, BeforeTail
  <2> QED
    BY <2>1, <2>2, <2>3
<1>7. CASE AnswerStartup
  <2>1. PICK model_ \in Packets, sections_ \in Packets :
          /\ ~IsSections(model_) /\ IsSections(sections_) /\ sections_.version = panel
          /\ Append(toRead, model_) \in Seq(Packets)
          /\ toRead' = Append(Append(toRead, model_), sections_)
    BY <1>7, Answer
  <2> DEFINE half == Append(toRead, model_)
  <2>2. half \in Seq(Packets) /\ toRead' = Append(half, sections_)
    BY <2>1
  <2>3. Ascending(half) /\ Before(posted, half) /\ AtLeast(half, sections) /\ AtMost(half, panel)
    BY <1>1, <2>1, NewestBehind
  <2> HIDE DEF half
  <2>4. Ascending(toRead') /\ Before(posted, toRead') /\ AtLeast(toRead', sections)
        /\ AtMost(toRead', panel)
    BY <1>1, <2>1, <2>2, <2>3, NewestBehind
  <2>5. UNCHANGED <<panel, posted, sections>>
    BY <1>7 DEF AnswerStartup
  <2> QED
    BY <2>4, <2>5
<1>8. CASE ChangeSections
  <2> DEFINE packet == [type |-> "SECTIONS", version |-> panel']
  <2>1. panel' = panel + 1 /\ panel' \in Versions /\ panel' \in Int /\ panel <= panel'
    BY <1>1, <1>8, EntryAssumption DEF ChangeSections, VersionTypes, Versions
  <2>2. packet \in Packets /\ (IsSections(packet) => packet.version = panel')
    BY <2>1 DEF Packets
  <2>3. UNCHANGED <<posted, sections>> /\ toRead' \in {toRead, Append(toRead, packet)}
    BY <1>8 DEF ChangeSections
  <2> HIDE DEF packet
  <2>4. AtMost(toRead, panel') /\ AtMost(posted, panel') /\ sections <= panel'
    BY <1>1, <2>1, BoundsMove
  <2>5. Ascending(toRead') /\ Before(posted, toRead') /\ AtLeast(toRead', sections)
        /\ AtMost(toRead', panel')
    BY <1>1, <2>1, <2>2, <2>3, <2>4, NewestBehind
  <2> QED
    BY <2>3, <2>4, <2>5
<1>9. CASE SetupStep
  BY <1>2, <1>9 DEF SetupStep, Connect, Construct, WaitForInitialData, ExportConfig,
     ProbeStatus, ForwardPlatforms
<1>10. CASE UnloadPlatforms \/ SendStartup \/ NoticeBreak \/ Reconnect
  BY <1>2, <1>10 DEF UnloadPlatforms, SendStartup, NoticeBreak, Reconnect
<1>11. CASE FinishRefresh \/ FailRefresh \/ BeginRefresh \/ Quiescent
  BY <1>2, <1>11 DEF FinishRefresh, FailRefresh, BeginRefresh, Quiescent, vars
<1>12. CASE Disconnect \/ BreakLink
  BY <1>3, <1>12 DEF Disconnect, BreakLink
<1> QED
  BY <1>4, <1>5, <1>6, <1>7, <1>8, <1>9, <1>10, <1>11, <1>12
     DEF Next, UnloadStep, ReaderStep, LoopStep

-----------------------------------------------------------------------------
(***************************************************************************)
(* The newest version is on its way.                                       *)
(***************************************************************************)
\* What the coordinator hears last is what the panel said last.
LEMMA NextLatestInv ==
  ASSUME FlagTypes, VersionTypes, LatestInv, SetupInv, Next
  PROVE  LatestInv'
<1>1. toRead \in Seq(Packets) /\ posted \in Seq(Packets) /\ panel \in Int
  BY EntryAssumption DEF VersionTypes, Versions
<1>2. ASSUME UNCHANGED <<panel, toRead, posted, sections, link, reader, asked>>
      PROVE  LatestInv'
  BY <1>2 DEF LatestInv
<1>3. ASSUME ~(link' = "up" /\ reader' = "run" /\ ~asked')
      PROVE  LatestInv'
  BY <1>3 DEF LatestInv
<1>4. ASSUME EndsWith(toRead', panel')
      PROVE  LatestInv'
  BY <1>4 DEF LatestInv
<1>5. CASE ReadPacket
  <2> DEFINE first == Head(toRead)
  <2>1. /\ toRead # <<>> /\ toRead' = Tail(toRead) /\ UNCHANGED <<panel, sections, asked>>
        /\ posted' = IF wired THEN Append(posted, first) ELSE posted
        /\ link = "up" /\ reader = "run" /\ UNCHANGED <<link, reader>>
    BY <1>5 DEF ReadPacket
  <2>2. /\ first \in Packets
        /\ Silent(toRead) <=> Silent(toRead') /\ ~IsSections(first)
        /\ EndsWith(toRead, panel)
             => \/ EndsWith(toRead', panel)
                \/ Silent(toRead') /\ IsSections(first) /\ first.version = panel
    BY <1>1, <2>1, QueueTail
  <2>3. CASE ~wired
    <3>1. posted' = <<>> /\ posted = <<>> /\ sections' = Nothing
      BY <2>1, <2>3 DEF SetupInv
    <3>2. Silent(posted') /\ ~EndsWith(posted, panel)
      BY <1>1, <3>1, EmptyQueue
    <3> QED
      BY <2>1, <2>2, <3>1, <3>2 DEF LatestInv
  <2>4. CASE wired
    <3>1. posted' = Append(posted, first)
      BY <2>1, <2>4
    <3>2. /\ Silent(posted') <=> Silent(posted) /\ ~IsSections(first)
          /\ IsSections(first) => (EndsWith(posted', panel) <=> first.version = panel)
          /\ ~IsSections(first) => (EndsWith(posted', panel) <=> EndsWith(posted, panel))
      BY <1>1, <2>2, <3>1, QueueAppend
    <3> QED
      BY <2>1, <2>2, <3>2 DEF LatestInv
  <2> QED
    BY <2>3, <2>4
<1>6. CASE ProcessSections
  <2> DEFINE first == Head(posted)
  <2>1. /\ posted # <<>> /\ posted' = Tail(posted)
        /\ UNCHANGED <<panel, toRead, link, reader, asked>>
        /\ sections' = first.version /\ IsSections(first)
    BY <1>6 DEF ProcessSections, IsSections
  <2>2. /\ Silent(posted) <=> Silent(posted') /\ ~IsSections(first)
        /\ EndsWith(posted, panel)
             => \/ EndsWith(posted', panel)
                \/ Silent(posted') /\ IsSections(first) /\ first.version = panel
    BY <1>1, <2>1, QueueTail
  <2> QED
    BY <2>1, <2>2 DEF LatestInv
<1>7. CASE ProcessModel
  <2> DEFINE first == Head(posted)
  <2>1. /\ posted # <<>> /\ posted' = Tail(posted)
        /\ UNCHANGED <<panel, toRead, sections, link, reader, asked>>
        /\ ~IsSections(first)
    BY <1>7 DEF ProcessModel, IsSections
  <2>2. /\ Silent(posted) <=> Silent(posted') /\ ~IsSections(first)
        /\ EndsWith(posted, panel)
             => \/ EndsWith(posted', panel)
                \/ Silent(posted') /\ IsSections(first) /\ first.version = panel
    BY <1>1, <2>1, QueueTail
  <2> QED
    BY <2>1, <2>2 DEF LatestInv
<1>8. CASE AnswerStartup
  <2>1. PICK model_ \in Packets, sections_ \in Packets :
          /\ ~IsSections(model_) /\ IsSections(sections_) /\ sections_.version = panel
          /\ Append(toRead, model_) \in Seq(Packets)
          /\ toRead' = Append(Append(toRead, model_), sections_)
    BY <1>8, Answer
  <2>2. EndsWith(toRead', panel)
    BY <1>1, <2>1, QueueAppend
  <2>3. panel' = panel
    BY <1>8 DEF AnswerStartup
  <2> QED
    BY <1>4, <2>2, <2>3
<1>9. CASE ChangeSections
  <2> DEFINE packet == [type |-> "SECTIONS", version |-> panel']
  <2>1. panel' \in Versions /\ panel' \in Int
    BY <1>1, <1>9, EntryAssumption DEF ChangeSections, VersionTypes, Versions
  <2>2. packet \in Packets /\ IsSections(packet) /\ packet.version = panel'
    BY <2>1 DEF Packets, IsSections
  <2>3. link' = link /\ (link = "up" => toRead' = Append(toRead, packet))
    BY <1>9 DEF ChangeSections
  <2> HIDE DEF packet
  <2>4. link = "up" => EndsWith(toRead', panel')
    BY <1>1, <2>1, <2>2, <2>3, QueueAppend
  <2> QED
    BY <1>3, <1>4, <2>3, <2>4
<1>10. CASE SetupStep
  <2>1. CASE Connect
    BY <1>2, <1>3, <2>1 DEF Connect
  <2>2. CASE Construct \/ WaitForInitialData \/ ExportConfig \/ ProbeStatus \/ ForwardPlatforms
    BY <1>2, <2>2 DEF Construct, WaitForInitialData, ExportConfig, ProbeStatus, ForwardPlatforms
  <2> QED
    BY <1>10, <2>1, <2>2 DEF SetupStep
<1>11. CASE SendStartup
  BY <1>3, <1>11 DEF SendStartup
<1>12. CASE NoticeBreak \/ Reconnect \/ Disconnect \/ BreakLink
  BY <1>3, <1>12 DEF NoticeBreak, Reconnect, Disconnect, BreakLink
<1>13. CASE UnloadPlatforms \/ FinishRefresh \/ FailRefresh \/ BeginRefresh \/ Quiescent
  BY <1>2, <1>13 DEF UnloadPlatforms, FinishRefresh, FailRefresh, BeginRefresh, Quiescent, vars
<1> QED
  BY <1>5, <1>6, <1>7, <1>8, <1>9, <1>10, <1>11, <1>12, <1>13
     DEF Next, UnloadStep, ReaderStep, LoopStep

-----------------------------------------------------------------------------
(***************************************************************************)
(* The set-up and the entity.                                              *)
(***************************************************************************)
\* What lies behind each point of the set-up stays behind it.
LEMMA NextSetupInv ==
  ASSUME FlagTypes, PlaceTypes, VersionTypes, SetupInv, Next
  PROVE  SetupInv'
<1> USE DEF SetupInv
<1>1. CASE SetupStep
  <2>1. CASE Connect
    BY <2>1 DEF Connect
  <2>2. CASE Construct
    BY <2>2 DEF Construct
  <2>3. CASE WaitForInitialData
    BY <2>3 DEF WaitForInitialData
  <2>4. CASE ExportConfig
    BY <2>4 DEF ExportConfig
  <2>5. CASE ProbeStatus
    BY <2>5 DEF ProbeStatus
  <2>6. CASE ForwardPlatforms
    BY <2>6 DEF ForwardPlatforms, FlagTypes
  <2> QED
    BY <1>1, <2>1, <2>2, <2>3, <2>4, <2>5, <2>6 DEF SetupStep
<1>2. CASE UnloadStep
  BY <1>2 DEF UnloadStep, UnloadPlatforms, Disconnect
<1>3. CASE ReaderStep
  <2>1. CASE SendStartup \/ NoticeBreak \/ Reconnect
    BY <2>1 DEF SendStartup, NoticeBreak, Reconnect
  <2>2. CASE ReadPacket
    BY <2>2 DEF ReadPacket
  <2> QED
    BY <1>3, <2>1, <2>2 DEF ReaderStep
<1>4. CASE ProcessSections
  <2>1. posted # <<>> /\ UNCHANGED <<setup, link, reader, wired, listening>>
    BY <1>4 DEF ProcessSections
  <2>2. wired
    BY <2>1
  <2>3. sections' # Nothing
    BY <1>4, HeadTailProperties, PacketVersion, EntryAssumption
       DEF ProcessSections, IsSections, VersionTypes, Versions, Nothing
  <2>4. listening => entity' = sections'
    BY <1>4 DEF ProcessSections, NotifyListeners
  <2> QED
    BY <2>1, <2>2, <2>3, <2>4
<1>5. CASE ProcessModel
  BY <1>5 DEF ProcessModel
<1>6. CASE FinishRefresh \/ FailRefresh
  BY <1>6 DEF FinishRefresh, FailRefresh, NotifyListeners
<1>7. CASE BeginRefresh \/ AnswerStartup \/ ChangeSections \/ BreakLink \/ Quiescent
  BY <1>7 DEF BeginRefresh, AnswerStartup, ChangeSections, BreakLink, Quiescent, vars
<1> QED
  BY <1>1, <1>2, <1>3, <1>4, <1>5, <1>6, <1>7 DEF Next, LoopStep

\* The first answer is neither lost nor forgotten.
LEMMA NextAnswerInv ==
  ASSUME TypeOK, SetupInv, AnswerInv, Next
  PROVE  AnswerInv'
<1> USE DEF TypeOK
<1>1. toRead \in Seq(Packets) /\ posted \in Seq(Packets) /\ panel \in Int /\ 0 \in Int
      /\ Silent(<<>>)
  BY EntryAssumption, EmptyQueue DEF VersionTypes, Versions
<1>2. ASSUME UNCHANGED <<setup, link, breaks, missed, listening>>,
             Expected => Expected', reader # "off" => reader' # "off",
             sections # Nothing => sections' # Nothing
      PROVE  AnswerInv'
  BY <1>2 DEF AnswerInv
<1>3. ASSUME UNCHANGED <<reader, asked, toRead, posted, sections>>
      PROVE  Expected' <=> Expected
  BY <1>3 DEF Expected
<1>4. CASE SetupStep
  <2>1. CASE Connect
    BY <2>1 DEF Connect, AnswerInv, Expected
  <2>2. CASE Construct
    BY <1>3, <2>2 DEF Construct, AnswerInv
  <2>3. CASE WaitForInitialData
    <3>1. ASSUME breaks' = 0, ~missed'
          PROVE  link = "up" /\ reader # "off" /\ Expected /\ sections # Nothing
      <4>1. breaks = 0 /\ ~missed /\ setup = "wait" /\ (ready \/ NothingComing)
        BY <2>3, <3>1 DEF WaitForInitialData
      <4>2. link = "up" /\ reader # "off" /\ Expected
        BY <4>1 DEF AnswerInv
      <4>3. CASE ready
        BY <4>2, <4>3 DEF SetupInv
      <4>4. CASE NothingComing
        BY <1>1, <4>2, <4>4 DEF NothingComing, Expected
      <4> QED
        BY <4>1, <4>2, <4>3, <4>4
    <3> QED
      BY <1>3, <2>3, <3>1 DEF WaitForInitialData, AnswerInv
  <2>4. CASE ExportConfig
    BY <1>3, <2>4 DEF ExportConfig, AnswerInv
  <2>5. CASE ProbeStatus
    BY <1>3, <2>5 DEF ProbeStatus, AnswerInv
  <2>6. CASE ForwardPlatforms
    BY <1>3, <2>6 DEF ForwardPlatforms, AnswerInv
  <2> QED
    BY <1>4, <2>1, <2>2, <2>3, <2>4, <2>5, <2>6 DEF SetupStep
<1>5. CASE UnloadStep
  BY <1>5 DEF UnloadStep, UnloadPlatforms, Disconnect, AnswerInv
<1>6. CASE SendStartup
  BY <1>6 DEF SendStartup, AnswerInv, Expected
<1>7. CASE ReadPacket
  <2> DEFINE first == Head(toRead)
  <2>1. /\ toRead # <<>> /\ toRead' = Tail(toRead)
        /\ UNCHANGED <<setup, link, reader, asked, sections, listening, breaks>>
        /\ posted' = IF wired THEN Append(posted, first) ELSE posted
        /\ missed' = (missed \/ ~wired)
    BY <1>7 DEF ReadPacket
  <2>2. first \in Packets /\ (Silent(toRead) <=> Silent(toRead') /\ ~IsSections(first))
    BY <1>1, <2>1, QueueTail
  <2>3. wired => (Silent(posted') <=> Silent(posted) /\ ~IsSections(first))
    BY <1>1, <2>1, <2>2, QueueAppend
  <2>4. wired => (Expected => Expected')
    BY <2>1, <2>2, <2>3 DEF Expected
  <2>5. ~missed' => wired /\ ~missed
    BY <2>1
  <2> QED
    BY <2>1, <2>4, <2>5 DEF AnswerInv
<1>8. CASE NoticeBreak
  BY <1>3, <1>8 DEF NoticeBreak, AnswerInv
<1>9. CASE Reconnect
  BY <1>9 DEF Reconnect, AnswerInv, Expected
<1>10. CASE ProcessSections
  <2>1. sections' # Nothing
    BY <1>10, HeadTailProperties, PacketVersion, EntryAssumption
       DEF ProcessSections, IsSections, VersionTypes, Versions, Nothing
  <2> QED
    BY <1>2, <1>10, <2>1 DEF ProcessSections, Expected
<1>11. CASE ProcessModel
  <2>1. /\ posted # <<>> /\ posted' = Tail(posted) /\ ~IsSections(Head(posted))
        /\ UNCHANGED <<setup, link, reader, asked, toRead, sections, listening, breaks, missed>>
    BY <1>11 DEF ProcessModel, IsSections
  <2>2. Silent(posted) <=> Silent(posted')
    BY <1>1, <2>1, QueueTail
  <2> QED
    BY <1>2, <2>1, <2>2 DEF Expected
<1>12. CASE AnswerStartup
  <2>1. PICK model_ \in Packets, sections_ \in Packets :
          /\ ~IsSections(model_) /\ IsSections(sections_) /\ sections_.version = panel
          /\ Append(toRead, model_) \in Seq(Packets)
          /\ toRead' = Append(Append(toRead, model_), sections_)
    BY <1>12, Answer
  <2>2. ~Silent(toRead')
    BY <1>1, <2>1, QueueAppend
  <2> QED
    BY <1>2, <1>12, <2>2 DEF AnswerStartup, Expected
<1>13. CASE ChangeSections
  <2> DEFINE packet == [type |-> "SECTIONS", version |-> panel']
  <2>1. panel' \in Versions
    BY <1>1, <1>13, EntryAssumption DEF ChangeSections, VersionTypes, Versions
  <2>2. packet \in Packets
    BY <2>1 DEF Packets
  <2>3. toRead' \in {toRead, Append(toRead, packet)}
    BY <1>13 DEF ChangeSections
  <2> HIDE DEF packet
  <2>4. Silent(toRead') => Silent(toRead)
    BY <1>1, <2>2, <2>3, QueueAppend
  <2> QED
    BY <1>2, <1>13, <2>4 DEF ChangeSections, Expected
<1>14. CASE BreakLink
  <2>1. breaks' # 0
    BY <1>14, EntryAssumption DEF BreakLink, CountTypes
  <2> QED
    BY <2>1 DEF AnswerInv
<1>15. CASE FinishRefresh \/ FailRefresh \/ BeginRefresh \/ Quiescent
  BY <1>2, <1>3, <1>15 DEF FinishRefresh, FailRefresh, BeginRefresh, Quiescent, vars
<1> QED
  BY <1>4, <1>5, <1>6, <1>7, <1>8, <1>9, <1>10, <1>11, <1>12, <1>13, <1>14, <1>15
     DEF Next, ReaderStep, LoopStep

-----------------------------------------------------------------------------
(***************************************************************************)
(* The theorems.                                                           *)
(***************************************************************************)
\* An entry that is not set up yet.
LEMMA InitInv ==
  ASSUME Init
  PROVE  Inv
<1>1. TypeOK
  <2>1. FlagTypes
    BY DEF Init, FlagTypes
  <2>2. PlaceTypes
    BY DEF Init, PlaceTypes
  <2>3. VersionTypes
    BY EntryAssumption, EmptyQueue DEF Init, VersionTypes, Versions
  <2>4. CountTypes
    BY EntryAssumption DEF Init, CountTypes
  <2> QED
    BY <2>1, <2>2, <2>3, <2>4 DEF TypeOK
<1>2. OrderInv
  <2>1. toRead = <<>> /\ posted = <<>> /\ sections = Nothing /\ panel = 0
        /\ 0 \in Int /\ Nothing \in Int /\ Nothing <= 0
    BY DEF Init, Nothing
  <2> QED
    BY <2>1, EmptyQueue DEF OrderInv
<1>3. LatestInv /\ SetupInv /\ AnswerInv
  BY DEF Init, LatestInv, SetupInv, AnswerInv
<1> QED
  BY <1>1, <1>2, <1>3 DEF Inv

\* A step leaves the invariant standing.
LEMMA NextInv ==
  ASSUME Inv, [Next]_vars
  PROVE  Inv'
<1>1. CASE Next
  BY <1>1, NextTypeOK, NextOrderInv, NextLatestInv, NextSetupInv, NextAnswerInv DEF Inv, TypeOK
<1>2. CASE UNCHANGED vars
  <2>1. TypeOK'
    BY <1>2 DEF vars, Inv, TypeOK, FlagTypes, PlaceTypes, VersionTypes, CountTypes
  <2>2. OrderInv' /\ LatestInv'
    BY <1>2 DEF vars, Inv, OrderInv, LatestInv
  <2>3. SetupInv' /\ AnswerInv'
    BY <1>2 DEF vars, Inv, SetupInv, AnswerInv, Expected
  <2> QED
    BY <2>1, <2>2, <2>3 DEF Inv
<1> QED
  BY <1>1, <1>2

\* The inductive invariant holds of every entry, from set-up to unload.
THEOREM EntryInvariant == Spec => []Inv
<1> QED
  BY InitInv, NextInv, PTL DEF Spec

\* The set-up, the reader, the data and the entity keep the values of their code.
THEOREM EntryTypeCorrect == Spec => []TypeOK
<1>1. Inv => TypeOK
  BY DEF Inv
<1> QED
  BY <1>1, EntryInvariant, PTL

\* With nothing on its way the alarm entity shows the state of the panel: the
\* newest version is in the coordinator's data, and the entity shows that.
THEOREM EntityShowsPanelCorrect == Spec => []EntityShowsPanel
<1>1. ASSUME Inv PROVE EntityShowsPanel
  <2> SUFFICES ASSUME listening, link = "up", NothingComing
               PROVE  entity = panel
    BY DEF EntityShowsPanel
  <2>1. setup = "loaded" /\ entity = sections /\ sections # Nothing
    BY <1>1 DEF Inv, SetupInv
  <2>2. reader = "run" /\ ~asked /\ toRead = <<>> /\ posted = <<>>
    BY <1>1 DEF Inv, SetupInv, TypeOK, PlaceTypes, NothingComing
  <2>3. ~EndsWith(<<>>, panel)
    BY <1>1, EmptyQueue, EntryAssumption DEF Inv, TypeOK, VersionTypes, Versions
  <2>4. sections \in {panel, Nothing}
    BY <1>1, <2>2, <2>3 DEF Inv, LatestInv
  <2> QED
    BY <2>1, <2>4
<1> QED
  BY <1>1, EntryInvariant, PTL

\* A set-up whose panel answers in time ends with the alarm entity.
THEOREM LoadedHasEntityCorrect == Spec => []LoadedHasEntity
<1>1. Inv => LoadedHasEntity
  BY DEF Inv, AnswerInv, LoadedHasEntity
<1> QED
  BY <1>1, EntryInvariant, PTL

\* The entity shows the coordinator's data, and no packet behind is older.
THEOREM EntityNeverRegressesCorrect == Spec => EntityNeverRegresses
<1>1. ASSUME Inv, Inv', [Next]_vars, listening, listening'
      PROVE  entity' >= entity
  <2>1. entity = sections /\ entity' = sections'
    BY <1>1 DEF Inv, SetupInv
  <2>2. sections \in Int /\ posted \in Seq(Packets)
    BY <1>1, EntryAssumption DEF Inv, TypeOK, VersionTypes, Versions, Nothing
  <2>3. CASE sections' = sections
    BY <2>1, <2>2, <2>3
  <2>4. CASE ProcessSections
    <3>1. posted # <<>> /\ sections' = Head(posted).version /\ IsSections(Head(posted))
      BY <2>4 DEF ProcessSections, IsSections
    <3>2. sections <= sections' /\ Head(posted) \in Packets
      BY <1>1, <2>2, <3>1, QueueTail DEF Inv, OrderInv
    <3> QED
      BY <2>1, <2>2, <3>1, <3>2, PacketVersion
  <2>5. Next => sections' = sections \/ ProcessSections
    BY DEF Next, SetupStep, Connect, Construct, WaitForInitialData, ExportConfig, ProbeStatus,
       ForwardPlatforms, UnloadStep, UnloadPlatforms, Disconnect, ReaderStep, SendStartup,
       ReadPacket, NoticeBreak, Reconnect, LoopStep, ProcessModel, FinishRefresh, FailRefresh,
       BeginRefresh, AnswerStartup, ChangeSections, BreakLink, Quiescent, vars
  <2> QED
    BY <1>1, <2>3, <2>4, <2>5 DEF vars
<1>2. ASSUME Inv, Inv', [Next]_vars
      PROVE  [listening /\ listening' => entity' >= entity]_vars
  BY <1>1, <1>2
<1> QED
  BY <1>2, EntryInvariant, PTL DEF Spec, EntityNeverRegresses
=============================================================================
