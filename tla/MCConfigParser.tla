---------------------------- MODULE MCConfigParser ----------------------------
(***************************************************************************)
(* Values of ConfigParser's constants for TLC.                             *)
(***************************************************************************)
EXTENDS ConfigParser

Digit == 49

MCNames == {<<Letter>>, <<Letter, Digit>>, <<Digit>>, <<Letter, NoText>>, <<>>,
            [k \in 1..(MaxNameLength + 1) |-> Letter]}

\* Numbers that are tags as well are among the ones to get right.
MCSectionRecords == [number : {0, NameTag}, name : {<<Digit, Letter>>}]
                      \cup [number : {NameTag}, name : {<<Digit>>}]

\* The bytes around the tags of the tests' records.
Echo == <<9, 129, 2>>
Rest == <<1, 4>>
Usual == <<208, 255, 5, 148>>

\* Every kind of name and section in a record of ordinary bytes.
OrdinaryRecords ==
  [front : {<<>>, Echo}, rf : {16}, address : {<<25, 99>> \o Rest}, section : {SectionTag, NameTag},
   type : {14}, extra : {Usual}, name : MCNames]

\* Bytes that are tags: some only look like it, others do mislead the parser.
Addresses == {<<NameTag, NameTag>> \o Rest, <<NameTag, LenBase + 2>> \o Rest,
              <<SectionTag, 1, TypeTag, 0, ExtraTag>>, RfMarker \o <<17>>}
Extras == {<<>>, <<ExtraTag>>, <<NameTag, LenBase + 2>>, <<NameTag, LenBase + 3>>,
           <<SectionTag, 0, TypeTag, 9, ExtraTag>>, RfMarker \o <<18>>}

OddRecords ==
  [front : {Echo}, rf : {32}, address : {<<25, 99>> \o Rest}, section : {SectionTag},
   type : {TypeTag, NameTag}, extra : Extras, name : {<<Letter>>}]
    \cup [front : {Echo}, rf : {NameTag}, address : Addresses, section : {0},
           type : {TypeTag}, extra : {Usual}, name : {<<Letter, Digit>>}]

MCDeviceRecords == OrdinaryRecords \cup OddRecords
=============================================================================
