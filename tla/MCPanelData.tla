---------------------------- MODULE MCPanelData ----------------------------
(***************************************************************************)
(* Values of PanelData's constants for TLC.                                *)
(***************************************************************************)
EXTENDS PanelData

\* Activity of both bytes, of one, and with the bytes that are marks.
Activities == {<<0, 0>>, <<255, 255>>, <<32, 157>>, <<0, 253>>, <<16, 252>>, <<252, 0>>}

\* Levels and voltages at both ends of their ranges, battery levels on both
\* sides of "no battery"; flags and activity like a marker.
MCAnsweringDevices ==
  [kind : {"wireless"}, flags : {0, 252}, activity : Activities, level : {0, 18, 20},
   battery : {0, 10, 11, 15}]
  \cup [kind : {"wired"}, flags : {0, 252, 255}, activity : Activities]
  \cup [kind : {"bus"}, flags : {255}, activity : {<<0, 0>>, <<16, 0>>}, level : {0, 9},
        battery : {0, 9, 15}]
  \cup [kind : {"siren"}, flags : {255}, activity : {<<0, 0>>}, level : {8},
        volts : {108, 364, 588} \X {330, 567}]
=============================================================================
