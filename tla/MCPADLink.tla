------------------------------ MODULE MCPADLink ------------------------------
(* Labels of one and of two data groups (a command; a text of one and a half *)
(* segments), slides of two data groups, each with its length indicator; a   *)
(* data group takes up to eleven PADs, or several share one.                 *)
EXTENDS PADLink

MCPadLens == {6, 23, 58}
MCShort   == {6}
MCApps    == {DGLI, DLS, MOT}
MCLabels  == {<<4>>, <<13, 8>>}
MCSlides  == {<<8, 31>>}
MCDGSizes == {4, 8, 13, 31}
MCPayloads == 1 .. 4
=============================================================================
