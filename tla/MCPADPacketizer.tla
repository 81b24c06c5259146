--------------------------- MODULE MCPADPacketizer ---------------------------
(* PAD lengths around every limit: the short X-PAD, the first variable      *)
(* lengths, one, two and four sub-fields of 48 bytes, the lengths at which  *)
(* a CI list is never left out any more; data groups smaller and much       *)
(* larger than a PAD.                                                       *)
EXTENDS PADPacketizer

MCPadLens == {6} \cup (8 .. 13) \cup {16, 24, 26, 27, 50, 52, 53, 186, 187, 188, 196}
MCApps    == {[start |-> 2, cont |-> 3], [start |-> 12, cont |-> 13]}
=============================================================================
