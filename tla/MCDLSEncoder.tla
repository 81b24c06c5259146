----------------------------- MODULE MCDLSEncoder -----------------------------
(* Labels of one, two and eight segments (two lines, too long together), with  *)
(* and without DL Plus, with values that are rejected and with too many tags,  *)
(* a parameter block in front of the text or behind it; read half-written, a   *)
(* block is not closed.                                                        *)
EXTENDS DLSEncoder

Line(kind, value)   == [kind |-> kind, value |-> value, size |-> 20]
TextLine(id, size)  == [kind |-> "text", value |-> id, size |-> size]
Open  == Line("open", 0)
Close == Line("close", 0)
On    == Line("DL_PLUS", 1)
Tag(start) == Line("DL_PLUS_TAG", <<4, start, 127>>)

MCContents == {
    <<TextLine("a", 21)>>,
    <<Open, On, Tag(128), Tag(0), Close, TextLine("a", 21)>>,
    <<TextLine("b", 16), Open, On, Tag(1), Tag(1), Tag(2), Tag(2), Tag(3)>>,
    <<TextLine("c", 99), TextLine("", 0), TextLine("", 1), TextLine("b", 41)>>}

MCItems == {<<Open, Line("DL_PLUS_ITEM_TOGGLE", 1), Line("DL_PLUS_ITEM_TOGGLE", 2)>>}

MCOptions ==
    [remove_dls : BOOLEAN, use_item : BOOLEAN, ucs2 : {FALSE}]
    \cup {[remove_dls |-> FALSE, use_item |-> FALSE, ucs2 |-> TRUE]}
=============================================================================
