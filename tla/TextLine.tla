------------------------------- MODULE TextLine -------------------------------
(***************************************************************************)
(* A line of a label file while somebody writes it, byte by byte.  At any  *)
(* time the encoder may read what is there, convert it (Charset) and send  *)
(* it with a CRC (CRC); the line may be cut off within a character.        *)
(***************************************************************************)
EXTENDS Charset, CRC, FiniteSetsExt

CONSTANTS TextBytes,   \* the bytes lines are made of
          MaxLine      \* bound on the length of a line (model only)

ASSUME TextBytesAssumption == TextBytes \subseteq 0 .. 255

VARIABLE line

WriteByte(byte) ==
    /\ Len(line) < MaxLine
    /\ line' = Append(line, byte)

LineInit == line = <<>>
LineNext == \E byte \in TextBytes : WriteByte(byte)
LineSpec == LineInit /\ [][LineNext]_line

-----------------------------------------------------------------------------
(***************************************************************************)
(* Properties.                                                             *)
(***************************************************************************)
\* The characters of UTF-8, by the ranges of their bytes (Unicode, table 3-7).
WellFormed(c) ==
    LET Tail80(n) == \A k \in n .. Len(c) : c[k] \in 128 .. 191
    IN  CASE Len(c) = 1 -> c[1] \in 0 .. 127
          [] Len(c) = 2 -> c[1] \in 194 .. 223 /\ Tail80(2)
          [] Len(c) = 3 -> /\ c[1] \in 224 .. 239
                           /\ c[2] \in (IF c[1] = 224 THEN 160 ELSE 128)
                                       .. (IF c[1] = 237 THEN 159 ELSE 191)
                           /\ Tail80(3)
          [] Len(c) = 4 -> /\ c[1] \in 240 .. 244
                           /\ c[2] \in (IF c[1] = 240 THEN 144 ELSE 128)
                                       .. (IF c[1] = 244 THEN 143 ELSE 191)
                           /\ Tail80(3)

\* How many characters the first n bytes are, -1 if they are no text.
Characters(s) ==
    LET count[n \in 0 .. Len(s)] ==
            IF n = 0 THEN 0
            ELSE LET k == {i \in 1 .. 4 : /\ i <= n
                                          /\ count[n - i] >= 0
                                          /\ WellFormed(SubSeq(s, n - i + 1, n))}
                 IN  IF k = {} THEN -1 ELSE count[n - Min(k)] + 1
    IN  count

\* "convert as much text as possible": what is converted is the longest part of the
\* line, from its beginning, that is UTF-8 by the standard, one character of EBU
\* Latin for each of its characters.  No overlong form, surrogate or cut character is
\* let through, none refused; and utf8::next, whose exception nobody catches, meets
\* nothing it throws on.
LongestTextConverted ==
    LET count == Characters(line)
        text  == Max({n \in 0 .. Len(line) : count[n] >= 0})
    IN  /\ find_invalid(line) = text + 1
        /\ Len(convert(line)) = count[text]
        /\ ~Contains(utf32line(line), EXCEPTION)

\* Where EBU Latin is like ASCII: everywhere but for these four.
LikeASCII == (32 .. 122) \ {36, 92, 94, 96}

\* The capital letters whose small letters EBU Latin has at a fixed distance, or that it
\* has not at all.  It has others: those left out here have irregular places.
RegularCapitals ==
    ((192 .. 222) \ {208, 215})
    \cup ({u \in 256 .. 310 : u % 2 = 0} \ {260, 272, 282, 286, 294, 304})
    \cup {313, 319, 325}
    \cup ({u \in 330 .. 374 : u % 2 = 0} \ {336, 368, 372, 374})
    \cup {376, 377, 379, 381, 536, 538}

SmallLetter(u) == IF u = 376 THEN 255 ELSE IF u < 256 THEN u + 32 ELSE u + 1

\* The vowels with common accents are in columns of their own.
PlaceOfSmall(place) ==
    CASE place = 32                                -> 32
      [] place \in 192 .. 223 /\ place % 16 < 10  -> place - 64
      [] place \in 64 .. 127                      -> place + 32
      [] OTHER                                     -> place + 16

\* The table is EBU Latin as far as ASCII and the pairs of capital and small letters tell:
\* no entry is one place off or missing, and none is there twice (CharsetConverter).
CharactersInPlace ==
    LET cps == utf32line(line)
        ebu == convert(line)
    IN  \A i \in 1 .. Len(cps) :
            /\ cps[i] \in LikeASCII => ebu[i] = cps[i]
            /\ cps[i] \in RegularCapitals
                   => ebu_char(SmallLetter(cps[i])) = PlaceOfSmall(ebu[i])
            /\ \A place \in (1 .. 255) \ {ebu[i]} : m_conversion_table[place] # cps[i]

\* A line read while it is still being written yields the beginning of what it will
\* yield later: a character that is cut is left out, it never becomes another one.
CutLineIsPrefix == [][IsPrefix(convert(line), convert(line'))]_line

\* The table-driven CRC of the line is the remainder the standard asks for: a receiver
\* that divides bit by bit accepts it.
CRCIsRemainder == CheckCRC(AppendCRC(line))
=============================================================================
