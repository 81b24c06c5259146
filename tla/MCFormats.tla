------------------------------- MODULE MCFormats -------------------------------
(* Two independent machines checked in one run: a behaviour either writes a    *)
(* line or sends slides.  Segments of 4 bytes, slides of at most 10; sizes on  *)
(* and around multiples of 4 and the limit, every way through encodeSlide,     *)
(* parameters on each side of every limit of their lengths.  Lines of up to    *)
(* four bytes at the ends of ranges, and all lines of two bytes.               *)
EXTENDS SLSEncoder, TextLine

\* Bytes at the ends of the ranges of UTF-8; 36 is a dollar sign, 196 with 128, 144
\* or 152 and 194 begin letters that EBU Latin has and has not.
EdgeBytes == {0, 36, 127, 128, 143, 144, 159, 160, 191, 193, 194, 196, 224, 237, 240, 244, 245}

MCTextBytes == 0 .. 255

Jpg(size, at) == [q \in Qualities |-> IF q <= at THEN size ELSE size + 4]

Title(len) == [key |-> "CategoryTitle", len |-> len]
Click(len) == [key |-> "ClickThroughURL", len |-> len]
Alter(len) == [key |-> "AlternativeLocationURL", len |-> len]
Ids(a, b)  == [key |-> "CategoryID/SlideID", ids |-> <<a, b>>]

\* raw, readable, named_png, format, width, height, progressive, size, png, jpg, params
Def(raw, readable, named_png, format, w, h, progressive, size, png, jpg, params) ==
    [raw |-> raw, readable |-> readable, named_png |-> named_png, format |-> format,
     width |-> w, height |-> h, progressive |-> progressive, size |-> size,
     png |-> png, jpg |-> jpg, params |-> params]

Defs == <<
    Def(FALSE, TRUE, FALSE, "JPEG", 320, 240, FALSE, 5, 9, Jpg(7, 95), <<>>),
    Def(FALSE, TRUE, FALSE, "JPEG", 320, 240, TRUE, 5, 9, Jpg(7, 90),
        <<Title(127), Click(512), Alter(511), Ids(0, 255)>>),
    Def(FALSE, TRUE, TRUE, "PNG", 160, 240, FALSE, 10, 9, Jpg(9, 95), <<Title(128)>>),
    Def(FALSE, TRUE, TRUE, "PNG", 320, 241, FALSE, 9, 11, Jpg(10, 40), <<Title(129), Ids(1, 256)>>),
    Def(FALSE, TRUE, TRUE, "PNG", 320, 240, FALSE, 11, 11, Jpg(11, 95), <<>>),
    Def(FALSE, TRUE, TRUE, "PNG", 321, 100, FALSE, 9, 6, Jpg(6, 95), <<Title(0), Click(1), Alter(4)>>),
    Def(FALSE, TRUE, TRUE, "JPEG", 1, 1000, FALSE, 9, 3, Jpg(5, 95), <<Title(5), Click(513)>>),
    Def(FALSE, TRUE, FALSE, "GIF", 300, 200, FALSE, 2, 1, Jpg(2, 95), <<>>),
    Def(FALSE, TRUE, FALSE, "JPEG", 300, 200, FALSE, 8, 20, Jpg(8, 95), <<Click(200)>>),
    Def(FALSE, FALSE, FALSE, "JPEG", 300, 200, FALSE, 8, 20, Jpg(8, 95), <<>>),
    Def(TRUE, TRUE, FALSE, "JPEG", 300, 200, TRUE, 71, 20, Jpg(8, 95), <<>>),
    Def(TRUE, TRUE, TRUE, "PNG", 800, 600, FALSE, 12, 20, Jpg(8, 95), [i \in 1 .. 16 |-> Click(512)]),
    Def(TRUE, TRUE, FALSE, "PNG", 800, 600, FALSE, 0, 20, Jpg(8, 95), <<>>)>>

MCFiles == {Defs[i] @@ [fidx |-> i] : i \in 1 .. Len(Defs)}

\* A slide of two segments of the code's size, and one a byte shorter.
MCTwoSegments ==
    {Def(FALSE, TRUE, FALSE, "JPEG", 320, 240, FALSE, size, 9, Jpg(7, 95), <<>>)
        @@ [fidx |-> size] : size \in {2025, 2026}}

\* The exclusive or of CRC is that of Bitwise, in each pair of bytes.
Bits == INSTANCE Bitwise

ASSUME ExclusiveOr ==
    \A a, b \in 0 .. 255 : (257 * a) ^^ (257 * b) = Bits!^^(257 * a, 257 * b)

\* How a line goes on.
NextBytes == CASE Len(line) < 2                   -> TextBytes
               [] Range(line) \subseteq EdgeBytes -> EdgeBytes
               [] OTHER                           -> {}

Init == SLSInit /\ LineInit

Next ==
    \/ /\ line = <<>>
       /\ SLSNext
       /\ UNCHANGED line
    \/ /\ encoded = 0
       /\ \E byte \in NextBytes : WriteByte(byte)
       /\ UNCHANGED slsVars

Spec == Init /\ [][Next]_<<slsVars, line>>
=============================================================================
