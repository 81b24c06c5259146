-------------------------------- MODULE Charset --------------------------------
(***************************************************************************)
(* From UTF-8 to Complete EBU Latin: CharsetConverter                      *)
(* (src/src/charset.cpp) and the part of the UTF-8 library that it uses    *)
(* (src/src/utf8).  Texts are sequences of bytes.                          *)
(***************************************************************************)
EXTENDS Integers, SequencesExt

CODE_POINT_MAX == 1114111

is_trail(oc) == oc \div 64 = 2

is_code_point_valid(cp) == cp <= CODE_POINT_MAX /\ cp \notin 55296 .. 57343

\* 0 for a byte that begins nothing.
sequence_length(lead) ==
    CASE lead < 128          -> 1
      [] lead \div 32 = 6   -> 2
      [] lead \div 16 = 14  -> 3
      [] lead \div 8 = 30   -> 4
      [] OTHER              -> 0

\* Faulty: lets through what is too long by one byte only.
is_overlong_sequenceByTwo(cp, length) ==
    \/ cp < 128 /\ length > 2
    \/ cp < 2048 /\ length > 3

is_overlong_sequence(cp, length) ==
    \/ cp < 128 /\ length # 1
    \/ cp \in 128 .. 2047 /\ length # 2
    \/ cp \in 2048 .. 65535 /\ length # 3

\* get_sequence_1 to 4: the bits of the lead byte within 5 n + 1, six of each other.
code_point(s, i, n) ==
    CASE n = 1 -> s[i]
      [] n = 2 -> ((s[i] * 64) % 2048) + (s[i + 1] % 64)
      [] n = 3 -> ((s[i] * 4096) % 65536) + ((s[i + 1] * 64) % 4096) + (s[i + 2] % 64)
      [] n = 4 -> ((s[i] * 262144) % 2097152) + ((s[i + 1] * 4096) % 262144)
                  + ((s[i + 2] * 64) % 4096) + (s[i + 3] % 64)

\* What begins at s[i]: the length of a character, or 0 for an error of any kind.
validate_next(s, i) ==
    LET n == sequence_length(s[i])
    IN  IF /\ n # 0
           /\ i + n - 1 <= Len(s)
           /\ \A k \in i + 1 .. i + n - 1 : is_trail(s[k])
           /\ is_code_point_valid(code_point(s, i, n))
           /\ ~is_overlong_sequence(code_point(s, i, n), n)
        THEN n ELSE 0

\* The first position that is not part of a valid character.
find_invalid(s) ==
    LET after[i \in 1 .. Len(s) + 1] ==
            IF i > Len(s) THEN i
            ELSE IF validate_next(s, i) = 0 THEN i
            ELSE after[i + validate_next(s, i)]
    IN  after[1]

\* The code points of valid UTF-8; on anything else utf8::next throws.
EXCEPTION == -1

utf8to32(s) ==
    LET from[i \in 1 .. Len(s) + 1] ==
            IF i > Len(s) THEN <<>>
            ELSE LET n == validate_next(s, i)
                 IN  IF n = 0 THEN <<EXCEPTION>> ELSE <<code_point(s, i, n)>> \o from[i + n]
    IN  from[1]

\* Faulty: reads on behind the first error.
utf32lineAll(line) == utf8to32(line)

\* What convert works on, the code points up to the first error.
utf32line(line) == utf8to32(SubSeq(line, 1, find_invalid(line) - 1))

\* The code point of EBU Latin character i is m_conversion_table[i]: the table
\* begins with character CHARSET_TABLE_OFFSET, 1.
m_conversion_table == <<
    280, 302, 370, 258, 278, 270, 536, 538, 266, 10, 11, 288, 313, 379, 323,
    261, 281, 303, 371, 259, 279, 271, 537, 539, 267, 327, 282, 289, 314, 380,
    130, 32, 33, 34, 35, 322, 37, 38, 39, 40, 41, 42, 43, 44, 45, 46, 47, 48,
    49, 50, 51, 52, 53, 54, 55, 56, 57, 58, 59, 60, 61, 62, 63, 64, 65, 66, 67,
    68, 69, 70, 71, 72, 73, 74, 75, 76, 77, 78, 79, 80, 81, 82, 83, 84, 85, 86,
    87, 88, 89, 90, 91, 366, 93, 321, 95, 260, 97, 98, 99, 100, 101, 102, 103,
    104, 105, 106, 107, 108, 109, 110, 111, 112, 113, 114, 115, 116, 117, 118,
    119, 120, 121, 122, 171, 367, 187, 317, 294, 225, 224, 233, 232, 237, 236,
    243, 242, 250, 249, 209, 199, 350, 223, 161, 376, 226, 228, 234, 235, 238,
    239, 244, 246, 251, 252, 241, 231, 351, 287, 305, 255, 310, 325, 169, 290,
    286, 283, 328, 337, 336, 8364, 163, 36, 256, 274, 298, 362, 311, 326, 315,
    291, 316, 304, 324, 369, 368, 191, 318, 176, 257, 275, 299, 363, 193, 192,
    201, 200, 205, 204, 211, 210, 218, 217, 344, 268, 352, 381, 208, 319, 194,
    196, 202, 203, 206, 207, 212, 214, 219, 220, 345, 269, 353, 382, 273, 320,
    195, 197, 198, 338, 375, 221, 213, 216, 222, 330, 340, 262, 346, 377, 356,
    240, 227, 229, 230, 339, 373, 253, 245, 248, 254, 331, 341, 263, 347, 378,
    357, 295 >>

\* Faulty: forgets that the table does not begin with character 0.
ebu_charFromZero(cp) ==
    IF Contains(m_conversion_table, cp)
    THEN SelectInSeq(m_conversion_table, LAMBDA t : t = cp) - 1
    ELSE 32

\* A code point that is not in the table becomes a blank.
ebu_char(cp) ==
    IF Contains(m_conversion_table, cp)
    THEN SelectInSeq(m_conversion_table, LAMBDA t : t = cp)
    ELSE 32

convert(line) ==
    LET cps == utf32line(line) IN [i \in 1 .. Len(cps) |-> ebu_char(cps[i])]
=============================================================================
