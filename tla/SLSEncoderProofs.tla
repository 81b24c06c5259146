---------------------------- MODULE SLSEncoderProofs ----------------------------
(***************************************************************************)
(* Proofs about the slide encoder and its receiver, and about the segments *)
(* of a slide's body, for every MAXSEGLEN, all slides, and any number of   *)
(* data groups lost.                                                       *)
(***************************************************************************)
EXTENDS SLSEncoder, NumberProofs

-----------------------------------------------------------------------------
(***************************************************************************)
(* The segments of a slide's body.                                         *)
(***************************************************************************)
\* The quotient and the remainder of a division.
LEMMA Division ==
    ASSUME NEW n \in Nat
    PROVE  /\ n \div MAXSEGLEN \in Nat
           /\ n % MAXSEGLEN \in 0 .. MAXSEGLEN - 1
           /\ n = MAXSEGLEN * (n \div MAXSEGLEN) + (n % MAXSEGLEN)
  BY SegLenAssumption

\* A product grows with its first factor.
LEMMA Monotone ==
    ASSUME NEW i \in Nat, NEW j \in Nat, i < j
    PROVE  i * MAXSEGLEN + MAXSEGLEN <= j * MAXSEGLEN
  <1>1. i + 1 <= j
    OBVIOUS
  <1>2. (j - i - 1) * MAXSEGLEN >= 0
    BY <1>1, SegLenAssumption
  <1>3. (j - i - 1) * MAXSEGLEN = j * MAXSEGLEN - i * MAXSEGLEN - MAXSEGLEN
    BY SegLenAssumption
  <1>q. QED
    BY <1>2, <1>3, SegLenAssumption

\* No segment is longer than MAXSEGLEN, what the size field of a data group is meant
\* for (encodeSlide).
THEOREM SegmentsFit ==
    ASSUME NEW blobsize \in Nat, NEW i \in 0 .. nseg(blobsize) - 1
    PROVE  curseglen(blobsize, i) \in 0 .. MAXSEGLEN
  BY Division, SegLenAssumption DEF curseglen, lastseglen

\* The segments of a slide do not overlap (encodeSlide's curseg).
THEOREM SegmentsDisjoint ==
    ASSUME NEW blobsize \in Nat,
           NEW i \in 0 .. nseg(blobsize) - 1, NEW j \in 0 .. nseg(blobsize) - 1, i # j
    PROVE  SegmentBytes(blobsize, i) \cap SegmentBytes(blobsize, j) = {}
  <1>1. nseg(blobsize) \in Nat
    BY Division DEF nseg, lastseglen
  <1>2. ASSUME NEW a \in 0 .. nseg(blobsize) - 1, NEW b \in 0 .. nseg(blobsize) - 1, a < b
        PROVE  SegmentBytes(blobsize, a) \cap SegmentBytes(blobsize, b) = {}
    <2>1. a * MAXSEGLEN + curseglen(blobsize, a) <= b * MAXSEGLEN
      <3>1. a * MAXSEGLEN + MAXSEGLEN <= b * MAXSEGLEN
        BY <1>1, <1>2, Monotone
      <3>2. curseglen(blobsize, a) \in 0 .. MAXSEGLEN
        BY SegmentsFit
      <3>3. a * MAXSEGLEN \in Int /\ b * MAXSEGLEN \in Int
        BY <1>1, SegLenAssumption
      <3>q. QED
        BY <3>1, <3>2, <3>3, SegLenAssumption
    <2>2. a * MAXSEGLEN \in Int /\ b * MAXSEGLEN \in Int /\ curseglen(blobsize, a) \in Int
      BY <1>1, SegmentsFit, SegLenAssumption
    <2>q. QED
      BY <2>1, <2>2 DEF SegmentBytes
  <1>q. QED
    BY <1>1, <1>2

\* Unless its size is a multiple of MAXSEGLEN, every byte of a slide is in a segment,
\* and nothing else is (encodeSlide's nseg and lastseglen).
THEOREM SegmentsCover ==
    ASSUME NEW blobsize \in Nat, blobsize % MAXSEGLEN # 0
    PROVE  UNION {SegmentBytes(blobsize, i) : i \in 0 .. nseg(blobsize) - 1} = 0 .. blobsize - 1
  <1> DEFINE q == blobsize \div MAXSEGLEN
             r == blobsize % MAXSEGLEN
  <1>1. q \in Nat /\ r \in 1 .. MAXSEGLEN - 1 /\ blobsize = q * MAXSEGLEN + r
    BY Division, SegLenAssumption
  <1>2. nseg(blobsize) = q + 1
    BY <1>1 DEF nseg, lastseglen
  <1> HIDE DEF q, r
  <1>3. ASSUME NEW i \in 0 .. q, NEW x \in SegmentBytes(blobsize, i)
        PROVE  x \in 0 .. blobsize - 1
    <2>1. curseglen(blobsize, i) = IF i = q THEN r ELSE MAXSEGLEN
      BY <1>1, <1>2 DEF curseglen, lastseglen, r
    <2>2. i * MAXSEGLEN \in Nat
      BY <1>1, SegLenAssumption
    <2>3. x \in i * MAXSEGLEN .. i * MAXSEGLEN + curseglen(blobsize, i) - 1
      BY <1>3 DEF SegmentBytes
    <2>4. CASE i = q
      BY <1>1, <2>1, <2>2, <2>3, <2>4
    <2>5. CASE i # q
      <3>1. i * MAXSEGLEN + MAXSEGLEN <= q * MAXSEGLEN
        BY <1>1, <2>5, Monotone
      <3>q. QED
        BY <1>1, <2>1, <2>2, <2>3, <2>5, <3>1, SegLenAssumption
    <2>q. QED
      BY <2>4, <2>5
  <1>4. ASSUME NEW x \in 0 .. blobsize - 1
        PROVE  \E i \in 0 .. q : x \in SegmentBytes(blobsize, i)
    <2> DEFINE i == x \div MAXSEGLEN
    <2>1. i \in Nat /\ x \in i * MAXSEGLEN .. i * MAXSEGLEN + MAXSEGLEN - 1
      BY Division, SegLenAssumption
    <2> HIDE DEF i
    <2>2. i <= q
      <3>1. SUFFICES ASSUME q < i PROVE FALSE
        BY <1>1, <2>1
      <3>2. q * MAXSEGLEN + MAXSEGLEN <= i * MAXSEGLEN
        BY <1>1, <2>1, <3>1, Monotone
      <3>q. QED
        BY <1>1, <1>4, <2>1, <3>2, SegLenAssumption
    <2>3. curseglen(blobsize, i) = IF i = q THEN r ELSE MAXSEGLEN
      BY <1>1, <1>2, <2>1 DEF curseglen, lastseglen, r
    <2>4. x \in SegmentBytes(blobsize, i)
      BY <1>1, <1>4, <2>1, <2>3, SegLenAssumption DEF SegmentBytes
    <2>q. QED
      BY <2>1, <2>2, <2>4, <1>1
  <1>q. QED
    BY <1>1, <1>2, <1>3, <1>4

\* If its size is a multiple of MAXSEGLEN, the last segment is empty, and the last byte
\* of a slide is in none (encodeSlide's curseglen).
THEOREM LastBytesMissing ==
    ASSUME NEW blobsize \in Nat \ {0}, blobsize % MAXSEGLEN = 0
    PROVE  /\ SegmentBytes(blobsize, nseg(blobsize) - 1) = {}
           /\ \A i \in 0 .. nseg(blobsize) - 1 : blobsize - 1 \notin SegmentBytes(blobsize, i)
  <1> DEFINE q == blobsize \div MAXSEGLEN
  <1>1. q \in Nat \ {0} /\ blobsize = q * MAXSEGLEN
    BY Division, SegLenAssumption
  <1>2. nseg(blobsize) = q
    BY <1>1 DEF nseg, lastseglen
  <1> HIDE DEF q
  <1>3. SegmentBytes(blobsize, q - 1) = {}
    <2>1. curseglen(blobsize, q - 1) = 0
      BY <1>1, <1>2 DEF curseglen, lastseglen
    <2>q. QED
      BY <1>1, <2>1, SegLenAssumption DEF SegmentBytes
  <1>4. ASSUME NEW i \in 0 .. q - 1
        PROVE  blobsize - 1 \notin SegmentBytes(blobsize, i)
    <2>1. CASE i = q - 1
      BY <1>3, <2>1
    <2>2. CASE i # q - 1
      <3>1. i + 1 \in Nat /\ i + 1 < q
        BY <1>1, <2>2
      <3>2. (i + 1) * MAXSEGLEN + MAXSEGLEN <= q * MAXSEGLEN
        BY <1>1, <3>1, Monotone
      <3>3. (i + 1) * MAXSEGLEN = i * MAXSEGLEN + MAXSEGLEN
        BY SegLenAssumption
      <3>4. curseglen(blobsize, i) = MAXSEGLEN
        BY <1>1, <1>2, <2>2 DEF curseglen
      <3>q. QED
        BY <1>1, <3>2, <3>3, <3>4, SegLenAssumption DEF SegmentBytes
    <2>q. QED
      BY <2>1, <2>2
  <1>q. QED
    BY <1>2, <1>3, <1>4

-----------------------------------------------------------------------------
(***************************************************************************)
(* The inductive invariants.                                               *)
(***************************************************************************)
Segments(f) == nseg(Slide(f).size)
HeaderOf(f) == createMotHeader(Slide(f), f.fidx, f.params)

\* The data group of slide f with k others behind it.
Group(f, k, cindex) ==
    IF k = Segments(f)
    THEN MscDG(3, cindex, 0, TRUE, f.fidx, HeaderOf(f), HeaderOf(f).length)
    ELSE LET n == Segments(f) - 1 - k
         IN  MscDG(4, cindex, n, IsLast(Slide(f), n), f.fidx,
                   SegmentBytes(Slide(f).size, n), curseglen(Slide(f).size, n))

\* With the continuity indices it has if h and b are the next ones.
Queued(f, k, h, b) ==
    Group(f, k, IF k = Segments(f) THEN (h + 15) % 16 ELSE (b - 1 - k) % 16)

\* What is in the channel with e others behind it.
Item(f, e, h, b) ==
    IF e % 2 = 0 THEN Queued(f, e \div 2, h, b)
    ELSE CreateDataGroupLengthIndicator(Queued(f, e \div 2, h, b).size)

\* The rest of slide f is in the channel.
OnAir(f) ==
    /\ Slide(f).size # 0
    /\ Len(chan) \in 1 .. 2 * Segments(f) + 2
    /\ chan = [i \in 1 .. Len(chan) |-> Item(f, Len(chan) - i, cindex_header, cindex_body)]

HeadersLeft(f)  == IF Len(chan) > 2 * Segments(f) THEN 1 ELSE 0
SegmentsLeft(f) == IF Len(chan) > 2 * Segments(f) THEN Segments(f) ELSE (Len(chan) + 1) \div 2

\* The receiver's continuity indices lag behind by what is lost and what is left.
Counted(h, b) ==
    /\ rx.cindex[3] # -1 => (cindex_header - h + 15 - rx.cindex[3]) % 16 = gap[3] % 16
    /\ rx.cindex[4] # -1 => (cindex_body - b + 15 - rx.cindex[4]) % 16 = gap[4] % 16

TypesInv ==
    /\ cindex_header \in 0 .. 15 /\ cindex_body \in 0 .. 15
    /\ losses \in Nat
    /\ gap \in [Types -> Nat]
    /\ rx = [length |-> rx.length, cindex |-> rx.cindex, parts |-> rx.parts, got |-> rx.got]
    /\ rx.cindex \in [Types -> -1 .. 15]

ChanInv ==
    \/ chan = <<>> /\ Counted(0, 0)
    \/ \E f \in Files : OnAir(f) /\ Counted(HeadersLeft(f), SegmentsLeft(f))

\* What the receiver has collected are data groups of the slides, and what it presents
\* is a slide's header and all of its segments.
Part(f, k) == Group(f, k, 0)

Collected(parts) ==
    \A p \in parts :
        \E f \in Files : Slide(f).size # 0 /\ \E k \in 0 .. Segments(f) : p = Part(f, k)

PartsInv == Collected(rx.parts)

Whole(f) == UNION {SegmentBytes(Slide(f).size, i) : i \in 0 .. Segments(f) - 1}

GotInv ==
    \A o \in rx.got :
        \E f \in Files :
            /\ Slide(f).size # 0
            /\ o.tid = f.fidx /\ o.header = {HeaderOf(f)} /\ o.body = Whole(f)

\* Without losses the receiver has all of the slide that is not in the channel.
Received(f) ==
    losses = 0 =>
        /\ rx.parts = {Part(f, k) : k \in (Len(chan) + 1) \div 2 .. Segments(f)}
        /\ Len(chan) % 2 = 1 => rx.length = Part(f, Len(chan) \div 2).size

CompleteInv ==
    \/ chan = <<>> /\ (losses = 0 => rx.parts = {})
    \/ \E f \in Files : OnAir(f) /\ Received(f)

\* Slides fit the fields for their size and for the numbers of their segments.
SlidesFit == \A f \in Files : Slide(f).size < 2 ^ 28 /\ Segments(f) <= 2 ^ 15

\* Data groups fit the length indicator.
GroupsFit ==
    /\ MAXSEGLEN + 11 < 2 ^ 14
    /\ \A f \in Files : HeaderOf(f).length + 11 < 2 ^ 14

-----------------------------------------------------------------------------
(***************************************************************************)
(* The picture and the header.                                             *)
(***************************************************************************)
LEMMA QualityChosen ==
    ASSUME NEW T \in SUBSET Qualities
    PROVE  Max(T \cup {MINQUALITY}) \in Qualities
<1> DEFINE U == T \cup {MINQUALITY}
           V == {95 - q : q \in U}
<1>1. U \subseteq Qualities /\ U # {} /\ Qualities \subseteq 0 .. 95
    BY DEF Qualities, MINQUALITY
<1>2. V \in SUBSET Nat /\ V # {}
    BY <1>1
<1>3. PICK v \in V : \A w \in V : v <= w
    BY <1>2, Smallest
<1>4. PICK m \in U : v = 95 - m
    BY <1>3
<1>5. \A q \in U : m >= q
    <2> SUFFICES ASSUME NEW q \in U PROVE m >= q
        OBVIOUS
    <2>1. 95 - q \in V
        OBVIOUS
    <2>2. m \in 0 .. 95 /\ q \in 0 .. 95
        BY <1>1, <1>4
    <2> HIDE DEF V, U
    <2> QED
        BY <1>3, <1>4, <2>1, <2>2
<1> HIDE DEF V
<1>6. Max(U) \in U
    BY <1>4, <1>5 DEF Max
<1> QED
    BY <1>1, <1>6

LEMMA JpgSize ==
    ASSUME NEW f \in Files
    PROVE  f.jpg[Max({q \in Qualities : f.jpg[q] <= max_slide_size} \cup {MINQUALITY})] \in Nat
<1>1. {q \in Qualities : f.jpg[q] <= max_slide_size} \in SUBSET Qualities
    OBVIOUS
<1> QED
    BY <1>1, QualityChosen, FilesAssumption

\* A slide that is not raw is within the limit, and known by the format it has.
LEMMA SlideOK ==
    ASSUME NEW f \in Files
    PROVE  /\ Slide(f).size \in Nat
           /\ ~f.raw /\ Slide(f).size # 0 =>
                  /\ Slide(f).size <= max_slide_size
                  /\ f.progressive => ~Slide(f).asis
                  /\ Slide(f).content = IF Slide(f).jfif THEN "JPEG" ELSE "PNG"
                  /\ \/ Slide(f).width <= 320 /\ Slide(f).height <= 240
                     \/ Slide(f).width = Scaled(f).width /\ Slide(f).height = Scaled(f).height
<1> DEFINE jpg == f.jpg[Max({q \in Qualities : f.jpg[q] <= max_slide_size} \cup {MINQUALITY})]
<1>1. jpg \in Nat
    BY JpgSize
<1>2. f.png \in Nat /\ f.size \in Nat /\ max_slide_size \in Nat
    BY FilesAssumption
<1>3. resizeImage(f) =
        IF TooLarge(f.png, jpg) THEN NoSlide
        ELSE [size |-> IF jpg < f.png THEN jpg ELSE f.png, jfif |-> jpg < f.png,
              content |-> IF jpg < f.png THEN "JPEG" ELSE "PNG", asis |-> FALSE,
              width |-> Scaled(f).width, height |-> Scaled(f).height]
    BY DEF resizeImage
<1> HIDE DEF jpg
<1>4. CASE ~f.readable
    BY <1>4 DEF Slide, NoSlide
<1>5. CASE f.readable /\ f.raw
    BY <1>2, <1>5 DEF Slide
<1>6. CASE f.readable /\ ~f.raw /\ NoResizeNeeded(f)
    BY <1>2, <1>6 DEF Slide, NoResizeNeeded
<1>7. CASE f.readable /\ ~f.raw /\ ~NoResizeNeeded(f)
    <2>1. Slide(f) = resizeImage(f)
        BY <1>7 DEF Slide
    <2>2. CASE TooLarge(f.png, jpg)
        BY <1>3, <2>1, <2>2 DEF NoSlide
    <2>3. CASE ~TooLarge(f.png, jpg)
        <3>1. f.png <= max_slide_size \/ jpg <= max_slide_size
            BY <1>1, <1>2, <2>3 DEF TooLarge
        <3> DEFINE smaller == jpg < f.png
        <3>2. smaller \in BOOLEAN
            OBVIOUS
        <3>3. (IF smaller THEN jpg ELSE f.png) \in 0 .. max_slide_size
            BY <1>1, <1>2, <3>1
        <3>4. Slide(f) =
                [size |-> IF smaller THEN jpg ELSE f.png, jfif |-> smaller,
                 content |-> IF smaller THEN "JPEG" ELSE "PNG", asis |-> FALSE,
                 width |-> Scaled(f).width, height |-> Scaled(f).height]
            BY <1>3, <2>1, <2>3
        <3> HIDE DEF smaller
        <3>5. /\ Slide(f).size = (IF smaller THEN jpg ELSE f.png) /\ Slide(f).asis = FALSE
              /\ Slide(f).jfif = smaller
              /\ Slide(f).content = (IF smaller THEN "JPEG" ELSE "PNG")
              /\ Slide(f).width = Scaled(f).width /\ Slide(f).height = Scaled(f).height
            BY <3>4
        <3>6. Slide(f).size \in 0 .. max_slide_size
            BY <3>3, <3>5
        <3> QED
            BY <1>2, <3>2, <3>5, <3>6
    <2> QED
        BY <2>2, <2>3
<1> QED
    BY <1>4, <1>5, <1>6, <1>7

LEMMA Quotient ==
    ASSUME NEW a \in Nat, NEW b \in Nat \ {0}, NEW c \in Nat, a <= c * b
    PROVE  a \div b <= c
OBVIOUS

LEMMA QuotientPositive ==
    ASSUME NEW a \in Nat, NEW b \in Nat \ {0}, b <= a
    PROVE  a \div b > 0
OBVIOUS

\* Scaling makes a picture fit, unless it would vanish.
LEMMA ScaledOK ==
    ASSUME NEW f \in Files, f.height <= 240 * f.width, f.width <= 320 * f.height
    PROVE  Scaled(f).width <= 320 /\ Scaled(f).height <= 240
<1>1. f.width \in Nat \ {0} /\ f.height \in Nat \ {0}
    BY FilesAssumption
<1>2. CASE f.height * 320 > f.width * 240
    <2>1. (f.width * 240) \div f.height <= 320
        BY <1>1, <1>2, Quotient
    <2>2. (f.width * 240) \div f.height > 0
        BY <1>1, QuotientPositive
    <2> QED
        BY <1>1, <1>2, <2>1, <2>2 DEF Scaled
<1>3. CASE ~(f.height * 320 > f.width * 240)
    <2>1. (f.height * 320) \div f.width <= 240
        BY <1>1, <1>3, Quotient
    <2>2. (f.height * 320) \div f.width > 0
        BY <1>1, QuotientPositive
    <2> QED
        BY <1>1, <1>3, <2>1, <2>2 DEF Scaled
<1> QED
    BY <1>2, <1>3

\* A header under construction: what is written, what is counted and what a receiver
\* would find are the same.
Under(bs, st) ==
    {h \in [body_size : {bs}, header_size : Nat, subtype : {st}, exts : Seq(Nat),
            length : Nat, parsed : Nat] :
        h.header_size = h.length /\ h.parsed = h.length}

LEMMA LengthCoded ==
    ASSUME NEW len \in 0 .. 512
    PROVE  LengthBytes(len) \in 0 .. 2 /\ CodedLength(len) = len
<1>1. CASE len \in {0, 1, 4}
    BY <1>1 DEF LengthBytes, CodedLength
<1>2. CASE len \notin {0, 1, 4} /\ len <= 127
    BY <1>2 DEF LengthBytes, CodedLength
<1>3. CASE len > 127
    BY <1>3 DEF LengthBytes, CodedLength
<1> QED
    BY <1>1, <1>2, <1>3

IsHeader(h) ==
    h = [body_size |-> h.body_size, header_size |-> h.header_size, subtype |-> h.subtype,
         exts |-> h.exts, length |-> h.length, parsed |-> h.parsed]

LEMMA Extended ==
    ASSUME NEW h, NEW id, NEW len, IsHeader(h)
    PROVE  AddExtension(h, id, len) =
               [body_size |-> h.body_size,
                header_size |-> h.header_size + (1 + LengthBytes(len) + len),
                subtype |-> h.subtype,
                exts |-> Append(h.exts, id),
                length |-> h.length + (1 + LengthBytes(len) + len),
                parsed |-> h.parsed + (1 + LengthBytes(len) + CodedLength(len))]
<1> DEFINE e == Append(h.exts, id)
           l == h.length + (1 + LengthBytes(len) + len)
           s == h.header_size + (1 + LengthBytes(len) + len)
           p == h.parsed + (1 + LengthBytes(len) + CodedLength(len))
           h1 == [h EXCEPT !.exts = e]
           h2 == [h1 EXCEPT !.length = l]
           h3 == [h2 EXCEPT !.header_size = s]
           h4 == [h3 EXCEPT !.parsed = p]
<1>1. AddExtension(h, id, len) = h4
    BY DEF AddExtension
<1> HIDE DEF e, l, s, p
<1>2. h1 = [body_size |-> h.body_size, header_size |-> h.header_size, subtype |-> h.subtype,
            exts |-> e, length |-> h.length, parsed |-> h.parsed]
    BY DEF IsHeader
<1> HIDE DEF h1
<1>3. h2 = [body_size |-> h.body_size, header_size |-> h.header_size, subtype |-> h.subtype,
            exts |-> e, length |-> l, parsed |-> h.parsed]
    BY <1>2
<1> HIDE DEF h2
<1>4. h3 = [body_size |-> h.body_size, header_size |-> s, subtype |-> h.subtype,
            exts |-> e, length |-> l, parsed |-> h.parsed]
    BY <1>3
<1> HIDE DEF h3
<1>5. h4 = [body_size |-> h.body_size, header_size |-> s, subtype |-> h.subtype,
            exts |-> e, length |-> l, parsed |-> p]
    BY <1>4
<1> QED
    BY <1>1, <1>5 DEF e, l, s, p

LEMMA ExtensionOK ==
    ASSUME NEW bs, NEW st, NEW h \in Under(bs, st), NEW id \in Nat, NEW len \in 0 .. 512
    PROVE  AddExtension(h, id, len) \in Under(bs, st)
<1> DEFINE n == 1 + LengthBytes(len) + len
<1>1. n \in Nat /\ CodedLength(len) = len
    BY LengthCoded
<1>2. /\ h.header_size \in Nat /\ h.length = h.header_size /\ h.parsed = h.header_size
      /\ h.exts \in Seq(Nat) /\ h.body_size = bs /\ h.subtype = st
      /\ h = [body_size |-> h.body_size, header_size |-> h.header_size, subtype |-> h.subtype,
              exts |-> h.exts, length |-> h.length, parsed |-> h.parsed]
    BY DEF Under
<1>3. AddExtension(h, id, len) =
        [body_size |-> bs, header_size |-> h.header_size + n, subtype |-> st,
         exts |-> Append(h.exts, id), length |-> h.header_size + n, parsed |-> h.header_size + n]
    <2>1. AddExtension(h, id, len) =
            [body_size |-> h.body_size, header_size |-> h.header_size + n, subtype |-> h.subtype,
             exts |-> Append(h.exts, id), length |-> h.length + n,
             parsed |-> h.parsed + (1 + LengthBytes(len) + CodedLength(len))]
        BY <1>2, Extended DEF IsHeader
    <2> QED
        BY <1>1, <1>2, <2>1
<1>4. Append(h.exts, id) \in Seq(Nat)
    BY <1>2
<1> HIDE DEF n
<1> QED
    BY <1>1, <1>2, <1>3, <1>4 DEF Under

LEMMA ParamOK ==
    ASSUME NEW bs, NEW st, NEW h \in Under(bs, st), NEW param,
           param.key \in DOMAIN ParamId => param.len \in Nat
    PROVE  AddParam(h, param) \in Under(bs, st)
<1>1. CASE param.key = "CategoryID/SlideID"
    BY <1>1, ExtensionOK DEF AddParam
<1>2. CASE /\ param.key # "CategoryID/SlideID"
           /\ param.key \in DOMAIN ParamId /\ param.len <= LengthMax[param.key]
    <2>1. param.key \in {"CategoryTitle", "ClickThroughURL", "AlternativeLocationURL"}
        BY <1>2 DEF ParamId
    <2>2. ParamId[param.key] \in Nat /\ LengthMax[param.key] \in {128, 512}
        BY <2>1 DEF ParamId, LengthMax
    <2>3. param.len \in 0 .. 512
        BY <1>2, <2>2
    <2>4. AddParam(h, param) = AddExtension(h, ParamId[param.key], param.len)
        BY <1>2, Zenon DEF AddParam
    <2>5. AddExtension(h, ParamId[param.key], param.len) \in Under(bs, st)
        <3> DEFINE id == ParamId[param.key]
                   len == param.len
        <3>1. id \in Nat /\ len \in 0 .. 512
            BY <2>2, <2>3
        <3> HIDE DEF id, len
        <3>2. AddExtension(h, id, len) \in Under(bs, st)
            BY <3>1, ExtensionOK
        <3> QED
            BY <3>2 DEF id, len
    <2> QED
        BY <2>4, <2>5
<1>3. CASE /\ param.key # "CategoryID/SlideID"
           /\ ~(param.key \in DOMAIN ParamId /\ param.len <= LengthMax[param.key])
    BY <1>3 DEF AddParam
<1> QED
    BY <1>1, <1>2, <1>3

\* The headers while the parameters are added to the first one.
Adds(params, fixed, added) ==
    added = [n \in 0 .. Len(params) |->
                IF n = 0 THEN fixed ELSE AddParam(added[n - 1], params[n])]

LEMMA AddsOK ==
    ASSUME NEW bs, NEW st, NEW fixed \in Under(bs, st), NEW params, Len(params) \in Nat,
           \A i \in 1 .. Len(params) :
               params[i].key \in DOMAIN ParamId => params[i].len \in Nat
    PROVE  (CHOOSE added : Adds(params, fixed, added))[Len(params)] \in Under(bs, st)
<1> DEFINE N == Len(params)
           V == Under(bs, st)
           step == [n \in 1 .. N |-> [h \in V |-> AddParam(h, params[n])]]
           added == CHOOSE a : Adds(params, fixed, a)
<1>1. \A n \in 1 .. N, h \in V : AddParam(h, params[n]) \in V
    BY ParamOK
<1> HIDE DEF V
<1>2. StepsWithin(step, N, V)
    BY <1>1 DEF StepsWithin
<1>3. fixed \in V /\ N \in Nat
    BY DEF V
<1>4. PICK g : Follows(g, N, V, fixed, step)
    <2> HIDE DEF step, N
    <2> QED
        BY <1>2, <1>3, Recursion
<1>5. \A n \in 1 .. N : g[n] = AddParam(g[n - 1], params[n])
    <2> SUFFICES ASSUME NEW n \in 1 .. N PROVE g[n] = AddParam(g[n - 1], params[n])
        OBVIOUS
    <2>1. n - 1 \in 0 .. N
        OBVIOUS
    <2>2. g[n - 1] \in V
        BY <1>4, <2>1 DEF Follows
    <2> QED
        BY <1>4, <2>2 DEF Follows
<1>6. Adds(params, fixed, g)
    <2>1. g = [n \in 0 .. N |-> g[n]]
        BY <1>4 DEF Follows
    <2>2. \A n \in 0 .. N : g[n] = IF n = 0 THEN fixed ELSE AddParam(g[n - 1], params[n])
        BY <1>4, <1>5 DEF Follows
    <2> QED
        BY <2>1, <2>2 DEF Adds
<1>7. Adds(params, fixed, added)
    BY <1>6
<1> HIDE DEF added
<1>8. \A n \in 0 .. N : added[n] = IF n = 0 THEN fixed ELSE AddParam(added[n - 1], params[n])
    BY <1>7 DEF Adds
<1>9. \A n \in 0 .. N : added[n] \in V
    <2> DEFINE P == {n \in 0 .. N : added[n] \in V}
    <2>1. 0 \in P
        BY <1>3, <1>8
    <2>2. ASSUME NEW n \in 0 .. N - 1, n \in P PROVE n + 1 \in P
        BY <1>1, <1>3, <1>8, <2>2
    <2>3. \A n \in 0 .. N : n \in P
        <3> HIDE DEF P, N
        <3> QED
            BY <1>3, <2>1, <2>2, Induction
    <2> QED
        BY <2>3
<1> QED
    BY <1>3, <1>9 DEF V, added

\* A header is as long as it says, as far as its field goes, and leads a receiver to its end.
LEMMA HeaderOK ==
    ASSUME NEW f \in Files
    PROVE  LET h == HeaderOf(f)
           IN  /\ h.length \in Nat
               /\ h.header_size = h.length % 2 ^ 13
               /\ h.parsed = h.length
               /\ h.body_size = Slide(f).size % 2 ^ 28
               /\ h.subtype = (IF Slide(f).jfif THEN 1 ELSE 3)
               /\ h.name = <<f.fidx, IF Slide(f).jfif THEN "jpg" ELSE "png">>
<1> DEFINE s == Slide(f)
           bs == s.size % 2 ^ 28
           st == IF s.jfif THEN 1 ELSE 3
           bare == MOTHeader(s.size, s.jfif)
           fixed == AddExtension(AddExtension(bare, 5, 4), 12, 9)
           added == CHOOSE a : Adds(f.params, fixed, a)
           all == added[Len(f.params)]
<1>1. bare \in Under(bs, st)
    BY DEF MOTHeader, Under
<1>2. fixed \in Under(bs, st)
    <2> HIDE DEF bare, bs, st
    <2>1. AddExtension(bare, 5, 4) \in Under(bs, st)
        BY <1>1, ExtensionOK
    <2> QED
        BY <2>1, ExtensionOK
<1>3. all \in Under(bs, st)
    <2> HIDE DEF fixed, bs, st
    <2> QED
        BY <1>2, AddsOK, FilesAssumption
<1>4. HeaderOf(f) =
        [body_size |-> all.body_size, header_size |-> all.header_size % 2 ^ 13,
         subtype |-> all.subtype, name |-> <<f.fidx, IF s.jfif THEN "jpg" ELSE "png">>,
         exts |-> all.exts, length |-> all.length, parsed |-> all.parsed]
    BY DEF HeaderOf, createMotHeader, Adds
<1> HIDE DEF all, bs, st
<1>5. /\ all.length \in Nat /\ all.header_size = all.length /\ all.parsed = all.length
      /\ all.body_size = bs /\ all.subtype = st
    BY <1>3 DEF Under
<1> QED
    BY <1>4, <1>5 DEF bs, st

-----------------------------------------------------------------------------
(***************************************************************************)
(* The data groups of a slide and their way through the channel.           *)
(***************************************************************************)
LEMMA SegmentsOK ==
    ASSUME NEW f \in Files
    PROVE  /\ Segments(f) \in Nat
           /\ Slide(f).size # 0 => Segments(f) # 0
           /\ \A i \in 0 .. Segments(f) - 1 : curseglen(Slide(f).size, i) \in 0 .. MAXSEGLEN
<1> DEFINE n == Slide(f).size
<1>1. n \in Nat
    BY SlideOK
<1>2. Segments(f) = nseg(n)
    BY DEF Segments
<1> HIDE DEF n
<1>3. nseg(n) \in Nat /\ (n # 0 => nseg(n) # 0)
    <2> DEFINE q == n \div MAXSEGLEN
               m == n % MAXSEGLEN
    <2>1. q \in Nat /\ m \in Nat /\ n = MAXSEGLEN * q + m
        BY <1>1, Division, SegLenAssumption
    <2>2. nseg(n) = q + (IF m # 0 THEN 1 ELSE 0)
        BY DEF nseg, lastseglen
    <2> HIDE DEF q, m
    <2>3. q = 0 /\ m = 0 => n = 0
        BY <2>1, SegLenAssumption
    <2> QED
        BY <2>1, <2>2, <2>3
<1>4. \A i \in 0 .. nseg(n) - 1 : curseglen(n, i) \in 0 .. MAXSEGLEN
    BY <1>1, SegmentsFit
<1> QED
    BY <1>2, <1>3, <1>4 DEF n

LEMMA GroupOK ==
    ASSUME NEW f \in Files, NEW k \in 0 .. Segments(f), NEW c
    PROVE  LET g == Group(f, k, c)
           IN  /\ g.kind = "msc" /\ g.cindex = c /\ g.tid = f.fidx
               /\ g.dgtype = (IF k = Segments(f) THEN 3 ELSE 4)
               /\ g.size \in Nat /\ g.size = Part(f, k).size
               /\ [g EXCEPT !.cindex = 0] = Part(f, k)
<1>1. Segments(f) \in Nat
    BY SegmentsOK
<1>2. CASE k = Segments(f)
    <2> DEFINE h == HeaderOf(f)
               len == h.length
               last == TRUE
    <2>1. len \in Nat
        BY HeaderOK
    <2>2. \A d : Group(f, k, d) = MscDG(3, d, 0, last, f.fidx, h, len)
        BY <1>2 DEF Group
    <2> HIDE DEF h, len, last
    <2> QED
        BY <1>2, <2>1, <2>2 DEF Part, MscDG
<1>3. CASE k # Segments(f)
    <2> DEFINE n == Segments(f) - 1 - k
               len == curseglen(Slide(f).size, n)
               last == IsLast(Slide(f), n)
               data == SegmentBytes(Slide(f).size, n)
    <2>1. len \in Nat /\ n \in Nat
        BY <1>1, <1>3, SegmentsOK, SegLenAssumption
    <2>2. \A d : Group(f, k, d) = MscDG(4, d, n, last, f.fidx, data, len)
        BY <1>3 DEF Group
    <2> HIDE DEF n, len, last, data
    <2> QED
        BY <1>3, <2>1, <2>2 DEF Part, MscDG
<1> QED
    BY <1>2, <1>3

\* What encodeSlide makes of a slide, from the first data group to the last.
LEMMA MscDGsOK ==
    ASSUME NEW f \in Files, cindex_header \in 0 .. 15, cindex_body \in 0 .. 15
    PROVE  LET dgs == MscDGs(f, Slide(f))
               N   == Segments(f)
           IN  /\ Len(dgs) = N + 1
               /\ \A j \in 1 .. N + 1 :
                     dgs[j] = Queued(f, N + 1 - j, (cindex_header + 1) % 16, (cindex_body + N) % 16)
<1> DEFINE N == Segments(f)
           X == MscDG(3, cindex_header, 0, TRUE, f.fidx, HeaderOf(f), HeaderOf(f).length)
           Y(n) == MscDG(4, (cindex_body + (n - 1)) % 16, n - 1, IsLast(Slide(f), n - 1), f.fidx,
                         SegmentBytes(Slide(f).size, n - 1), curseglen(Slide(f).size, n - 1))
           dgs == MscDGs(f, Slide(f))
           H == (cindex_header + 1) % 16
           B == (cindex_body + N) % 16
<1>1. N \in Nat
    BY SegmentsOK
<1>2. dgs = <<X>> \o [n \in 1 .. N |-> Y(n)]
    BY DEF MscDGs, advance, Segments, HeaderOf
<1>3. X = Queued(f, N, H, B)
    <2>1. (H + 15) % 16 = cindex_header
        OBVIOUS
    <2> HIDE DEF H, B
    <2> QED
        BY <2>1 DEF Queued, Group
<1>4. ASSUME NEW n \in 1 .. N PROVE Y(n) = Queued(f, N - n, H, B)
    <2>1. N - n # N /\ N - 1 - (N - n) = n - 1
        BY <1>1
    <2>2. (B - 1 - (N - n)) % 16 = (cindex_body + (n - 1)) % 16
        BY <1>1
    <2> HIDE DEF H, B, N
    <2> QED
        BY <2>1, <2>2 DEF Queued, Group, N
<1> HIDE DEF X, Y, H, B, dgs
<1> DEFINE ys == [n \in 1 .. N |-> Y(n)]
<1>5. ys \in Seq(Range(ys)) /\ Len(ys) = N /\ \A n \in 1 .. N : ys[n] = Y(n)
    BY <1>1 DEF Range
<1> HIDE DEF ys
<1>6. Len(dgs) = N + 1 /\ \A j \in 1 .. N + 1 : dgs[j] = IF j = 1 THEN X ELSE Y(j - 1)
    BY <1>1, <1>2, <1>5 DEF ys
<1>7. ASSUME NEW j \in 1 .. N + 1 PROVE dgs[j] = Queued(f, N + 1 - j, H, B)
    <2>1. CASE j = 1
        <3>1. N + 1 - j = N
            BY <1>1, <2>1
        <3> QED
            BY <1>3, <1>6, <2>1, <3>1
    <2>2. CASE j # 1
        <3>1. j - 1 \in 1 .. N /\ N - (j - 1) = N + 1 - j
            BY <1>1, <2>2
        <3> QED
            BY <1>4, <1>6, <2>2, <3>1
    <2> QED
        BY <2>1, <2>2
<1> QED
    BY <1>6, <1>7 DEF dgs, H, B

LEMMA EncodeStep ==
    ASSUME TypesInv, NEW f \in Files, encodeSlide(f), Slide(f).size # 0
    PROVE  OnAir(f)' /\ Len(chan)' = 2 * Segments(f) + 2
<1> DEFINE N == Segments(f)
           dgs == MscDGs(f, Slide(f))
           at(i) == IF i % 2 = 1 THEN CreateDataGroupLengthIndicator(dgs[(i + 1) \div 2].size)
                    ELSE dgs[i \div 2]
<1>1. N \in Nat
    BY SegmentsOK
<1>2. /\ Len(dgs) = N + 1
      /\ \A j \in 1 .. N + 1 : dgs[j] = Queued(f, N + 1 - j, cindex_header', cindex_body')
      /\ chan' = [i \in 1 .. 2 * Len(dgs) |-> at(i)]
    <2>1. cindex_header' = (cindex_header + 1) % 16 /\ cindex_body' = (cindex_body + N) % 16
        BY DEF encodeSlide, advance, Segments
    <2>2. chan' = [i \in 1 .. 2 * Len(dgs) |-> at(i)]
        BY DEF encodeSlide
    <2> QED
        BY <2>1, <2>2, MscDGsOK DEF TypesInv
<1> HIDE DEF dgs
<1>3. Len(chan') = 2 * N + 2
    BY <1>1, <1>2
<1>4. ASSUME NEW i \in 1 .. 2 * N + 2
      PROVE  at(i) = Item(f, 2 * N + 2 - i, cindex_header', cindex_body')
    <2>1. CASE i % 2 = 1
        <3>1. /\ (i + 1) \div 2 \in 1 .. N + 1 /\ (2 * N + 2 - i) % 2 # 0
              /\ (2 * N + 2 - i) \div 2 = N + 1 - ((i + 1) \div 2)
            BY <1>1, <2>1
        <3> QED
            BY <1>2, <2>1, <3>1 DEF Item
    <2>2. CASE i % 2 # 1
        <3>1. /\ i \div 2 \in 1 .. N + 1 /\ (2 * N + 2 - i) % 2 = 0
              /\ (2 * N + 2 - i) \div 2 = N + 1 - (i \div 2)
            BY <1>1, <2>2
        <3> QED
            BY <1>2, <2>2, <3>1 DEF Item
    <2> QED
        BY <2>1, <2>2
<1> HIDE DEF at
<1>5. chan' = [i \in 1 .. Len(chan') |-> Item(f, Len(chan') - i, cindex_header', cindex_body')]
    BY <1>1, <1>2, <1>3, <1>4
<1> QED
    BY <1>1, <1>3, <1>5 DEF OnAir

\* The next thing in the channel, and what remains without it.
LEMMA TailStep ==
    ASSUME NEW f \in Files, OnAir(f), chan' = Tail(chan),
           cindex_header' = cindex_header, cindex_body' = cindex_body
    PROVE  /\ Head(chan) = Item(f, Len(chan) - 1, cindex_header, cindex_body)
           /\ Len(chan') = Len(chan) - 1
           /\ chan' = <<>> \/ OnAir(f)'
           /\ chan' = <<>> <=> Len(chan) = 1
<1> DEFINE L == Len(chan)
           it(e) == Item(f, e, cindex_header, cindex_body)
<1>1. Segments(f) \in Nat /\ L \in 1 .. 2 * Segments(f) + 2
    BY SegmentsOK DEF OnAir
<1>2. chan = [i \in 1 .. L |-> it(L - i)]
    BY DEF OnAir
<1> HIDE DEF it, L
<1>3. Len(chan) = L
    BY <1>1, <1>2
<1>4. chan \in Seq(Range(chan)) /\ chan # <<>>
    <2>1. \A i \in 1 .. L : chan[i] \in Range(chan)
        BY <1>1, <1>2 DEF Range
    <2> QED
        BY <1>1, <1>2, <1>3, <2>1
<1>5. Head(chan) = it(L - 1)
    BY <1>1, <1>2, <1>4
<1>6. chan' = [i \in 1 .. L - 1 |-> it(L - 1 - i)]
    <2>1. Len(chan') = L - 1 /\ chan' \in Seq(Range(chan)) /\ \A i \in 1 .. L - 1 : chan'[i] = chan[i + 1]
        BY <1>1, <1>3, <1>4
    <2>2. \A i \in 1 .. L - 1 : chan'[i] = it(L - 1 - i)
        BY <1>1, <1>2, <2>1
    <2>3. chan' = [i \in 1 .. L - 1 |-> chan'[i]]
        BY <2>1, LenProperties
    <2> QED
        BY <2>2, <2>3
<1>7. Len(chan') = L - 1
    BY <1>1, <1>3, <1>4
<1>8. chan' = <<>> <=> L = 1
    BY <1>1, <1>6, <1>7
<1>9. chan' = [i \in 1 .. Len(chan') |-> it(Len(chan') - i)]
    BY <1>6, <1>7
<1>10. /\ Head(chan) = Item(f, L - 1, cindex_header, cindex_body)
       /\ chan' = [i \in 1 .. Len(chan') |-> Item(f, Len(chan') - i, cindex_header', cindex_body')]
    BY <1>5, <1>9 DEF it
<1>11. chan' = <<>> \/ OnAir(f)'
    <2>1. chan' # <<>> => Len(chan') \in 1 .. 2 * Segments(f) + 2
        BY <1>1, <1>7, <1>8
    <2>2. Slide(f).size # 0
        BY DEF OnAir
    <2> QED
        BY <1>10, <2>1, <2>2, Zenon DEF OnAir
<1> QED
    BY <1>3, <1>7, <1>8, <1>10, <1>11

\* What is first in the channel: a length indicator or a data group, in turn.
LEMMA HeadOK ==
    ASSUME NEW f \in Files, OnAir(f)
    PROVE  LET k == Len(chan) \div 2
               d == Head(chan)
           IN  /\ Len(chan) \in Nat \ {0} /\ chan # <<>>
               /\ Len(chan) % 2 = 0 => /\ d.kind = "dgli"
                                       /\ k - 1 \in 0 .. Segments(f)
                                       /\ d.len = Part(f, k - 1).size % 2 ^ 14
               /\ Len(chan) % 2 = 1 => /\ k \in 0 .. Segments(f)
                                       /\ d.kind = "msc" /\ d.tid = f.fidx
                                       /\ d.size = Part(f, k).size
                                       /\ [d EXCEPT !.cindex = 0] = Part(f, k)
                                       /\ d.dgtype = (IF k = Segments(f) THEN 3 ELSE 4)
                                       /\ d.cindex = (IF k = Segments(f) THEN (cindex_header + 15) % 16
                                                      ELSE (cindex_body - 1 - k) % 16)
<1> DEFINE L == Len(chan)
           d == Head(chan)
           ci(k) == IF k = Segments(f) THEN (cindex_header + 15) % 16 ELSE (cindex_body - 1 - k) % 16
<1>1. Segments(f) \in Nat /\ L \in 1 .. 2 * Segments(f) + 2 /\ L \in Nat
    BY SegmentsOK DEF OnAir
<1>2. d = Item(f, L - 1, cindex_header, cindex_body)
    <2>1. chan = [i \in 1 .. L |-> Item(f, L - i, cindex_header, cindex_body)]
        BY DEF OnAir
    <2> DEFINE it(e) == Item(f, e, cindex_header, cindex_body)
    <2> HIDE DEF it, L
    <2>2. chan = [i \in 1 .. L |-> it(L - i)]
        BY <2>1 DEF it
    <2>3. chan[1] = it(L - 1)
        BY <1>1, <2>2
    <2>4. d = chan[1]
        OBVIOUS
    <2> QED
        BY <2>3, <2>4 DEF it
<1>3. chan # <<>>
    BY <1>1
<1> HIDE DEF L, d
<1>4. CASE L % 2 = 0
    <2>1. (L - 1) % 2 # 0 /\ (L - 1) \div 2 = (L \div 2) - 1 /\ (L \div 2) - 1 \in 0 .. Segments(f)
        BY <1>1, <1>4
    <2>2. d = CreateDataGroupLengthIndicator(Queued(f, (L \div 2) - 1, cindex_header, cindex_body).size)
        BY <1>2, <2>1 DEF Item
    <2>3. Queued(f, (L \div 2) - 1, cindex_header, cindex_body).size = Part(f, (L \div 2) - 1).size
        BY <2>1, GroupOK DEF Queued
    <2>4. d = [kind |-> "dgli", len |-> Part(f, (L \div 2) - 1).size % 2 ^ 14]
        BY <2>2, <2>3 DEF CreateDataGroupLengthIndicator
    <2>5. L % 2 # 1
        BY <1>4
    <2> QED
        BY <1>1, <1>3, <2>1, <2>4, <2>5 DEF L, d
<1>5. CASE L % 2 # 0
    <2>1. (L - 1) % 2 = 0 /\ (L - 1) \div 2 = L \div 2 /\ L \div 2 \in 0 .. Segments(f)
        BY <1>1, <1>5
    <2>2. d = Group(f, L \div 2, ci(L \div 2))
        BY <1>2, <2>1 DEF Item, Queued
    <2> DEFINE k == L \div 2
               c == ci(k)
    <2>3. /\ d.kind = "msc" /\ d.tid = f.fidx /\ d.size = Part(f, k).size
          /\ [d EXCEPT !.cindex = 0] = Part(f, k)
          /\ d.dgtype = (IF k = Segments(f) THEN 3 ELSE 4)
          /\ d.cindex = c
        <3> HIDE DEF k, c
        <3>1. k \in 0 .. Segments(f) /\ d = Group(f, k, c)
            BY <2>1, <2>2 DEF k, c
        <3> QED
            BY <3>1, GroupOK
    <2> QED
        BY <1>1, <1>3, <1>5, <2>1, <2>3 DEF L, d
<1> QED
    BY <1>1, <1>4, <1>5

\* How many headers and segments are left when one more is taken out.
LEMMA LeftOK ==
    ASSUME NEW f \in Files, OnAir(f), chan' = Tail(chan), Len(chan') = Len(chan) - 1
    PROVE  /\ HeadersLeft(f) \in 0 .. 1 /\ SegmentsLeft(f) \in Nat
           /\ Len(chan) % 2 = 0 => HeadersLeft(f)' = HeadersLeft(f) /\ SegmentsLeft(f)' = SegmentsLeft(f)
           /\ Len(chan) % 2 = 1 /\ Len(chan) \div 2 = Segments(f) =>
                  HeadersLeft(f) = 1 /\ HeadersLeft(f)' = 0 /\ SegmentsLeft(f)' = SegmentsLeft(f)
           /\ Len(chan) % 2 = 1 /\ Len(chan) \div 2 # Segments(f) =>
                  /\ HeadersLeft(f) = 0 /\ HeadersLeft(f)' = 0
                  /\ SegmentsLeft(f) = Len(chan) \div 2 + 1 /\ SegmentsLeft(f)' = Len(chan) \div 2
           /\ Len(chan) = 1 => HeadersLeft(f)' = 0 /\ SegmentsLeft(f)' = 0
<1> DEFINE L == Len(chan)
           N == Segments(f)
<1>1. N \in Nat \ {0} /\ L \in 1 .. 2 * N + 2
    BY SegmentsOK DEF OnAir
<1>2. /\ HeadersLeft(f) = IF L > 2 * N THEN 1 ELSE 0
      /\ SegmentsLeft(f) = IF L > 2 * N THEN N ELSE (L + 1) \div 2
      /\ HeadersLeft(f)' = IF L - 1 > 2 * N THEN 1 ELSE 0
      /\ SegmentsLeft(f)' = IF L - 1 > 2 * N THEN N ELSE (L - 1 + 1) \div 2
    BY DEF HeadersLeft, SegmentsLeft
<1> HIDE DEF L, N
<1>3. L - 1 + 1 = L
    BY <1>1
<1>4. CASE L % 2 = 0
    <2>1. PICK m \in Int : L = 2 * m
        BY <1>1, <1>4
    <2> QED
        BY <1>1, <1>2, <1>3, <1>4, <2>1 DEF L, N
<1>5. CASE L % 2 = 1
    <2>1. PICK m \in Int : L = 2 * m + 1
        BY <1>1, <1>5
    <2> QED
        BY <1>1, <1>2, <1>3, <1>5, <2>1 DEF L, N
<1> QED
    BY <1>1, <1>4, <1>5 DEF L

-----------------------------------------------------------------------------
(***************************************************************************)
(* The continuity indices.                                                 *)
(***************************************************************************)
IsRx(r) == r = [length |-> r.length, cindex |-> r.cindex, parts |-> r.parts, got |-> r.got]

\* What the receiver has with one more data group, and the object this may complete.
With(r, dg)     == r.parts \cup {[dg EXCEPT !.cindex = 0]}
Finished(r, dg) == Object(With(r, dg), dg.tid)

LEMMA RxShape ==
    ASSUME NEW r, IsRx(r), NEW dg
    PROVE  LET n == RxMSC(r, dg)
           IN  /\ IsRx(n) /\ n.length = r.length
               /\ n.cindex = [r.cindex EXCEPT ![dg.dgtype] = dg.cindex]
               /\ n.parts = IF Finished(r, dg).complete THEN {p \in r.parts : p.tid # dg.tid}
                            ELSE With(r, dg)
               /\ n.got = IF Finished(r, dg).complete THEN r.got \cup {Finished(r, dg)} ELSE r.got
<1> DEFINE c == [r.cindex EXCEPT ![dg.dgtype] = dg.cindex]
           p == IF Finished(r, dg).complete THEN {q \in r.parts : q.tid # dg.tid} ELSE With(r, dg)
           g == IF Finished(r, dg).complete THEN r.got \cup {Finished(r, dg)} ELSE r.got
           r1 == [r EXCEPT !.cindex = c]
           r2 == [r1 EXCEPT !.parts = p]
           r3 == [r2 EXCEPT !.got = g]
<1>1. RxMSC(r, dg) = r3
    BY DEF RxMSC, With, Finished
<1> HIDE DEF c, p, g
<1>2. r1 = [length |-> r.length, cindex |-> c, parts |-> r.parts, got |-> r.got]
    BY DEF IsRx
<1> HIDE DEF r1
<1>3. r2 = [length |-> r.length, cindex |-> c, parts |-> p, got |-> r.got]
    BY <1>2
<1> HIDE DEF r2
<1>4. r3 = [length |-> r.length, cindex |-> c, parts |-> p, got |-> g]
    BY <1>3
<1>5. /\ IsRx(r3) /\ r3.length = r.length /\ r3.cindex = c /\ r3.parts = p /\ r3.got = g
    BY <1>4 DEF IsRx
<1> HIDE DEF r3
<1> QED
    BY <1>1, <1>5 DEF c, p, g

\* What Receive and Lose do to the first data group: it is taken, or missed.
Taken(d) ==
    /\ rx' = RxMSC(rx, d)
    /\ gap' = [gap EXCEPT ![d.dgtype] = 0]

Missed(d) ==
    /\ rx' = rx
    /\ gap' = [gap EXCEPT ![d.dgtype] = @ + 1]

Passed(d) ==
    /\ rx' = rx \/ rx' = [rx EXCEPT !.length = d.len]
    /\ gap' = gap

LEMMA DeliverySteps ==
    ASSUME Receive \/ Lose
    PROVE  LET d == Head(chan)
           IN  /\ chan # <<>> /\ chan' = Tail(chan)
               /\ UNCHANGED <<cindex_header, cindex_body>>
               /\ d.kind = "dgli" => Passed(d)
               /\ d.kind = "msc" => Taken(d) \/ Missed(d)
<1>1. CASE Receive
    <2>1. CASE Head(chan).kind = "dgli"
        BY <1>1, <2>1 DEF Receive, Passed
    <2>2. CASE Head(chan).kind # "dgli"
        BY <1>1, <2>2 DEF Receive, Taken, Missed
    <2> QED
        BY <1>1, <2>1, <2>2 DEF Receive
<1>2. CASE Lose
    BY <1>2 DEF Lose, Missed, Passed
<1> QED
    BY <1>1, <1>2

LEMMA InitTypes == SLSInit => TypesInv /\ ChanInv
BY DEF SLSInit, TypesInv, ChanInv, Counted, RxInit, Types

LEMMA NextTypes ==
    ASSUME TypesInv, ChanInv, [SLSNext]_slsVars
    PROVE  TypesInv'
<1>1. CASE UNCHANGED slsVars
    BY <1>1 DEF TypesInv, slsVars
<1>2. ASSUME NEW f \in Files, encodeSlide(f) PROVE TypesInv'
    <2>1. cindex_header' \in 0 .. 15 /\ cindex_body' \in 0 .. 15
        <3>1. nseg(Slide(f).size) \in Nat
            BY SegmentsOK DEF Segments
        <3>2. CASE Slide(f).size = 0
            BY <1>2, <3>2 DEF encodeSlide, TypesInv
        <3>3. CASE Slide(f).size # 0
            <4>1. /\ cindex_header' = (cindex_header + 1) % 16
                  /\ cindex_body' = (cindex_body + nseg(Slide(f).size)) % 16
                BY <1>2, <3>3 DEF encodeSlide, advance
            <4> QED
                BY <3>1, <4>1 DEF TypesInv
        <3> QED
            BY <3>2, <3>3
    <2> QED
        BY <1>2, <2>1 DEF encodeSlide, TypesInv
<1>3. CASE Receive \/ Lose
    <2> DEFINE d == Head(chan)
    <2>1. chan # <<>> /\ UNCHANGED <<cindex_header, cindex_body>>
        BY <1>3, DeliverySteps
    <2>2. PICK f \in Files : OnAir(f)
        BY <2>1 DEF ChanInv
    <2>3. losses' \in Nat
        BY <1>3 DEF Receive, Lose, TypesInv
    <2>4. \/ d.kind = "dgli"
          \/ d.kind = "msc" /\ d.dgtype \in Types /\ d.cindex \in 0 .. 15
        <3> DEFINE L == Len(chan)
                   k == L \div 2
        <3>1. L \in Nat /\ cindex_header \in 0 .. 15 /\ cindex_body \in 0 .. 15
            BY <2>2, HeadOK DEF TypesInv
        <3>2. CASE L % 2 = 0
            BY <2>2, <3>2, HeadOK
        <3>3. CASE L % 2 = 1
            <4>1. (cindex_header + 15) % 16 \in 0 .. 15 /\ (cindex_body - 1 - k) % 16 \in 0 .. 15
                BY <3>1
            <4>2. /\ d.kind = "msc" /\ d.dgtype = (IF k = Segments(f) THEN 3 ELSE 4)
                  /\ d.cindex = (IF k = Segments(f) THEN (cindex_header + 15) % 16
                                 ELSE (cindex_body - 1 - k) % 16)
                BY <2>2, <3>3, HeadOK
            <4> HIDE DEF k, d
            <4> QED
                BY <4>1, <4>2 DEF Types
        <3> QED
            BY <3>1, <3>2, <3>3
    <2>5. CASE d.kind = "dgli" /\ Passed(d)
        BY <2>1, <2>3, <2>5 DEF Passed, TypesInv
    <2>6. CASE d.kind = "msc" /\ Missed(d)
        BY <2>1, <2>3, <2>4, <2>6 DEF Missed, TypesInv
    <2>7. CASE d.kind = "msc" /\ Taken(d)
        <3>1. IsRx(rx) /\ rx.cindex \in [Types -> -1 .. 15] /\ gap \in [Types -> Nat]
            BY DEF TypesInv, IsRx
        <3>2. d.dgtype \in Types /\ d.cindex \in -1 .. 15
            BY <2>4, <2>7
        <3>3. IsRx(rx') /\ rx'.cindex = [rx.cindex EXCEPT ![d.dgtype] = d.cindex]
            BY <2>7, <3>1, RxShape DEF Taken, IsRx
        <3>4. gap' \in [Types -> Nat]
            BY <2>7, <3>1, <3>2 DEF Taken
        <3> QED
            BY <2>1, <2>3, <3>1, <3>2, <3>3, <3>4 DEF TypesInv, IsRx
    <2> QED
        BY <1>3, <2>4, <2>5, <2>6, <2>7, DeliverySteps
<1> QED
    BY <1>1, <1>2, <1>3 DEF SLSNext

\* One more of a type is taken or missed.
LEMMA Counting ==
    ASSUME NEW next \in 0 .. 15, NEW k \in Nat, NEW r \in -1 .. 15, NEW g \in Nat
    PROVE  /\ (next - (k + 1) + 15 - r) % 16 = g % 16 => (next - k + 15 - r) % 16 = (g + 1) % 16
           /\ (next - 1 + 15 - r) % 16 = g % 16 => (next - 0 + 15 - r) % 16 = (g + 1) % 16
           /\ (next - k + 15 - ((next - 1 - k) % 16)) % 16 = 0
           /\ (next - 0 + 15 - ((next + 15) % 16)) % 16 = 0
OBVIOUS

LEMMA Rewinding ==
    ASSUME NEW old \in 0 .. 15, NEW n \in Nat, NEW r \in -1 .. 15
    PROVE  (((old + n) % 16) - n + 15 - r) % 16 = (old - 0 + 15 - r) % 16
OBVIOUS

LEMMA Following ==
    ASSUME NEW next \in 0 .. 15, NEW k \in Nat, NEW r \in -1 .. 15
    PROVE  /\ (((next + 15) % 16) + 15 - r) % 16 = (next - 1 + 15 - r) % 16
           /\ (((next - 1 - k) % 16) + 15 - r) % 16 = (next - (k + 1) + 15 - r) % 16
OBVIOUS

LEMMA NextChan ==
    ASSUME TypesInv, ChanInv, [SLSNext]_slsVars
    PROVE  ChanInv'
<1>1. CASE UNCHANGED slsVars
    BY <1>1 DEF ChanInv, slsVars, OnAir, Counted, HeadersLeft, SegmentsLeft
<1>2. ASSUME NEW f \in Files, encodeSlide(f) PROVE ChanInv'
    <2>1. chan = <<>> /\ rx' = rx /\ gap' = gap
        BY <1>2 DEF encodeSlide
    <2>2. Counted(0, 0)
        BY <2>1, HeadOK DEF ChanInv
    <2>3. CASE Slide(f).size = 0
        <3>1. chan' = <<>> /\ cindex_header' = cindex_header /\ cindex_body' = cindex_body
            BY <1>2, <2>1, <2>3 DEF encodeSlide
        <3> QED
            BY <2>1, <2>2, <3>1 DEF ChanInv, Counted
    <2>4. CASE Slide(f).size # 0
        <3>1. OnAir(f)' /\ Len(chan') = 2 * Segments(f) + 2 /\ Segments(f) \in Nat
            BY <1>2, <2>4, EncodeStep, SegmentsOK
        <3>2. HeadersLeft(f)' = 1 /\ SegmentsLeft(f)' = Segments(f)
            BY <3>1 DEF HeadersLeft, SegmentsLeft
        <3>3. /\ cindex_header' = (cindex_header + 1) % 16
              /\ cindex_body' = (cindex_body + Segments(f)) % 16
            BY <1>2, <2>4 DEF encodeSlide, advance, Segments
        <3>4. /\ rx.cindex[3] \in -1 .. 15 /\ rx.cindex[4] \in -1 .. 15
              /\ cindex_header \in 0 .. 15 /\ cindex_body \in 0 .. 15
            BY DEF TypesInv, Types
        <3>5. /\ (cindex_header' - 1 + 15 - rx.cindex[3]) % 16 = (cindex_header - 0 + 15 - rx.cindex[3]) % 16
              /\ (cindex_body' - Segments(f) + 15 - rx.cindex[4]) % 16
                    = (cindex_body - 0 + 15 - rx.cindex[4]) % 16
            BY <3>1, <3>3, <3>4, Rewinding
        <3>6. Counted(1, Segments(f))'
            BY <2>1, <2>2, <3>5 DEF Counted
        <3> QED
            BY <3>1, <3>2, <3>6 DEF ChanInv, Counted
    <2> QED
        BY <2>3, <2>4
<1>3. CASE Receive \/ Lose
    <2> DEFINE d == Head(chan)
               L == Len(chan)
    <2>1. chan # <<>> /\ chan' = Tail(chan) /\ UNCHANGED <<cindex_header, cindex_body>>
        BY <1>3, DeliverySteps
    <2>2. PICK f \in Files : OnAir(f) /\ Counted(HeadersLeft(f), SegmentsLeft(f))
        BY <2>1 DEF ChanInv
    <2>3. Len(chan') = L - 1 /\ (chan' = <<>> \/ OnAir(f)') /\ (chan' = <<>> => L = 1)
        BY <2>1, <2>2, TailStep
    <2>4. SUFFICES Counted(HeadersLeft(f), SegmentsLeft(f))'
        <3>1. chan' = <<>> => HeadersLeft(f)' = 0 /\ SegmentsLeft(f)' = 0
            BY <2>1, <2>2, <2>3, LeftOK
        <3> QED
            BY <2>3, <3>1 DEF ChanInv, Counted
    <2>5. /\ rx.cindex \in [Types -> -1 .. 15] /\ gap \in [Types -> Nat] /\ IsRx(rx)
          /\ cindex_header \in 0 .. 15 /\ cindex_body \in 0 .. 15
        BY DEF TypesInv, IsRx
    <2>6. HeadersLeft(f) \in 0 .. 1 /\ SegmentsLeft(f) \in Nat /\ Segments(f) \in Nat /\ L \in Nat
        BY <2>1, <2>2, <2>3, LeftOK, SegmentsOK, HeadOK
    <2>7. CASE L % 2 = 0
        <3>1. Passed(d) /\ HeadersLeft(f)' = HeadersLeft(f) /\ SegmentsLeft(f)' = SegmentsLeft(f)
            BY <1>3, <2>1, <2>2, <2>3, <2>7, LeftOK, HeadOK, DeliverySteps
        <3>2. rx'.cindex = rx.cindex /\ gap' = gap
            BY <2>5, <3>1 DEF Passed, IsRx
        <3> QED
            BY <2>1, <2>2, <3>1, <3>2 DEF Counted
    <2>8. CASE L % 2 = 1
        <3>1. /\ Taken(d) \/ Missed(d)
              /\ d.dgtype = (IF L \div 2 = Segments(f) THEN 3 ELSE 4)
              /\ d.cindex = (IF L \div 2 = Segments(f) THEN (cindex_header + 15) % 16
                             ELSE (cindex_body - 1 - L \div 2) % 16)
            BY <1>3, <2>2, <2>8, HeadOK, DeliverySteps
        <3>2. /\ Taken(d) => rx'.cindex = [rx.cindex EXCEPT ![d.dgtype] = d.cindex]
              /\ Missed(d) => rx'.cindex = rx.cindex
            <4>1. rx'.cindex = [rx.cindex EXCEPT ![d.dgtype] = d.cindex] \/ ~Taken(d)
                <5>1. IsRx(rx)
                    BY <2>5
                <5> HIDE DEF d
                <5>2. RxMSC(rx, d).cindex = [rx.cindex EXCEPT ![d.dgtype] = d.cindex]
                    BY <5>1, RxShape
                <5> QED
                    BY <5>2 DEF Taken
            <4> QED
                BY <4>1 DEF Missed
        <3>3. 3 \in Types /\ 4 \in Types /\ rx.cindex[3] \in -1 .. 15 /\ rx.cindex[4] \in -1 .. 15
              /\ gap[3] \in Nat /\ gap[4] \in Nat
            BY <2>5 DEF Types
        <3>4. CASE L \div 2 = Segments(f)
            <4>1. /\ HeadersLeft(f) = 1 /\ HeadersLeft(f)' = 0
                  /\ SegmentsLeft(f)' = SegmentsLeft(f)
                BY <2>1, <2>2, <2>3, <2>8, <3>4, LeftOK
            <4>2. d.dgtype = 3 /\ d.cindex = (cindex_header + 15) % 16
                BY <3>1, <3>4
            <4>3. CASE Taken(d)
                <5>1. rx'.cindex[3] = d.cindex /\ gap'[3] = 0 /\ rx'.cindex[4] = rx.cindex[4] /\ gap'[4] = gap[4]
                    BY <2>5, <3>2, <3>3, <4>2, <4>3 DEF Taken
                <5>2. (cindex_header - 0 + 15 - d.cindex) % 16 = 0 % 16
                    <6>1. (cindex_header - 0 + 15 - ((cindex_header + 15) % 16)) % 16 = 0
                        BY <2>5
                    <6>2. 0 % 16 = 0
                        OBVIOUS
                    <6> QED
                        BY ONLY <4>2, <6>1, <6>2, Zenon
                <5> QED
                    BY <2>1, <2>2, <4>1, <5>1, <5>2 DEF Counted
            <4>4. CASE Missed(d)
                <5>1. rx'.cindex = rx.cindex /\ gap'[3] = gap[3] + 1 /\ gap'[4] = gap[4]
                    BY <2>5, <3>2, <3>3, <4>2, <4>4 DEF Missed
                <5>2. (cindex_header - 1 + 15 - rx.cindex[3]) % 16 = gap[3] % 16
                         => (cindex_header - 0 + 15 - rx.cindex[3]) % 16 = (gap[3] + 1) % 16
                    BY <2>5, <3>3, Counting
                <5> QED
                    BY <2>1, <2>2, <4>1, <5>1, <5>2 DEF Counted
            <4> QED
                BY <3>1, <4>3, <4>4
        <3>5. CASE L \div 2 # Segments(f)
            <4> DEFINE k == L \div 2
            <4>1. /\ HeadersLeft(f) = 0 /\ HeadersLeft(f)' = 0
                  /\ SegmentsLeft(f) = k + 1 /\ SegmentsLeft(f)' = k
                BY <2>1, <2>2, <2>3, <2>8, <3>5, LeftOK
            <4>2. d.dgtype = 4 /\ d.cindex = (cindex_body - 1 - k) % 16 /\ k \in Nat
                BY <2>6, <3>1, <3>5
            <4> HIDE DEF k
            <4>3. CASE Taken(d)
                <5>1. rx'.cindex[4] = d.cindex /\ gap'[4] = 0 /\ rx'.cindex[3] = rx.cindex[3] /\ gap'[3] = gap[3]
                    BY <2>5, <3>2, <3>3, <4>2, <4>3 DEF Taken
                <5>2. (cindex_body - k + 15 - d.cindex) % 16 = 0 % 16
                    <6>1. (cindex_body - k + 15 - ((cindex_body - 1 - k) % 16)) % 16 = 0
                        <7>1. 0 \in -1 .. 15 /\ 0 \in Nat /\ cindex_body \in 0 .. 15 /\ k \in Nat
                            BY <2>5, <4>2
                        <7> QED
                            BY ONLY <7>1, Counting
                    <6>2. 0 % 16 = 0
                        OBVIOUS
                    <6> QED
                        BY ONLY <4>2, <6>1, <6>2, Zenon
                <5> QED
                    BY <2>1, <2>2, <4>1, <5>1, <5>2 DEF Counted
            <4>4. CASE Missed(d)
                <5>1. rx'.cindex = rx.cindex /\ gap'[4] = gap[4] + 1 /\ gap'[3] = gap[3]
                    BY <2>5, <3>2, <3>3, <4>2, <4>4 DEF Missed
                <5>2. (cindex_body - (k + 1) + 15 - rx.cindex[4]) % 16 = gap[4] % 16
                         => (cindex_body - k + 15 - rx.cindex[4]) % 16 = (gap[4] + 1) % 16
                    BY <2>5, <3>3, <4>2, Counting
                <5> QED
                    BY <2>1, <2>2, <4>1, <5>1, <5>2 DEF Counted
            <4> QED
                BY <3>1, <4>3, <4>4
        <3> QED
            BY <3>4, <3>5
    <2> QED
        BY <2>6, <2>7, <2>8
<1> QED
    BY <1>1, <1>2, <1>3 DEF SLSNext

\* Whatever is lost, from the continuity indices a receiver learns how many data groups of
\* a type it has missed (encodeSlide, createMscDG).
THEOREM LossesTold == SLSSpec => []LossesCounted
<1>1. TypesInv /\ ChanInv => LossesCounted
    <2> SUFFICES ASSUME TypesInv, ChanInv, chan # <<>>, Head(chan).kind = "msc",
                        rx.cindex[Head(chan).dgtype] # -1
                 PROVE  (Head(chan).cindex + 15 - rx.cindex[Head(chan).dgtype]) % 16
                            = gap[Head(chan).dgtype] % 16
        BY DEF LossesCounted
    <2>1. PICK f \in Files : OnAir(f) /\ Counted(HeadersLeft(f), SegmentsLeft(f))
        BY DEF ChanInv
    <2> DEFINE L == Len(chan)
               k == L \div 2
    <2>2. L \in Nat /\ L % 2 = 1 /\ Segments(f) \in Nat \ {0} /\ L \in 1 .. 2 * Segments(f) + 2
        BY <2>1, HeadOK, SegmentsOK DEF OnAir
    <2>3. /\ Head(chan).dgtype = (IF k = Segments(f) THEN 3 ELSE 4)
          /\ Head(chan).cindex = (IF k = Segments(f) THEN (cindex_header + 15) % 16
                                  ELSE (cindex_body - 1 - k) % 16)
        BY <2>1, <2>2, HeadOK
    <2>4. /\ cindex_header \in 0 .. 15 /\ cindex_body \in 0 .. 15
          /\ rx.cindex[3] \in -1 .. 15 /\ rx.cindex[4] \in -1 .. 15
        BY DEF TypesInv, Types
    <2>5. CASE k = Segments(f)
        <3>1. HeadersLeft(f) = 1
            BY <2>2, <2>5 DEF HeadersLeft
        <3>2. (((cindex_header + 15) % 16) + 15 - rx.cindex[3]) % 16
                = (cindex_header - 1 + 15 - rx.cindex[3]) % 16
            BY <2>4, Following
        <3> QED
            BY <2>1, <2>3, <2>5, <3>1, <3>2 DEF Counted
    <2>6. CASE k # Segments(f)
        <3>1. SegmentsLeft(f) = k + 1 /\ k \in Nat
            BY <2>2, <2>6 DEF SegmentsLeft
        <3>2. (((cindex_body - 1 - k) % 16) + 15 - rx.cindex[4]) % 16
                = (cindex_body - (k + 1) + 15 - rx.cindex[4]) % 16
            BY <2>4, <3>1, Following
        <3> QED
            BY <2>1, <2>3, <2>6, <3>1, <3>2 DEF Counted
    <2> QED
        BY <2>5, <2>6
<1> QED
    BY <1>1, InitTypes, NextTypes, NextChan, PTL DEF SLSSpec

-----------------------------------------------------------------------------
(***************************************************************************)
(* Headers and length indicators in the channel.                           *)
(***************************************************************************)
LEMMA ChanItems ==
    ASSUME NEW f \in Files, OnAir(f), NEW i \in 1 .. Len(chan)
    PROVE  LET k == (Len(chan) - i) \div 2
           IN  /\ k \in 0 .. Segments(f)
               /\ (Len(chan) - i) % 2 # 0 =>
                      chan[i] = [kind |-> "dgli", len |-> Part(f, k).size % 2 ^ 14]
               /\ (Len(chan) - i) % 2 = 0 => \E c : chan[i] = Group(f, k, c)
<1> DEFINE L == Len(chan)
           k == (L - i) \div 2
           it(e) == Item(f, e, cindex_header, cindex_body)
<1>1. Segments(f) \in Nat /\ L \in 1 .. 2 * Segments(f) + 2
    BY SegmentsOK DEF OnAir
<1>2. k \in 0 .. Segments(f)
    BY <1>1
<1>3. chan = [j \in 1 .. L |-> it(L - j)]
    BY DEF OnAir
<1> HIDE DEF it, L
<1>4. chan[i] = it(L - i)
    BY <1>3 DEF L
<1>5. \E c : Queued(f, k, cindex_header, cindex_body) = Group(f, k, c)
    BY DEF Queued
<1>6. CASE (L - i) % 2 = 0
    BY <1>2, <1>4, <1>5, <1>6 DEF it, Item, L
<1>7. CASE (L - i) % 2 # 0
    <2>1. chan[i] = CreateDataGroupLengthIndicator(Queued(f, k, cindex_header, cindex_body).size)
        BY <1>4, <1>7 DEF it, Item
    <2>2. Queued(f, k, cindex_header, cindex_body).size = Part(f, k).size
        BY <1>2, <1>5, GroupOK
    <2> HIDE DEF k
    <2>3. chan[i] = [kind |-> "dgli", len |-> Part(f, k).size % 2 ^ 14]
        BY <2>1, <2>2 DEF CreateDataGroupLengthIndicator
    <2> QED
        BY <1>2, <1>7, <2>3 DEF k, L
<1> QED
    BY <1>6, <1>7 DEF L

LEMMA HeadersInv ==
    ASSUME ChanInv, NEW h \in Headers
    PROVE  \E f \in Files : Slide(f).size # 0 /\ h = HeaderOf(f)
<1>1. PICK i \in 1 .. Len(chan) : chan[i].kind = "msc" /\ chan[i].dgtype = 3 /\ h = chan[i].data
    BY DEF Headers
<1>2. chan # <<>>
    BY <1>1
<1>3. PICK f \in Files : OnAir(f)
    BY <1>2 DEF ChanInv
<1> DEFINE k == (Len(chan) - i) \div 2
<1>4. k \in 0 .. Segments(f) /\ \E c : chan[i] = Group(f, k, c)
    <2>1. Len(chan) \in Nat
        BY <1>3, HeadOK
    <2>2. (Len(chan) - i) % 2 = 0
        <3>1. SUFFICES ASSUME (Len(chan) - i) % 2 # 0 PROVE FALSE
            OBVIOUS
        <3>2. chan[i] = [kind |-> "dgli", len |-> Part(f, k).size % 2 ^ 14]
            BY <1>3, <3>1, ChanItems
        <3>3. chan[i].kind = "dgli"
            BY <3>2
        <3> QED
            BY <1>1, <3>3
    <2> QED
        BY <1>3, <2>2, ChanItems
<1> HIDE DEF k
<1>5. PICK c : chan[i] = Group(f, k, c)
    BY <1>4
<1>6. k = Segments(f)
    BY <1>1, <1>4, <1>5, GroupOK
<1>7. chan[i].data = HeaderOf(f)
    BY <1>5, <1>6 DEF Group, MscDG
<1> QED
    BY <1>1, <1>3, <1>7 DEF OnAir

\* What is sent is fit for receivers of the Simple Profile, whatever the size, format and
\* dimensions of the file (encodeSlide, resizeImage, createMotHeader).
THEOREM SlidesAcceptable == SLSSpec => []SlideAcceptable
<1>1. ChanInv => SlideAcceptable
    <2> SUFFICES ASSUME ChanInv, NEW h \in Headers
                 PROVE  LET f == FileOf(h.name[1])
                            s == Slide(f)
                        IN  /\ ~f.raw =>
                                 /\ s.size <= max_slide_size
                                 /\ f.progressive => ~s.asis
                                 /\ f.height <= 240 * f.width /\ f.width <= 320 * f.height
                                       => s.width <= 320 /\ s.height <= 240
                                 /\ s.content = (IF h.subtype = 1 THEN "JPEG" ELSE "PNG")
                            /\ h.name[2] = (IF h.subtype = 1 THEN "jpg" ELSE "png")
        BY DEF SlideAcceptable
    <2>1. PICK f \in Files : Slide(f).size # 0 /\ h = HeaderOf(f)
        BY HeadersInv
    <2>2. /\ h.name[1] = f.fidx
          /\ h.name[2] = (IF Slide(f).jfif THEN "jpg" ELSE "png")
          /\ h.subtype = (IF Slide(f).jfif THEN 1 ELSE 3)
        BY <2>1, HeaderOK
    <2>3. FileOf(h.name[1]) = f
        BY <2>2, FilesAssumption DEF FileOf
    <2>4. ~f.raw /\ f.height <= 240 * f.width /\ f.width <= 320 * f.height
             => Slide(f).width <= 320 /\ Slide(f).height <= 240
        <3>1. CASE Slide(f).width <= 320 /\ Slide(f).height <= 240
            BY <3>1
        <3>2. CASE Slide(f).width = Scaled(f).width /\ Slide(f).height = Scaled(f).height
            BY <3>2, ScaledOK
        <3> QED
            BY <2>1, <3>1, <3>2, SlideOK
    <2>5. ~f.raw => /\ Slide(f).size <= max_slide_size
                    /\ f.progressive => ~Slide(f).asis
                    /\ Slide(f).content = IF Slide(f).jfif THEN "JPEG" ELSE "PNG"
        BY <2>1, SlideOK
    <2> QED
        BY <2>2, <2>3, <2>4, <2>5
<1> QED
    BY <1>1, InitTypes, NextTypes, NextChan, PTL DEF SLSSpec

\* Walking through the extensions by the lengths it finds a receiver arrives at the end of
\* the header, for every parameter file (MOTHeader::AddExtension).
THEOREM HeadersParse == SLSSpec => []HeaderParses
<1>1. ChanInv => HeaderParses
    <2> SUFFICES ASSUME ChanInv, NEW h \in Headers, h.length < 2 ^ 13
                 PROVE  h.header_size = h.length /\ h.parsed = h.length
        BY DEF HeaderParses
    <2>1. PICK f \in Files : Slide(f).size # 0 /\ h = HeaderOf(f)
        BY HeadersInv
    <2>2. h.length \in Nat /\ h.header_size = h.length % 2 ^ 13 /\ h.parsed = h.length
        BY <2>1, HeaderOK
    <2> QED
        BY <2>2
<1> QED
    BY <1>1, InitTypes, NextTypes, NextChan, PTL DEF SLSSpec

LEMMA SizesFit ==
    ASSUME GroupsFit, NEW f \in Files, NEW k \in 0 .. Segments(f)
    PROVE  Part(f, k).size \in 0 .. 2 ^ 14 - 1
<1>1. Segments(f) \in Nat
    BY SegmentsOK
<1>2. CASE k = Segments(f)
    <2> DEFINE len == HeaderOf(f).length
    <2>1. len \in Nat /\ len + 11 < 2 ^ 14
        BY HeaderOK DEF GroupsFit
    <2>2. Part(f, k).size = 9 + (len % 2 ^ 16) + 2
        BY <1>2 DEF Part, Group, MscDG
    <2> HIDE DEF len
    <2> QED
        BY <2>1, <2>2
<1>3. CASE k # Segments(f)
    <2> DEFINE len == curseglen(Slide(f).size, Segments(f) - 1 - k)
    <2>1. len \in 0 .. MAXSEGLEN
        BY <1>1, <1>3, SegmentsOK
    <2>2. Part(f, k).size = 9 + (len % 2 ^ 16) + 2
        BY <1>3 DEF Part, Group, MscDG
    <2> HIDE DEF len
    <2>3. MAXSEGLEN \in Nat /\ MAXSEGLEN + 11 < 2 ^ 14
        BY SegLenAssumption DEF GroupsFit
    <2> QED
        BY <2>1, <2>2, <2>3
<1> QED
    BY <1>2, <1>3

\* The length indicated in front of an MSC data group is its length
\* (CreateDataGroupLengthIndicator, encodeSlide).
THEOREM LengthsTold ==
    ASSUME GroupsFit
    PROVE  SLSSpec => []LengthsIndicated
<1>1. ChanInv => LengthsIndicated
    <2> SUFFICES ASSUME ChanInv, NEW i \in 1 .. Len(chan) - 1, chan[i].kind = "dgli"
                 PROVE  chan[i + 1].kind = "msc" /\ chan[i + 1].size = chan[i].len
        BY DEF LengthsIndicated
    <2>1. chan # <<>>
        OBVIOUS
    <2>2. PICK f \in Files : OnAir(f)
        BY <2>1 DEF ChanInv
    <2> DEFINE L == Len(chan)
               k == (L - i) \div 2
    <2>3. L \in Nat /\ i \in 1 .. L /\ i + 1 \in 1 .. L
        BY <2>2, HeadOK
    <2>4. (L - i) % 2 # 0
        <3>1. SUFFICES ASSUME (L - i) % 2 = 0 PROVE FALSE
            OBVIOUS
        <3>2. k \in 0 .. Segments(f) /\ \E c : chan[i] = Group(f, k, c)
            BY <2>2, <2>3, <3>1, ChanItems
        <3> HIDE DEF k
        <3> QED
            BY <3>2, GroupOK
    <2>5. (L - (i + 1)) % 2 = 0 /\ (L - (i + 1)) \div 2 = k
        BY <2>3, <2>4
    <2>6. k \in 0 .. Segments(f) /\ chan[i] = [kind |-> "dgli", len |-> Part(f, k).size % 2 ^ 14]
        BY <2>2, <2>3, <2>4, ChanItems
    <2>7. \E c : chan[i + 1] = Group(f, k, c)
        BY <2>2, <2>3, <2>5, ChanItems
    <2> HIDE DEF k
    <2>8. chan[i + 1].kind = "msc" /\ chan[i + 1].size = Part(f, k).size
        BY <2>6, <2>7, GroupOK
    <2>9. Part(f, k).size % 2 ^ 14 = Part(f, k).size
        <3> DEFINE s == Part(f, k).size
        <3>1. s \in 0 .. 2 ^ 14 - 1
            BY <2>6, SizesFit
        <3> HIDE DEF s
        <3> QED
            BY <3>1 DEF s
    <2> QED
        BY <2>6, <2>8, <2>9
<1> QED
    BY <1>1, InitTypes, NextTypes, NextChan, PTL DEF SLSSpec

-----------------------------------------------------------------------------
(***************************************************************************)
(* What the receiver collects, and the objects it presents.                *)
(***************************************************************************)
LEMMA PartFields ==
    ASSUME NEW f \in Files, NEW k \in 0 .. Segments(f)
    PROVE  LET N == Segments(f)
               p == Part(f, k)
           IN  /\ p.tid = f.fidx
               /\ p.dgtype = (IF k = N THEN 3 ELSE 4)
               /\ k = N => p.data = HeaderOf(f)
               /\ k # N => /\ p.data = SegmentBytes(Slide(f).size, N - 1 - k)
                           /\ p.last <=> k = 0
                           /\ p.segnum = (N - 1 - k) % 2 ^ 15
<1>1. Segments(f) \in Nat
    BY SegmentsOK
<1>2. CASE k = Segments(f)
    <2> DEFINE h == HeaderOf(f)
               len == h.length
               last == TRUE
    <2>1. Part(f, k) = MscDG(3, 0, 0, last, f.fidx, h, len)
        BY <1>2 DEF Part, Group
    <2> HIDE DEF h, len, last
    <2> QED
        BY <1>2, <2>1 DEF MscDG, h
<1>3. CASE k # Segments(f)
    <2> DEFINE n == Segments(f) - 1 - k
               len == curseglen(Slide(f).size, n)
               last == IsLast(Slide(f), n)
               data == SegmentBytes(Slide(f).size, n)
    <2>1. Part(f, k) = MscDG(4, 0, n, last, f.fidx, data, len)
        BY <1>3 DEF Part, Group
    <2>2. last <=> k = 0
        BY <1>1 DEF IsLast, Segments
    <2> HIDE DEF n, len, last, data
    <2>3. /\ Part(f, k).tid = f.fidx /\ Part(f, k).dgtype = 4 /\ Part(f, k).data = data
          /\ Part(f, k).last = last /\ Part(f, k).segnum = n % 2 ^ 15
        BY <2>1 DEF MscDG
    <2> QED
        BY <1>3, <2>2, <2>3 DEF n, data
<1> QED
    BY <1>2, <1>3

\* The transport id tells whose part it is.
LEMMA OwnParts ==
    ASSUME NEW parts, Collected(parts), NEW f \in Files, NEW p \in parts, p.tid = f.fidx
    PROVE  \E k \in 0 .. Segments(f) : p = Part(f, k)
<1>1. PICK g \in Files : \E k \in 0 .. Segments(g) : p = Part(g, k)
    BY DEF Collected
<1>2. g.fidx = f.fidx
    BY <1>1, PartFields
<1>3. g = f
    BY <1>2, FilesAssumption
<1> QED
    BY <1>1, <1>3

\* An object that is complete is the slide's header and all of its segments.
LEMMA ObjectWhole ==
    ASSUME SlidesFit, NEW parts, Collected(parts), NEW f \in Files, Slide(f).size # 0,
           Object(parts, f.fidx).complete
    PROVE  LET o == Object(parts, f.fidx)
           IN  o.tid = f.fidx /\ o.header = {HeaderOf(f)} /\ o.body = Whole(f)
<1> DEFINE N == Segments(f)
           own == {p \in parts : p.tid = f.fidx}
           of == {p \in own : p.dgtype = 4}
           o == Object(parts, f.fidx)
<1>1. N \in 1 .. 2 ^ 15
    BY SegmentsOK DEF SlidesFit
<1>2. /\ \E p \in own : p.dgtype = 3
      /\ \E p \in of : p.last /\ {q.segnum : q \in of} = 0 .. p.segnum
      /\ o.tid = f.fidx
      /\ o.header = {p.data : p \in own \ of}
      /\ o.body = UNION {p.data : p \in of}
    BY DEF Object
<1> HIDE DEF o
<1>3. \A p \in own : \E k \in 0 .. N : p = Part(f, k)
    BY OwnParts
<1>4. \A p \in own \ of : p.data = HeaderOf(f)
    BY <1>3, PartFields
<1>5. \A p \in of : \E k \in 0 .. N - 1 : p = Part(f, k)
    <2> SUFFICES ASSUME NEW p \in of PROVE \E k \in 0 .. N - 1 : p = Part(f, k)
        OBVIOUS
    <2>1. PICK k \in 0 .. N : p = Part(f, k)
        BY <1>3
    <2>2. k # N
        BY <2>1, PartFields
    <2> QED
        BY <1>1, <2>1, <2>2
<1>6. o.header = {HeaderOf(f)}
    <2>1. own \ of # {}
        BY <1>2
    <2> HIDE DEF own, of
    <2> QED
        BY <1>2, <1>4, <2>1
<1>7. ASSUME NEW k \in 0 .. N - 1
      PROVE  /\ Part(f, k).segnum = N - 1 - k
             /\ Part(f, k).data = SegmentBytes(Slide(f).size, N - 1 - k)
             /\ Part(f, k).last <=> k = 0
    <2>1. k \in 0 .. N /\ k # N
        BY <1>1
    <2>2. Part(f, k).segnum = (N - 1 - k) % 2 ^ 15
        BY <2>1, PartFields
    <2>3. (N - 1 - k) % 2 ^ 15 = N - 1 - k
        <3> HIDE DEF N
        <3> QED
            BY <1>1
    <2> QED
        BY <2>1, <2>2, <2>3, PartFields
<1>8. {q.segnum : q \in of} = 0 .. N - 1
    <2>1. PICK p \in of : p.last /\ {q.segnum : q \in of} = 0 .. p.segnum
        BY <1>2
    <2>2. PICK k \in 0 .. N - 1 : p = Part(f, k)
        BY <1>5
    <2>3. p.segnum = N - 1
        BY <1>1, <1>7, <2>1, <2>2
    <2> QED
        BY <2>1, <2>3
<1> HIDE DEF own, of
<1>9. o.body = Whole(f)
    <2>1. ASSUME NEW p \in of
          PROVE  \E i \in 0 .. N - 1 : p.data = SegmentBytes(Slide(f).size, i)
        <3>1. PICK k \in 0 .. N - 1 : p = Part(f, k)
            BY <1>5
        <3>2. N - 1 - k \in 0 .. N - 1
            BY <1>1
        <3> QED
            BY <1>7, <3>1, <3>2
    <2>2. ASSUME NEW i \in 0 .. N - 1
          PROVE  \E p \in of : p.data = SegmentBytes(Slide(f).size, i)
        <3>1. PICK p \in of : p.segnum = i
            BY <1>8
        <3>2. PICK k \in 0 .. N - 1 : p = Part(f, k)
            BY <1>5
        <3>3. N - 1 - k = i
            BY <1>7, <3>1, <3>2
        <3> QED
            BY <1>7, <3>2, <3>3
    <2>3. {p.data : p \in of} = {SegmentBytes(Slide(f).size, i) : i \in 0 .. N - 1}
        <3> HIDE DEF N
        <3> QED
            BY <2>1, <2>2
    <2> QED
        BY <1>2, <2>3 DEF Whole
<1> QED
    BY <1>2, <1>6, <1>9 DEF o

\* What the receiver takes is a part of the slide on the air.
LEMMA TakenPart ==
    ASSUME NEW f \in Files, OnAir(f), Head(chan).kind = "msc"
    PROVE  LET k == Len(chan) \div 2
           IN  /\ Len(chan) % 2 = 1 /\ k \in 0 .. Segments(f)
               /\ Head(chan).tid = f.fidx
               /\ Head(chan).size = Part(f, k).size
               /\ [Head(chan) EXCEPT !.cindex = 0] = Part(f, k)
<1>1. Len(chan) \in Nat
    BY HeadOK
<1>2. Len(chan) % 2 = 1
    <2>1. CASE Len(chan) % 2 = 0
        BY <2>1, HeadOK
    <2> QED
        BY <1>1, <2>1
<1> QED
    BY <1>2, HeadOK

LEMMA NextGot ==
    ASSUME SlidesFit, TypesInv, ChanInv, PartsInv, GotInv, [SLSNext]_slsVars
    PROVE  PartsInv' /\ GotInv'
<1>1. CASE UNCHANGED slsVars
    BY <1>1 DEF PartsInv, GotInv, slsVars
<1>2. ASSUME NEW f \in Files, encodeSlide(f) PROVE PartsInv' /\ GotInv'
    BY <1>2 DEF encodeSlide, PartsInv, GotInv
<1>3. CASE Receive \/ Lose
    <2> DEFINE d == Head(chan)
    <2>1. /\ chan # <<>>
          /\ d.kind = "dgli" => Passed(d)
          /\ d.kind = "msc" => Taken(d) \/ Missed(d)
        BY <1>3, DeliverySteps
    <2>2. PICK f \in Files : OnAir(f)
        BY <2>1 DEF ChanInv
    <2>3. IsRx(rx)
        BY DEF TypesInv, IsRx
    <2>4. d.kind \in {"dgli", "msc"}
        <3>1. Len(chan) % 2 \in {0, 1}
            BY <2>2, HeadOK
        <3> QED
            BY <2>2, <3>1, HeadOK
    <2>5. CASE rx'.parts = rx.parts /\ rx'.got = rx.got
        BY <2>5 DEF PartsInv, GotInv
    <2>6. CASE d.kind = "msc" /\ Taken(d)
        <3> DEFINE k == Len(chan) \div 2
        <3>1. /\ d.tid = f.fidx /\ Slide(f).size # 0
              /\ k \in 0 .. Segments(f) /\ [d EXCEPT !.cindex = 0] = Part(f, k)
            BY <2>2, <2>6, TakenPart DEF OnAir
        <3> HIDE DEF d, k
        <3>2. Collected(With(rx, d))
            BY <3>1 DEF PartsInv, Collected, With
        <3>3. /\ rx'.parts = IF Finished(rx, d).complete THEN {p \in rx.parts : p.tid # d.tid}
                             ELSE With(rx, d)
              /\ rx'.got = IF Finished(rx, d).complete THEN rx.got \cup {Finished(rx, d)} ELSE rx.got
            BY <2>3, <2>6, RxShape DEF Taken
        <3>4. CASE Finished(rx, d).complete
            <4>1. Object(With(rx, d), f.fidx) = Finished(rx, d)
                BY <3>1 DEF Finished
            <4> DEFINE o == Finished(rx, d)
            <4>2. o.tid = f.fidx /\ o.header = {HeaderOf(f)} /\ o.body = Whole(f)
                BY <3>1, <3>2, <3>4, <4>1, ObjectWhole
            <4>3. rx'.got = rx.got \cup {o} /\ rx'.parts \subseteq rx.parts
                BY <3>3, <3>4
            <4> HIDE DEF o
            <4> QED
                BY <3>1, <4>2, <4>3 DEF PartsInv, Collected, GotInv
        <3>5. CASE ~Finished(rx, d).complete
            BY <3>2, <3>3, <3>5 DEF PartsInv, GotInv
        <3> QED
            BY <3>4, <3>5
    <2>7. CASE Passed(d) \/ Missed(d)
        <3>1. rx'.parts = rx.parts /\ rx'.got = rx.got
            BY <2>3, <2>7 DEF Passed, Missed, IsRx
        <3> QED
            BY <2>5, <3>1
    <2> QED
        BY <2>1, <2>4, <2>6, <2>7
<1> QED
    BY <1>1, <1>2, <1>3 DEF SLSNext

LEMMA InitGot == SLSInit => PartsInv /\ GotInv
BY DEF SLSInit, RxInit, PartsInv, Collected, GotInv

\* Whatever has been lost, and completed by a repetition of the slide, a receiver presents
\* the whole body, as long as the header says (encodeSlide).
THEOREM ObjectsWhole ==
    ASSUME SlidesFit
    PROVE  SLSSpec => []ObjectComplete
<1>1. GotInv => ObjectComplete
    <2> SUFFICES ASSUME GotInv, NEW o \in rx.got
                 PROVE  LET size == Slide(FileOf(o.tid)).size
                        IN  /\ {h.body_size : h \in o.header} = {size}
                            /\ size % MAXSEGLEN # 0 => o.body = 0 .. size - 1
        BY DEF ObjectComplete
    <2>1. PICK f \in Files : o.tid = f.fidx /\ o.header = {HeaderOf(f)} /\ o.body = Whole(f)
        BY DEF GotInv
    <2>2. FileOf(o.tid) = f
        BY <2>1, FilesAssumption DEF FileOf
    <2> DEFINE size == Slide(f).size
    <2>3. size \in 0 .. 2 ^ 28 - 1
        BY SlideOK DEF SlidesFit
    <2>4. HeaderOf(f).body_size = size % 2 ^ 28
        BY HeaderOK
    <2>5. size % MAXSEGLEN # 0 => Whole(f) = 0 .. size - 1
        BY <2>3, SegmentsCover DEF Whole, Segments
    <2> HIDE DEF size
    <2>6. HeaderOf(f).body_size = size
        BY <2>3, <2>4
    <2>7. {h.body_size : h \in o.header} = {size}
        BY <2>1, <2>6
    <2> QED
        BY <2>1, <2>2, <2>5, <2>7 DEF size
<1> QED
    BY <1>1, InitTypes, NextTypes, NextChan, InitGot, NextGot, PTL DEF SLSSpec

-----------------------------------------------------------------------------
(***************************************************************************)
(* If nothing is lost.                                                     *)
(***************************************************************************)
\* The parts of slide f from the k-th but last to the header.
From(f, k) == {Part(f, j) : j \in k .. Segments(f)}

\* They make an object only with the last segment, the 0-th but last.
LEMMA CompleteFrom ==
    ASSUME SlidesFit, NEW f \in Files, Slide(f).size # 0, NEW k \in 0 .. Segments(f)
    PROVE  Object(From(f, k), f.fidx).complete <=> k = 0
<1> DEFINE N == Segments(f)
           own == {p \in From(f, k) : p.tid = f.fidx}
           of == {p \in own : p.dgtype = 4}
<1>1. N \in 1 .. 2 ^ 15
    BY SegmentsOK DEF SlidesFit
<1>2. Object(From(f, k), f.fidx).complete <=>
          /\ \E p \in own : p.dgtype = 3
          /\ \E p \in of : p.last /\ {q.segnum : q \in of} = 0 .. p.segnum
    BY DEF Object
<1>3. \A j \in k .. N : Part(f, j) \in own /\ (Part(f, j) \in of <=> j # N)
    <2> SUFFICES ASSUME NEW j \in k .. N PROVE Part(f, j) \in own /\ (Part(f, j) \in of <=> j # N)
        OBVIOUS
    <2>1. j \in 0 .. N /\ Part(f, j) \in From(f, k)
        BY <1>1 DEF From
    <2> QED
        BY <2>1, PartFields
<1>4. \A p \in of : \E j \in k .. N - 1 : p = Part(f, j)
    <2> SUFFICES ASSUME NEW p \in of PROVE \E j \in k .. N - 1 : p = Part(f, j)
        OBVIOUS
    <2>1. PICK j \in k .. N : p = Part(f, j)
        BY DEF From
    <2> QED
        BY <1>1, <1>3, <2>1
<1>5. ASSUME NEW j \in k .. N - 1
      PROVE  /\ Part(f, j).segnum = N - 1 - j
             /\ Part(f, j).last <=> j = 0
             /\ Part(f, j) \in of
    <2>1. j \in 0 .. N /\ j # N /\ j \in k .. N
        BY <1>1
    <2>2. Part(f, j).segnum = (N - 1 - j) % 2 ^ 15
        BY <2>1, PartFields
    <2>3. (N - 1 - j) % 2 ^ 15 = N - 1 - j
        <3> HIDE DEF N
        <3> QED
            BY <1>1
    <2> QED
        BY <1>3, <2>1, <2>2, <2>3, PartFields
<1> HIDE DEF of
<1>6. CASE k = 0
    <2>1. Part(f, N) \in own /\ Part(f, N).dgtype = 3
        BY <1>1, <1>3, PartFields
    <2>2. Part(f, 0) \in of /\ Part(f, 0).last /\ Part(f, 0).segnum = N - 1
        BY <1>1, <1>5, <1>6
    <2>3. {q.segnum : q \in of} = 0 .. N - 1
        <3>1. ASSUME NEW q \in of PROVE q.segnum \in 0 .. N - 1
            BY <1>1, <1>4, <1>5
        <3>2. ASSUME NEW i \in 0 .. N - 1 PROVE \E q \in of : q.segnum = i
            <4>1. N - 1 - i \in k .. N - 1 /\ N - 1 - (N - 1 - i) = i
                BY <1>1, <1>6
            <4> QED
                BY <1>5, <4>1
        <3> HIDE DEF N
        <3> QED
            BY <3>1, <3>2
    <2> QED
        BY <1>2, <1>6, <2>1, <2>2, <2>3
<1>7. CASE k # 0
    <2>1. \A p \in of : ~p.last
        <3> SUFFICES ASSUME NEW p \in of PROVE ~p.last
            OBVIOUS
        <3>1. PICK j \in k .. N - 1 : p = Part(f, j)
            BY <1>4
        <3>2. j # 0
            BY <1>7
        <3> QED
            BY <1>5, <3>1, <3>2
    <2> QED
        BY <1>2, <1>7, <2>1
<1> QED
    BY <1>6, <1>7

LEMMA NextComplete ==
    ASSUME SlidesFit, GroupsFit, TypesInv, CompleteInv, [SLSNext]_slsVars
    PROVE  CompleteInv'
<1>1. CASE UNCHANGED slsVars
    BY <1>1 DEF CompleteInv, slsVars, OnAir, Received
<1>2. ASSUME NEW f \in Files, encodeSlide(f) PROVE CompleteInv'
    <2>1. chan = <<>> /\ rx' = rx /\ losses' = losses
        BY <1>2 DEF encodeSlide
    <2>2. losses = 0 => rx.parts = {}
        BY <2>1, HeadOK DEF CompleteInv
    <2>3. CASE Slide(f).size = 0
        <3>1. chan' = <<>>
            BY <1>2, <2>1, <2>3 DEF encodeSlide
        <3> QED
            BY <2>1, <2>2, <3>1 DEF CompleteInv
    <2>4. CASE Slide(f).size # 0
        <3>1. OnAir(f)' /\ Len(chan') = 2 * Segments(f) + 2 /\ Segments(f) \in Nat
            BY <1>2, <2>4, EncodeStep, SegmentsOK
        <3>2. Len(chan') % 2 = 0 /\ (Len(chan') + 1) \div 2 = Segments(f) + 1
            BY <3>1
        <3>3. (Len(chan') + 1) \div 2 .. Segments(f) = {}
            BY <3>1, <3>2
        <3>4. Received(f)'
            BY <2>1, <2>2, <3>2, <3>3 DEF Received
        <3> QED
            BY <3>1, <3>4 DEF CompleteInv
    <2> QED
        BY <2>3, <2>4
<1>3. CASE Lose
    <2>1. losses' \in Nat /\ losses' # 0 /\ chan # <<>> /\ chan' = Tail(chan)
          /\ UNCHANGED <<cindex_header, cindex_body>>
        BY <1>3 DEF Lose, TypesInv
    <2>2. PICK f \in Files : OnAir(f)
        BY <2>1 DEF CompleteInv
    <2>3. chan' = <<>> \/ OnAir(f)'
        BY <2>1, <2>2, TailStep
    <2>4. Received(f)'
        BY <2>1 DEF Received
    <2> QED
        BY <2>1, <2>3, <2>4 DEF CompleteInv
<1>4. CASE Receive
    <2> DEFINE d == Head(chan)
               L == Len(chan)
    <2>1. /\ chan # <<>> /\ chan' = Tail(chan) /\ losses' = losses
          /\ UNCHANGED <<cindex_header, cindex_body>>
        BY <1>4 DEF Receive
    <2>2. PICK f \in Files : OnAir(f) /\ Received(f)
        BY <2>1 DEF CompleteInv
    <2>3. Len(chan') = L - 1 /\ (chan' = <<>> \/ OnAir(f)') /\ (chan' = <<>> <=> L = 1)
        BY <2>1, <2>2, TailStep
    <2>4. IsRx(rx) /\ L \in Nat \ {0} /\ Segments(f) \in Nat /\ Slide(f).size # 0
        BY <2>2, HeadOK, SegmentsOK DEF TypesInv, IsRx, OnAir
    <2>5. CASE losses # 0
        BY <2>1, <2>3, <2>5 DEF CompleteInv, Received
    <2>6. CASE losses = 0 /\ L % 2 = 0
        <3>1. d.kind = "dgli" /\ (L \div 2) - 1 \in 0 .. Segments(f)
              /\ d.len = Part(f, (L \div 2) - 1).size % 2 ^ 14
            BY <2>2, <2>6, HeadOK
        <3>2. rx' = [rx EXCEPT !.length = d.len]
            BY <1>4, <3>1 DEF Receive
        <3>3. rx'.length = d.len /\ rx'.parts = rx.parts
            BY <2>4, <3>2 DEF IsRx
        <3>4. d.len = Part(f, (L \div 2) - 1).size
            <4> DEFINE s == Part(f, (L \div 2) - 1).size
            <4>1. s \in 0 .. 2 ^ 14 - 1
                BY <3>1, SizesFit
            <4> HIDE DEF s
            <4>2. s % 2 ^ 14 = s
                BY <4>1
            <4> QED
                BY <3>1, <4>2 DEF s
        <3>5. (L - 1) \div 2 = (L \div 2) - 1 /\ (L - 1 + 1) \div 2 = (L + 1) \div 2 /\ L # 1
            <4> HIDE DEF L
            <4>1. PICK m \in Int : L = 2 * m
                BY <2>4, <2>6
            <4>2. L \div 2 = m /\ (L - 1) \div 2 = m - 1 /\ (L + 1) \div 2 = m /\ L - 1 + 1 = L
                BY <2>4, <4>1
            <4> QED
                BY <2>4, <4>1, <4>2
        <3>6. rx.parts = {Part(f, k) : k \in (L + 1) \div 2 .. Segments(f)}
            BY <2>2, <2>6 DEF Received
        <3> HIDE DEF d, L
        <3>7. Received(f)'
            BY <2>3, <3>3, <3>4, <3>5, <3>6 DEF Received
        <3> QED
            BY <2>3, <3>5, <3>7 DEF CompleteInv
    <2>7. CASE losses = 0 /\ L % 2 = 1
        <3> DEFINE k == L \div 2
        <3>1. /\ d.kind = "msc" /\ d.tid = f.fidx /\ k \in 0 .. Segments(f)
              /\ d.size = Part(f, k).size /\ [d EXCEPT !.cindex = 0] = Part(f, k)
            BY <2>2, <2>7, HeadOK
        <3>2. rx.length = d.size
            BY <2>2, <2>7, <3>1 DEF Received
        <3>3. rx' = RxMSC(rx, d)
            BY <1>4, <3>1, <3>2 DEF Receive
        <3>4. L = 2 * k + 1 /\ (L + 1) \div 2 = k + 1
            BY <2>4, <2>7
        <3>5. rx.parts = {Part(f, j) : j \in k + 1 .. Segments(f)}
            BY <2>2, <2>7, <3>4 DEF Received
        <3> HIDE DEF d, L, k
        <3>6. With(rx, d) = From(f, k)
            <4>1. k .. Segments(f) = {k} \cup (k + 1 .. Segments(f))
                BY <2>4, <3>1
            <4> QED
                BY <3>1, <3>5, <4>1 DEF With, From
        <3>7. Finished(rx, d).complete <=> k = 0
            BY <2>4, <3>1, <3>6, CompleteFrom DEF Finished
        <3>8. rx'.parts = IF Finished(rx, d).complete THEN {p \in rx.parts : p.tid # d.tid}
                          ELSE With(rx, d)
            BY <2>4, <3>3, RxShape
        <3>9. CASE k = 0
            <4>1. \A p \in rx.parts : p.tid = f.fidx
                <5> SUFFICES ASSUME NEW p \in rx.parts PROVE p.tid = f.fidx
                    OBVIOUS
                <5>1. PICK j \in k + 1 .. Segments(f) : p = Part(f, j)
                    BY <3>5
                <5>2. j \in 0 .. Segments(f)
                    BY <2>4, <3>1
                <5> QED
                    BY <5>1, <5>2, PartFields
            <4>2. rx'.parts = {}
                BY <3>1, <3>7, <3>8, <3>9, <4>1
            <4>3. chan' = <<>>
                BY <2>3, <3>4, <3>9
            <4> QED
                BY <4>2, <4>3 DEF CompleteInv
        <3>10. CASE k # 0
            <4>1. rx'.parts = From(f, k)
                BY <3>6, <3>7, <3>8, <3>10
            <4>2. L - 1 = 2 * k /\ (2 * k) % 2 = 0 /\ (2 * k + 1) \div 2 = k /\ L # 1
                BY <3>1, <3>4, <3>10
            <4>3. Received(f)'
                BY <2>3, <4>1, <4>2 DEF Received, From
            <4> QED
                BY <2>3, <4>2, <4>3 DEF CompleteInv
        <3> QED
            BY <3>9, <3>10
    <2> QED
        BY <2>4, <2>5, <2>6, <2>7
<1> QED
    BY <1>1, <1>2, <1>3, <1>4 DEF SLSNext

LEMMA InitComplete == SLSInit => CompleteInv
BY DEF SLSInit, RxInit, CompleteInv

\* If nothing is lost, a receiver has been able to present each slide when the next one
\* begins: nothing is left over (encodeSlide).
THEOREM NothingLeft ==
    ASSUME SlidesFit, GroupsFit
    PROVE  SLSSpec => []CompleteWithoutLoss
<1>1. CompleteInv => CompleteWithoutLoss
    BY HeadOK DEF CompleteInv, CompleteWithoutLoss
<1> QED
    BY <1>1, InitTypes, NextTypes, NextChan, InitComplete, NextComplete, PTL DEF SLSSpec

=============================================================================
