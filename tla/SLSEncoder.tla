------------------------------ MODULE SLSEncoder ------------------------------
(***************************************************************************)
(* The MOT slide encoder (src/src/sls.cpp): from a slide's file and its    *)
(* parameter file to data groups, and what a receiver makes of these.      *)
(*                                                                         *)
(* A file is what ImageMagick or stat say of it: its sizes as it is, as    *)
(* PNG and as JPEG of each quality, its format and dimensions.  The bytes  *)
(* of a slide are their positions.  Numbers that go into fields lose the   *)
(* bits that the field does not have.  Data groups may be lost on the way; *)
(* those that are damaged are lost too, by their CRC.                      *)
(***************************************************************************)
EXTENDS SlideSegments, Sequences, FiniteSetsExt

CONSTANTS Files,           \* the slides there are, each with an fidx of its own
          max_slide_size,  \* the option
          MaxEncoded,      \* bound on the slides encoded (model only)
          MaxLost          \* bound on the data groups lost (model only)

MINQUALITY == 40

VARIABLES cindex_header, cindex_body,
          encoded,   \* how many calls of encodeSlide there have been
          chan,      \* the data groups queued and on their way
          losses,    \* how many data groups have been lost
          gap,       \* history: how many MSC data groups of each type have been
                     \* lost since one was received
          rx         \* the receiver

slsVars == <<cindex_header, cindex_body, encoded, chan, losses, gap, rx>>

-----------------------------------------------------------------------------
(***************************************************************************)
(* The picture.                                                            *)
(***************************************************************************)
NoSlide == [size |-> 0, jfif |-> TRUE, content |-> "none", asis |-> TRUE,
            width |-> 0, height |-> 0]

TooLarge(png, jpg) == png > max_slide_size /\ jpg > max_slide_size

\* The loop ends after one turn.  A picture scaled to nothing stays as it is, which
\* is up to ImageMagick.
Scaled(f) ==
    LET tall == f.height * 320 > f.width * 240
        w    == IF tall THEN (f.width * 240) \div f.height ELSE 320
        h    == IF tall THEN 240 ELSE (f.height * 320) \div f.width
    IN  IF (f.height > 240 \/ f.width > 320) /\ w > 0 /\ h > 0
        THEN [width |-> w, height |-> h]
        ELSE [width |-> f.width, height |-> f.height]

\* JPEG qualities from 95 down to the first that is small enough, or MINQUALITY;
\* the smaller one of PNG and JPEG, if it is small enough.
Qualities == {q \in MINQUALITY .. 95 : q % 5 = 0}

resizeImage(f) ==
    LET small == {q \in Qualities : f.jpg[q] <= max_slide_size}
        jpg   == f.jpg[Max(small \cup {MINQUALITY})]
        jfif  == jpg < f.png
    IN  IF TooLarge(f.png, jpg) THEN NoSlide
        ELSE [size |-> IF jfif THEN jpg ELSE f.png, jfif |-> jfif,
              content |-> IF jfif THEN "JPEG" ELSE "PNG", asis |-> FALSE,
              width |-> Scaled(f).width, height |-> Scaled(f).height]

\* Faulty: does not look at the dimensions.
NoResizeNeededAnySize(f) ==
    /\ f.format \in {"JPEG", "PNG"}
    /\ ~f.progressive
    /\ f.size <= max_slide_size

NoResizeNeeded(f) ==
    /\ f.format \in {"JPEG", "PNG"}
    /\ f.height <= 240 /\ f.width <= 320
    /\ ~f.progressive
    /\ f.size <= max_slide_size

\* A raw slide (by its name, or the option) is taken as it is, whatever its size, and
\* for JPEG unless its name says PNG; an empty one cannot be read.
Slide(f) ==
    IF ~f.readable THEN NoSlide
    ELSE IF f.raw
         THEN [size |-> f.size, jfif |-> ~f.named_png, content |-> "raw", asis |-> TRUE,
               width |-> f.width, height |-> f.height]
    ELSE IF NoResizeNeeded(f)
         THEN [size |-> f.size, jfif |-> f.format # "PNG", content |-> f.format, asis |-> TRUE,
               width |-> f.width, height |-> f.height]
    ELSE resizeImage(f)

-----------------------------------------------------------------------------
(***************************************************************************)
(* The MOT header: its core of 7 bytes and the extensions, each one byte   *)
(* with pli and param_id, none to two for the length, and the data.        *)
(* length is that of the bytes written, parsed how many of these a         *)
(* receiver takes for the header that walks through the extensions.        *)
(***************************************************************************)
MOTHeader(body_size, jfif) ==
    [body_size |-> body_size % 2 ^ 28, header_size |-> 7, subtype |-> IF jfif THEN 1 ELSE 3,
     exts |-> <<>>, length |-> 7, parsed |-> 7]

\* Faulty: one byte for lengths up to 255, though it has 7 bits.
LengthBytes255(len) ==
    CASE len \in {0, 1, 4} -> 0
      [] len \notin {0, 1, 4} /\ len <= 255 -> 1
      [] len > 255 -> 2

LengthBytes(len) ==
    CASE len \in {0, 1, 4} -> 0
      [] len \notin {0, 1, 4} /\ len <= 127 -> 1
      [] len > 127 -> 2

\* The data length that a receiver reads.
CodedLength(len) ==
    CASE LengthBytes(len) = 0 -> len
      [] LengthBytes(len) = 1 -> len % 128
      [] LengthBytes(len) = 2 -> len % 2 ^ 15

AddExtension(header, id, len) ==
    LET before == 1 + LengthBytes(len)
    IN  [header EXCEPT !.exts = Append(@, id),
                       !.length = @ + (before + len),
                       !.header_size = @ + (before + len),
                       !.parsed = @ + (before + CodedLength(len))]

\* One line of the parameter file; what is unknown, too long or no pair of bytes is
\* ignored.
LengthMax == [CategoryTitle |-> 128, ClickThroughURL |-> 512, AlternativeLocationURL |-> 512]
ParamId   == [CategoryTitle |-> 38, ClickThroughURL |-> 39, AlternativeLocationURL |-> 40]

AddParam(header, param) ==
    IF param.key = "CategoryID/SlideID"
    THEN IF param.ids \in (0 .. 255) \X (0 .. 255) THEN AddExtension(header, 37, 2) ELSE header
    ELSE IF param.key \in DOMAIN ParamId /\ param.len <= LengthMax[param.key]
         THEN AddExtension(header, ParamId[param.key], param.len)
         ELSE header

\* Lengths are numbers, there is a picture in each file, and get_fidx gives each slide an
\* id of its own.
ASSUME FilesAssumption ==
    /\ max_slide_size \in Nat
    /\ \A f \in Files :
          /\ f.size \in Nat /\ f.png \in Nat /\ f.jpg \in [Qualities -> Nat]
          /\ f.width \in Nat \ {0} /\ f.height \in Nat \ {0}
          /\ Len(f.params) \in Nat
          /\ \A i \in 1 .. Len(f.params) :
                f.params[i].key \in DOMAIN ParamId => f.params[i].len \in Nat
    /\ \A f, g \in Files : f.fidx = g.fidx => f = g

\* TriggerTime and ContentName, then the parameter file; the sizes of the fields are
\* applied as GetData hands them out.
createMotHeader(slide, fidx, params) ==
    LET fixed == AddExtension(AddExtension(MOTHeader(slide.size, slide.jfif), 5, 4), 12, 9)
        Added[n \in 0 .. Len(params)] ==
            IF n = 0 THEN fixed ELSE AddParam(Added[n - 1], params[n])
        all   == Added[Len(params)]
    IN  [body_size   |-> all.body_size,
         header_size |-> all.header_size % 2 ^ 13,
         subtype     |-> all.subtype,
         name        |-> <<fidx, IF slide.jfif THEN "jpg" ELSE "png">>,
         exts        |-> all.exts,
         length      |-> all.length,
         parsed      |-> all.parsed]

-----------------------------------------------------------------------------
(***************************************************************************)
(* Data groups.                                                            *)
(***************************************************************************)
\* createMscDG and packMscDG: header of 9 bytes, segment, CRC.
MscDG(dgtype, cindex, segnum, last, tid, data, datalen) ==
    [kind |-> "msc", dgtype |-> dgtype, cindex |-> cindex, last |-> last,
     segnum |-> segnum % 2 ^ 15, tid |-> tid, seglen |-> datalen % 2 ^ 13,
     data |-> data, size |-> 9 + (datalen % 2 ^ 16) + 2]

\* Faulty: without the CRC.
CreateDataGroupLengthIndicatorBare(len) == [kind |-> "dgli", len |-> (len - 2) % 2 ^ 14]

CreateDataGroupLengthIndicator(len) == [kind |-> "dgli", len |-> len % 2 ^ 14]

\* Faulty: one for each slide.
advanceOnce(cindex, count) == (cindex + 1) % 16

advance(cindex, count) == (cindex + count) % 16

\* Faulty: the last segment but one is the last, too.
IsLastTooEarly(slide, i) == i >= nseg(slide.size) - 2

\* Faulty: counts from 1.
IsLastTooLate(slide, i) == i = nseg(slide.size)

IsLast(slide, i) == i = nseg(slide.size) - 1

\* The header, and the segments of the body.
MscDGs(f, slide) ==
    LET header == createMotHeader(slide, f.fidx, f.params)
    IN  <<MscDG(3, cindex_header, 0, TRUE, f.fidx, header, header.length)>>
        \o [n \in 1 .. nseg(slide.size) |->
              MscDG(4, advance(cindex_body, n - 1), n - 1, IsLast(slide, n - 1), f.fidx,
                    SegmentBytes(slide.size, n - 1), curseglen(slide.size, n - 1))]

\* encodeSlide is called when nothing of a slide is queued; it queues the data groups,
\* each behind its length indicator, or nothing.
encodeSlide(f) ==
    /\ encoded < MaxEncoded
    /\ chan = <<>>
    /\ encoded' = encoded + 1
    /\ LET slide == Slide(f)
           dgs   == MscDGs(f, slide)
       IN  IF slide.size = 0 THEN UNCHANGED <<cindex_header, cindex_body, chan>>
           ELSE /\ chan' = [i \in 1 .. 2 * Len(dgs) |->
                              IF i % 2 = 1
                              THEN CreateDataGroupLengthIndicator(dgs[(i + 1) \div 2].size)
                              ELSE dgs[i \div 2]]
                /\ cindex_header' = advance(cindex_header, 1)
                /\ cindex_body' = advance(cindex_body, nseg(slide.size))
    /\ UNCHANGED <<losses, gap, rx>>

-----------------------------------------------------------------------------
(***************************************************************************)
(* The way to the receiver, and the receiver, neither part of the          *)
(* repository.  It takes an MSC data group only if it has the length       *)
(* indicated, collects for each transport id the header and the segments,  *)
(* and presents an object when it has the header, a last segment and all   *)
(* segments before.  cindex is that of the last data group of each type.   *)
(***************************************************************************)
Types == {3, 4}

RxInit == [length |-> 0, cindex |-> [t \in Types |-> -1], parts |-> {}, got |-> {}]

Object(parts, tid) ==
    LET own == {p \in parts : p.tid = tid}
        of  == {p \in own : p.dgtype = 4}
    IN  [tid |-> tid,
         complete |-> /\ \E p \in own : p.dgtype = 3
                      /\ \E p \in of : p.last /\ {q.segnum : q \in of} = 0 .. p.segnum,
         header |-> {p.data : p \in own \ of},
         body |-> UNION {p.data : p \in of}]

RxMSC(r, dg) ==
    LET parts == r.parts \cup {[dg EXCEPT !.cindex = 0]}
        o     == Object(parts, dg.tid)
    IN  [r EXCEPT !.cindex[dg.dgtype] = dg.cindex,
                  !.parts = IF o.complete THEN {p \in @ : p.tid # dg.tid} ELSE parts,
                  !.got = IF o.complete THEN @ \cup {o} ELSE @]

Receive ==
    /\ chan # <<>>
    /\ LET dg == Head(chan)
       IN  IF dg.kind = "dgli"
           THEN /\ rx' = [rx EXCEPT !.length = dg.len]
                /\ UNCHANGED gap
           ELSE /\ rx' = IF rx.length = dg.size THEN RxMSC(rx, dg) ELSE rx
                /\ gap' = [gap EXCEPT ![dg.dgtype] = IF rx.length = dg.size THEN 0 ELSE @ + 1]
    /\ chan' = Tail(chan)
    /\ UNCHANGED <<cindex_header, cindex_body, encoded, losses>>

Lose ==
    /\ chan # <<>>
    /\ losses < MaxLost
    /\ losses' = losses + 1
    /\ chan' = Tail(chan)
    /\ gap' = IF Head(chan).kind = "msc" THEN [gap EXCEPT ![Head(chan).dgtype] = @ + 1] ELSE gap
    /\ UNCHANGED <<cindex_header, cindex_body, encoded, rx>>

-----------------------------------------------------------------------------
SLSInit ==
    /\ cindex_header = 0
    /\ cindex_body = 0
    /\ encoded = 0
    /\ chan = <<>>
    /\ losses = 0
    /\ gap = [t \in Types |-> 0]
    /\ rx = RxInit

SLSNext ==
    \/ \E f \in Files : encodeSlide(f)
    \/ Receive
    \/ Lose

SLSSpec == SLSInit /\ [][SLSNext]_slsVars

-----------------------------------------------------------------------------
(***************************************************************************)
(* Properties.                                                             *)
(***************************************************************************)
FileOf(tid) == CHOOSE f \in Files : f.fidx = tid

\* The header in the channel, if there is one.
Headers == {chan[i].data : i \in {j \in 1 .. Len(chan) : chan[j].kind = "msc" /\ chan[j].dgtype = 3}}

\* What is sent is fit for receivers of the Simple Profile: unless it is raw, it is no
\* larger than the option allows, not progressive, and "320x240 pixels" at most (a
\* picture so narrow that it would be scaled to nothing excepted); and whatever has
\* been done to the picture, header and name tell the format the bytes really have.
SlideAcceptable ==
    \A h \in Headers :
        LET f == FileOf(h.name[1])
            s == Slide(f)
        IN  /\ ~f.raw =>
                 /\ s.size <= max_slide_size
                 /\ f.progressive => ~s.asis
                 /\ f.height <= 240 * f.width /\ f.width <= 320 * f.height
                       => s.width <= 320 /\ s.height <= 240
                 /\ s.content = (IF h.subtype = 1 THEN "JPEG" ELSE "PNG")
            /\ h.name[2] = (IF h.subtype = 1 THEN "jpg" ELSE "png")

\* A receiver gets the whole body, as long as the header says: whatever has been lost
\* and completed by a repetition of the slide, no byte is missing, doubled or out of
\* place.  Not so for sizes that are multiples of MAXSEGLEN: see BodyComplete.
ObjectComplete ==
    \A o \in rx.got :
        LET size == Slide(FileOf(o.tid)).size
        IN  /\ {h.body_size : h \in o.header} = {size}
            /\ size % MAXSEGLEN # 0 => o.body = 0 .. size - 1

\* Walking through the extensions by the lengths it finds, a receiver arrives exactly
\* at the end of the header, for each way to code a length and each parameter, as
\* long as the header's size fits its field.
HeaderParses ==
    \A h \in Headers :
        h.length < 2 ^ 13 =>
            h.header_size = h.length /\ h.parsed = h.length

\* The length indicated in front of an MSC data group is its length, also for the
\* header, which is not cut into segments and may exceed 1024 bytes.
LengthsIndicated ==
    \A i \in 1 .. Len(chan) - 1 :
        chan[i].kind = "dgli" => chan[i + 1].kind = "msc" /\ chan[i + 1].size = chan[i].len

\* Whatever is lost, from the continuity indices a receiver learns how many data groups
\* of a type it has missed, across segments, slides, and the index's roll-over.
LossesCounted ==
    chan # <<>> /\ Head(chan).kind = "msc" =>
        LET t == Head(chan).dgtype
        IN  rx.cindex[t] # -1 => (Head(chan).cindex + 15 - rx.cindex[t]) % 16 = gap[t] % 16

\* If nothing is lost, a receiver has been able to present each slide sent when the
\* next one begins.
CompleteWithoutLoss == losses = 0 /\ chan = <<>> => rx.parts = {}

\* "core.body_size", the size of the slide as it is announced, is what is sent.
BodyComplete == \A o \in rx.got : \A h \in o.header : Cardinality(o.body) = h.body_size
=============================================================================
