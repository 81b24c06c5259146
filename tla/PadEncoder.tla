------------------------------ MODULE PadEncoder ------------------------------
(***************************************************************************)
(* The main loop (src/src/odr-padenc.cpp), the socket to the audio encoder *)
(* (src/src/pad_interface.cpp) and PadEncoder::Encode with its timelines.  *)
(*                                                                         *)
(* Time advances by frames; the timelines are relative to now.  The        *)
(* packetizer is reduced to how much of a label and of a slide is left in  *)
(* its queue, labels in front; what is encoded, and from which files, is   *)
(* left to DLSEncoder and SlideCarousel.                                   *)
(***************************************************************************)
EXTENDS Integers, Sequences, FiniteSetsExt

CONSTANTS Options,      \* combinations of the options, see below
          PadLens,      \* PAD lengths the audio encoder may ask for
          Capacity,     \* what an X-PAD carries, for each PAD length
          LabelUnits,   \* the sizes of labels, in the same units; 0 if there is none to send
          SlideUnits,   \* the sizes of slides
          TIMEOUT,      \* poll's 240 ms, in frames
          MaxLag,       \* bound on how late a timeline is (model only)
          MaxUnusual    \* bound on the unusual events (model only)

VARIABLES opt,            \* slide_interval, label_interval and label_insertion in
                          \* frames, xpad_interval, dls_files: how many there are
          sock, silence,  \* datagrams to be read, frames since the last one
          wanted,         \* the PAD length the audio encoder asks for
          request_files,  \* the label files with a re-read request
          dump_current, dump_completed,  \* the two dump files
          pc, buffer, buflen,            \* where the program is, request buffer
          padlen, previous_padlen,
          enc,            \* the PadEncoder
          happened,       \* history: how often which unusual event happened
          unanswered,     \* history: requests read, but not answered
          aired, requested,  \* history: file of the last label encoded, file whose re-read
                             \* is still to be aired
          since_label        \* history: frames since the last change of label file

outsideVars == <<opt, sock, silence, wanted, request_files, happened>>
loopVars    == <<buffer, buflen, padlen, previous_padlen, unanswered>>
dumpVars    == <<dump_current, dump_completed>>
labelVars   == <<aired, requested, since_label>>
encoderVars == <<outsideVars, loopVars, dumpVars, labelVars, pc, enc>>

CheckPADLen(len) == len = 6 \/ len \in 8 .. 196

ASSUME OptionsAssumption ==
    Options \subseteq [slide_interval : Nat, label_interval : Nat, label_insertion : Nat,
                       xpad_interval : Nat \ {0}, dls_files : Nat \ {0}]
ASSUME PadLensAssumption == PadLens \subseteq 1 .. 255
ASSUME UnitsAssumption ==
    Capacity \in [6 .. 196 -> Nat \ {0}] /\ LabelUnits \subseteq Nat /\ SlideUnits \subseteq Nat \ {0}
ASSUME BoundsAssumption ==
    /\ {TIMEOUT, MaxLag, MaxUnusual} \subseteq Nat
    /\ \A o \in Options : o.label_interval <= MaxLag

MESSAGE_REQUEST == 1

\* A datagram is its first two bytes.
Request(p)    == <<MESSAGE_REQUEST, p>>
IsRequest(dg) == Len(dg) = 2 /\ dg[1] = MESSAGE_REQUEST
Foreign       == [empty |-> <<>>, short |-> <<2>>, foreign |-> <<2, 58>>]

Events == {"empty", "short", "foreign", "pause", "padlen", "reread", "rename", "failure",
           "restart"}

NoFile == -1

Least(a, b) == IF a <= b THEN a ELSE b

\* Faulty: a label file is switched to only after the first interval.
NewPadEncoderWaiting ==
    [next_slide |-> 0, next_label |-> opt.label_interval, next_label_insertion |-> 0,
     curr_dls_file |-> IF opt.dls_files > 1 THEN NoFile ELSE 0,
     xpad_interval_counter |-> 0, label_left |-> 0, slide_left |-> 0]

\* The constructor; with several files the first increment leads to the first one.
NewPadEncoder ==
    [next_slide |-> 0, next_label |-> 0, next_label_insertion |-> 0,
     curr_dls_file |-> IF opt.dls_files > 1 THEN NoFile ELSE 0,
     xpad_interval_counter |-> 0, label_left |-> 0, slide_left |-> 0]

-----------------------------------------------------------------------------
(***************************************************************************)
(* Outside.                                                                *)
(***************************************************************************)
Unusual(event) ==
    /\ MapThenSumSet(LAMBDA e : happened[e], Events) < MaxUnusual
    /\ happened' = [happened EXCEPT ![event] = @ + 1]

TimePasses ==
    LET Earlier(t) == IF t > -MaxLag THEN t - 1 ELSE t
    IN  /\ enc' = [enc EXCEPT !.next_slide = Earlier(@), !.next_label = Earlier(@),
                              !.next_label_insertion = Earlier(@)]
        /\ since_label' = Least(since_label + 1, MaxLag)

\* The audio encoder asks for a PAD in each frame, usually of the length before; the
\* program is done with the one before by then.
Frame ==
    /\ pc = "receive"
    /\ \A i \in 1 .. Len(sock) : ~IsRequest(sock[i])
    /\ wanted' \in PadLens
    /\ IF wanted' = wanted THEN UNCHANGED happened ELSE Unusual("padlen")
    /\ sock' = Append(sock, Request(wanted'))
    /\ silence' = 0
    /\ TimePasses
    /\ UNCHANGED <<opt, request_files, loopVars, dumpVars, pc, aired, requested>>

\* A frame without a request.
Pause ==
    /\ pc = "receive"
    /\ sock = <<>>
    /\ Unusual("pause")
    /\ silence' = Least(silence + 1, TIMEOUT)
    /\ TimePasses
    /\ UNCHANGED <<opt, sock, wanted, request_files, loopVars, dumpVars, pc, aired, requested>>

\* A datagram that is no request.
Intrude ==
    /\ pc = "receive"
    /\ sock = <<>>
    /\ \E kind \in {"empty", "short", "foreign"} : Unusual(kind) /\ sock' = <<Foreign[kind]>>
    /\ silence' = 0
    /\ UNCHANGED <<opt, wanted, request_files, loopVars, dumpVars, labelVars, pc, enc>>

RequestReread ==
    /\ Unusual("reread")
    /\ \E i \in 0 .. opt.dls_files - 1 : request_files' = request_files \cup {i}
    /\ UNCHANGED <<opt, sock, silence, wanted, loopVars, dumpVars, labelVars, pc, enc>>

-----------------------------------------------------------------------------
(***************************************************************************)
(* The main loop with receive_request.                                     *)
(***************************************************************************)
\* The buffer is as long as the datagram before; its memory stays what it was.
Received(dg) == Least(buflen, Len(dg))

Buffer(dg) == [i \in 1 .. 2 |-> IF i <= Received(dg) THEN dg[i] ELSE buffer[i]]

\* Faulty: one buffer for all the calls.
NoFreshBuffer == buffer' = <<0, 0>> /\ UNCHANGED buflen

FreshBuffer == buffer' = <<0, 0>> /\ buflen' = 4

CountRequest(dg) ==
    unanswered' = IF IsRequest(dg) THEN Least(unanswered + 1, MaxUnusual + 2) ELSE unanswered

SkipMessage ==
    /\ pc = "receive"
    /\ sock # <<>>
    /\ LET dg == Head(sock)
       IN  /\ Buffer(dg)[1] # MESSAGE_REQUEST
           /\ buffer' = Buffer(dg)
           /\ buflen' = Received(dg)
           /\ CountRequest(dg)
    /\ sock' = Tail(sock)
    /\ UNCHANGED <<opt, silence, wanted, request_files, happened, padlen, previous_padlen, dumpVars,
                   labelVars, pc, enc>>

\* poll times out: receive_request returns 0, and is called again.
Timeout ==
    /\ pc = "receive"
    /\ sock = <<>>
    /\ silence = TIMEOUT
    /\ silence' = 0
    /\ FreshBuffer
    /\ padlen' = 0
    /\ UNCHANGED <<opt, sock, wanted, request_files, happened, previous_padlen, unanswered, dumpVars,
                   labelVars, pc, enc>>

\* The dump file of a slide in transmission stays when its PadEncoder is dropped.
ReplacePadEncoder ==
    /\ dump_current' = IF dump_current = "onair" THEN "cut" ELSE dump_current
    /\ enc' = NewPadEncoder
    /\ requested' = NoFile
    /\ since_label' = MaxLag

\* Nothing is done for length 0; another length than before needs a new PadEncoder; an
\* invalid one is the end.
ReceiveRequest ==
    /\ pc = "receive"
    /\ sock # <<>>
    /\ LET dg == Head(sock)
           p  == Buffer(dg)[2]
       IN  /\ Buffer(dg)[1] = MESSAGE_REQUEST
           /\ CountRequest(dg)
           /\ padlen' = p
           /\ previous_padlen' = IF p > 0 THEN p ELSE previous_padlen
           /\ IF CheckPADLen(p) /\ p # previous_padlen
              THEN ReplacePadEncoder
              ELSE UNCHANGED <<dump_current, enc, requested, since_label>>
           /\ pc' = IF p = 0 THEN "receive" ELSE IF CheckPADLen(p) THEN "complete" ELSE "exit"
    /\ FreshBuffer
    /\ sock' = Tail(sock)
    /\ UNCHANGED <<opt, silence, wanted, request_files, happened, dump_completed, aired>>

-----------------------------------------------------------------------------
(***************************************************************************)
(* Encode.                                                                 *)
(***************************************************************************)
\* Faulty: takes a slide for complete whose last part is still in the queue.
SlideQueuedNearly == enc.slide_left > 1

SlideQueued == enc.slide_left > 0

SlideDue == IF opt.slide_interval > 0 THEN enc.next_slide <= 0 ELSE ~SlideQueued

\* Faulty: not when the next slide is about to be encoded.
TransmittedLate == ~SlideQueued /\ ~SlideDue /\ dump_current # "none"

Transmitted == ~SlideQueued /\ dump_current # "none"

\* The dump of a slide that has been transmitted is renamed; that may fail.
CompleteSlide ==
    /\ pc = "complete"
    /\ \/ ~Transmitted /\ UNCHANGED <<dumpVars, happened>>
       \/ /\ Transmitted
          /\ dump_completed' = dump_current
          /\ dump_current' = "none"
          /\ UNCHANGED happened
       \/ Transmitted /\ Unusual("rename") /\ UNCHANGED dumpVars
    /\ pc' = "slide"
    /\ UNCHANGED <<opt, sock, silence, wanted, request_files, loopVars, labelVars, enc>>

\* EncodeSlide: skipped while a slide is in transmission; else a slide is queued and
\* dumped, or there is none that works.
HandleSLS ==
    /\ pc = "slide"
    /\ LET timeline == IF SlideDue /\ opt.slide_interval > 0
                       THEN enc.next_slide + opt.slide_interval ELSE enc.next_slide
       IN  \/ /\ enc' = [enc EXCEPT !.next_slide = timeline]
              /\ UNCHANGED dump_current
           \/ /\ SlideDue /\ ~SlideQueued
              /\ \E slide \in SlideUnits :
                    enc' = [enc EXCEPT !.next_slide = timeline, !.slide_left = slide]
              /\ dump_current' = "onair"
    /\ pc' = "label"
    /\ UNCHANGED <<outsideVars, loopVars, dump_completed, labelVars>>

\* Of the label files with a re-read request the last one counts.
LastRequested(r) == \A i \in request_files : i <= r

\* Faulty: leaves the timeline of the label files as it is.
RereadKeepingTimeline(r) ==
    IF r = NoFile THEN enc
    ELSE [enc EXCEPT !.curr_dls_file = r, !.next_label_insertion = 0]

\* Faulty: leaves the label to its regular insertion.
RereadUnenforced(r) ==
    IF r = NoFile THEN enc
    ELSE [enc EXCEPT !.curr_dls_file = r, !.next_label = opt.label_interval]

Reread(r) ==
    IF r = NoFile THEN enc
    ELSE [enc EXCEPT !.curr_dls_file = r, !.next_label = opt.label_interval,
                     !.next_label_insertion = 0]

Rotates(e) == opt.dls_files > 1 /\ e.next_label <= 0

\* Faulty: leaves the label to its regular insertion.
SwitchUnenforced(e) ==
    IF Rotates(e) THEN [e EXCEPT !.curr_dls_file = (@ + 1) % opt.dls_files,
                                 !.next_label = @ + opt.label_interval]
    ELSE e

\* Faulty: does not begin anew after the last file.
SwitchOn(e) ==
    IF Rotates(e) THEN [e EXCEPT !.curr_dls_file = @ + 1,
                                 !.next_label = @ + opt.label_interval,
                                 !.next_label_insertion = 0]
    ELSE e

Switch(e) ==
    IF Rotates(e) THEN [e EXCEPT !.curr_dls_file = (@ + 1) % opt.dls_files,
                                 !.next_label = @ + opt.label_interval,
                                 !.next_label_insertion = 0]
    ELSE e

\* EncodeLabel: put off until the label before has been transmitted.
LabelDue(e) == e.next_label_insertion <= 0 /\ e.label_left = 0

\* Faulty: the timeline stays where it is.
InsertLabelAgain(e, label) == IF LabelDue(e) THEN [e EXCEPT !.label_left = label] ELSE e

InsertLabel(e, label) ==
    IF LabelDue(e) THEN [e EXCEPT !.next_label_insertion = @ + opt.label_insertion,
                                  !.label_left = label]
    ELSE e

\* CheckRereadFile for each label file: requests are erased, which may fail.
CheckRereadFiles == request_files' \in SUBSET request_files

HandleDLS ==
    /\ pc = "label"
    /\ CheckRereadFiles
    /\ \E r \in request_files \cup {NoFile}, label \in LabelUnits :
          LET e == Switch(Reread(r))
              awaited == IF r = NoFile THEN requested ELSE r
          IN  /\ LastRequested(r)
              /\ enc' = InsertLabel(e, label)
              /\ aired' = IF LabelDue(e) THEN e.curr_dls_file ELSE aired
              /\ requested' = IF LabelDue(e) /\ e.curr_dls_file = awaited THEN NoFile ELSE awaited
              /\ since_label' = IF r # NoFile \/ Rotates(Reread(r)) THEN 0 ELSE since_label
    /\ pc' = "pad"
    /\ UNCHANGED <<opt, sock, silence, wanted, happened, loopVars, dumpVars>>

\* A PAD is fetched and sent.
SendPAD ==
    /\ pc = "pad"
    /\ LET carried == IF enc.xpad_interval_counter = 0 THEN Capacity[padlen] ELSE 0
           label   == Least(enc.label_left, carried)
           slide   == Least(enc.slide_left, carried - label)
       IN  /\ enc' = [enc EXCEPT !.label_left = @ - label, !.slide_left = @ - slide,
                          !.xpad_interval_counter = (@ + 1) % opt.xpad_interval]
           /\ dump_current' = IF dump_current = "onair" /\ enc.slide_left = slide THEN "sent"
                              ELSE dump_current
    /\ unanswered' = unanswered - 1
    /\ pc' = "receive"
    /\ UNCHANGED <<outsideVars, buffer, buflen, padlen, previous_padlen, dump_completed, labelVars>>

-----------------------------------------------------------------------------
\* poll or recvfrom, the reading of the slides directory, or the look for a re-read
\* request fails: the end.
Fail ==
    /\ \/ pc \in {"receive", "label"}
       \/ pc = "slide" /\ SlideDue /\ ~SlideQueued
    /\ Unusual("failure")
    /\ pc' = "exit"
    /\ UNCHANGED <<opt, sock, silence, wanted, request_files, loopVars, dumpVars, labelVars, enc>>

\* The program is killed and started again, or started again after its end.
Restart ==
    /\ Unusual("restart")
    /\ pc' = "receive"
    /\ sock' = <<>>
    /\ silence' = 0
    /\ FreshBuffer
    /\ padlen' = 0
    /\ previous_padlen' = 0
    /\ unanswered' = 0
    /\ ReplacePadEncoder
    /\ UNCHANGED <<opt, wanted, request_files, dump_completed, aired>>

EncoderInit ==
    /\ opt \in Options
    /\ sock = <<>> /\ silence = 0
    /\ wanted \in PadLens /\ CheckPADLen(wanted)
    /\ request_files = {}
    /\ dump_current = "none" /\ dump_completed = "none"
    /\ pc = "receive"
    /\ buffer = <<0, 0>> /\ buflen = 4
    /\ padlen = 0 /\ previous_padlen = 0
    /\ enc = NewPadEncoder
    /\ happened = [e \in Events |-> 0]
    /\ unanswered = 0
    /\ aired = NoFile /\ requested = NoFile
    /\ since_label = MaxLag

Program ==
    \/ SkipMessage \/ Timeout \/ ReceiveRequest
    \/ CompleteSlide \/ HandleSLS \/ HandleDLS \/ SendPAD

EncoderNext == Program \/ Frame \/ Pause \/ Intrude \/ RequestReread \/ Fail \/ Restart

\* The program runs, and the audio encoder goes on to ask for PADs.
EncoderSpec == EncoderInit /\ [][EncoderNext]_encoderVars /\ WF_encoderVars(Program) /\ WF_encoderVars(Frame)

-----------------------------------------------------------------------------
(***************************************************************************)
(* Properties.                                                             *)
(***************************************************************************)
PadEncoders ==
    [next_slide : Int, next_label : Int, next_label_insertion : Int,
     curr_dls_file : NoFile .. opt.dls_files - 1,
     xpad_interval_counter : 0 .. opt.xpad_interval - 1,
     label_left : Nat, slide_left : Nat]

PadEncoderTypeOK ==
    /\ opt \in Options
    /\ sock \in Seq(Seq(Nat)) /\ silence \in 0 .. TIMEOUT
    /\ wanted \in PadLens
    /\ request_files \subseteq 0 .. opt.dls_files - 1
    /\ {dump_current, dump_completed} \subseteq {"none", "onair", "sent", "cut"}
    /\ pc \in {"receive", "complete", "slide", "label", "pad", "exit"}
    /\ buffer \in [1 .. 2 -> Nat] /\ buflen \in 0 .. 4
    /\ padlen \in Nat /\ previous_padlen \in Nat
    /\ enc \in PadEncoders
    /\ happened \in [Events -> Nat]
    /\ unanswered \in Int
    /\ aired \in Int /\ requested \in Int
    /\ since_label \in 0 .. MaxLag

\* Every request was received and answered in time.
Undisturbed == \A e \in {"pause", "empty", "short"} : happened[e] = 0

\* The completed dump never is of a slide still in the queue (Encode's test before
\* rename), and of one transmitted in part only if its PadEncoder was replaced: by a
\* restart, for another PAD length, or for a length misread after a short datagram.
CompletedIsSent ==
    /\ dump_completed # "onair"
    /\ dump_completed = "cut" =>
           \E e \in {"restart", "padlen", "short"} : happened[e] > 0

\* The dump of a slide that has been transmitted is not overwritten by that of the next
\* slide, also when slides follow each other at once (Encode's order), unless its
\* renaming failed.
CompletedIsMoved ==
    [][dump_current = "sent" /\ dump_current' = "onair" => happened["rename"] > 0]_encoderVars

\* A request is answered by one PAD of the length it asks for; a short datagram costs at
\* most one request (receive_request's buffer).  After an empty one all requests are
\* lost until poll times out.
RequestsAnswered ==
    LET now == IF pc \in {"complete", "slide", "label", "pad"} THEN 1 ELSE 0
    IN  /\ happened["short"] = 0 /\ happened["empty"] = 0 /\ pc # "exit" =>
               /\ unanswered = now
               /\ now = 1 => padlen = wanted
        /\ happened["empty"] = 0 /\ pc # "exit" => unanswered <= now + happened["short"]

\* A label in transmission is from one of the files, also right after the start, where
\* with several files none is chosen yet (PadEncoder's constructor, EncodeLabel).
LabelHasFile ==
    enc.label_left > 0 => enc.curr_dls_file # NoFile /\ aired \in 0 .. opt.dls_files - 1

\* A label file is followed by the next one only when its interval is over, also if it
\* was taken out of turn (next_label in Encode).
FileKeepsInterval ==
    [][Undisturbed /\ pc = "label" /\ pc' = "pad" /\ request_files = {} =>
           \/ enc'.curr_dls_file = enc.curr_dls_file
           \/ since_label >= opt.label_interval]_encoderVars

\* Any label, at any PAD length, takes less than an interval: the next file finds it
\* transmitted.
LabelsInTime ==
    {o \in Options :
        \A label \in LabelUnits, p \in {q \in 6 .. 196 : CheckPADLen(q)} :
            \E k \in 0 .. o.label_interval :
                label <= k * Capacity[p] /\ k * o.xpad_interval < o.label_interval}

\* A label file asked for is aired before the next one has its turn, if labels are in
\* time (next_label_insertion in Encode).
RereadIsAired ==
    [][Undisturbed /\ pc = "label" /\ pc' = "pad" /\ request_files = {} /\ requested # NoFile
           /\ opt \in LabelsInTime => ~Rotates(enc)]_encoderVars

\* Each label file is aired again and again as long as the program runs (Encode's enforced
\* insertion), if labels are in time, no file is asked for again and again, and requests
\* can be erased; even if a file's interval is shorter than that of its insertions.
EveryFileAired ==
    opt \in LabelsInTime /\ <>[](request_files = {})
        => \A i \in 0 .. 2 :
               []<>(aired = i \/ i >= opt.dls_files \/ pc = "exit" \/ happened["empty"] > 0)

\* Labels do not take all of the X-PAD: one at each change of file and one at each
\* insertion, at the shortest PAD length.
LabelsLeaveRoom ==
    {o \in Options :
        (1 + (o.label_interval \div o.label_insertion)) * Max(LabelUnits) * o.xpad_interval
            < o.label_interval * Min({Capacity[p] : p \in DOMAIN Capacity})}

\* A slide is transmitted in the end, though labels come first, if they leave room
\* (next_label_insertion in Encode) and are not asked for again and again.
SlideSent ==
    <>[](request_files = {})
        => (enc.slide_left > 0 /\ opt \in LabelsLeaveRoom
                ~> enc.slide_left = 0 \/ pc = "exit" \/ happened["empty"] > 0)

=============================================================================
