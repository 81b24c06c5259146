-------------------------------- MODULE PADLink --------------------------------
(***************************************************************************)
(* The packetizer between the encoders that fill its queue and a receiver  *)
(* that has only the PADs.                                                 *)
(*                                                                         *)
(* The encoders keep the discipline of PadEncoder::EncodeLabel and         *)
(* ::EncodeSlide: at most one label and one slide are queued, a label goes *)
(* in front of everything, a slide (a length indicator before each of its  *)
(* data groups) behind.  The receiver is not part of the repository: it is *)
(* modelled from the format FlushPAD writes.  A PAD that cannot be sent is  *)
(* lost, and the packetizer is none the wiser.                             *)
(***************************************************************************)
EXTENDS PADPacketizer

CONSTANTS Labels,        \* labels: the sizes of their data groups
          Slides,        \* slides: the sizes of their MSC data groups
          MaxLabels,     \* bound on the labels sent (model only)
          MaxSlides,     \* bound on the slides sent (model only)
          MaxLost,       \* bound on the PADs lost (model only)
          XPadIntervals  \* values of the option xpad-interval

VARIABLES xpad_interval,          \* the option, fixed
          xpad_interval_counter,
          labels, slides,         \* how many have been encoded
          sent,                   \* history: data groups queued per channel
          lost,                   \* history: how many PADs have been lost
          hit,                    \* history: <<channel, data group>> affected
          rx                      \* the receiver

linkVars == <<xpad_interval, xpad_interval_counter, labels, slides, sent, lost, hit, rx>>
allVars  == <<vars, linkVars>>

\* Labels and slides are data groups with bytes, and there are X-PADs.
ASSUME LinkAssumption ==
    /\ Labels \in SUBSET Seq(Nat \ {0}) /\ Slides \in SUBSET Seq(Nat \ {0})
    /\ XPadIntervals \in SUBSET (Nat \ {0})

DGLI == [start |-> 1,  cont |-> 1]     \* data group length indicator
DLS  == [start |-> 2,  cont |-> 3]
MOT  == [start |-> 12, cont |-> 13]

Channel(apptype) == CASE apptype = 1         -> "dgli"
                      [] apptype \in {2, 3}   -> "dls"
                      [] apptype \in {12, 13} -> "mot"

Channels == {"dls", "mot"}

\* The indicator of the length of a data group of 4 bytes, CRC included.
DGLI_SIZE == 4

DG(app, payload, size) ==
    [app |-> app, payload |-> payload, size |-> size, written |-> 0]

-----------------------------------------------------------------------------
(***************************************************************************)
(* The encoders.                                                           *)
(***************************************************************************)
\* PadEncoder::EncodeLabel: delayed while a label is in transmission.
EncodeLabel(sizes) ==
    LET next == Len(sent["dls"])
        dgs  == [i \in 1 .. Len(sizes) |-> DG(DLS, next + i, sizes[i])]
    IN  /\ labels < MaxLabels
        /\ ~QueueContainsDG(DLS.start)
        /\ AddDGs(dgs, TRUE)
        /\ labels' = labels + 1
        /\ sent' = [sent EXCEPT !["dls"] = @ \o [i \in 1 .. Len(sizes) |-> next + i]]
        /\ UNCHANGED <<xpad_interval, xpad_interval_counter, slides, lost, hit, rx>>

\* Faulty: each length indicator follows its data group.
EncodeSlideSwapped(sizes) ==
    LET next == Len(sent["mot"])
        dgs  == [i \in 1 .. 2 * Len(sizes) |->
                   IF i % 2 = 0
                   THEN DG(DGLI, next + i \div 2, DGLI_SIZE)
                   ELSE DG(MOT, next + (i + 1) \div 2, sizes[(i + 1) \div 2])]
    IN  /\ slides < MaxSlides
        /\ ~QueueContainsDG(MOT.start)
        /\ AddDGs(dgs, FALSE)
        /\ slides' = slides + 1
        /\ sent' = [sent EXCEPT !["mot"] = @ \o [i \in 1 .. Len(sizes) |-> next + i]]
        /\ UNCHANGED <<xpad_interval, xpad_interval_counter, labels, lost, hit, rx>>

\* PadEncoder::EncodeSlide: skipped while a slide is in transmission.
EncodeSlide(sizes) ==
    LET next == Len(sent["mot"])
        dgs  == [i \in 1 .. 2 * Len(sizes) |->
                   IF i % 2 = 1
                   THEN DG(DGLI, next + (i + 1) \div 2, DGLI_SIZE)
                   ELSE DG(MOT, next + i \div 2, sizes[i \div 2])]
    IN  /\ slides < MaxSlides
        /\ ~QueueContainsDG(MOT.start)
        /\ AddDGs(dgs, FALSE)
        /\ slides' = slides + 1
        /\ sent' = [sent EXCEPT !["mot"] = @ \o [i \in 1 .. Len(sizes) |-> next + i]]
        /\ UNCHANGED <<xpad_interval, xpad_interval_counter, labels, lost, hit, rx>>

\* Faulty: the counter is not reset when the interval is over.
RequestPADOnce ==
    /\ GetNextPAD(xpad_interval_counter = 0)
    /\ xpad_interval_counter' = IF xpad_interval_counter + 1 < xpad_interval
                                THEN xpad_interval_counter + 1 ELSE xpad_interval_counter
    /\ UNCHANGED <<xpad_interval, labels, slides, sent, lost, hit, rx>>

\* The end of PadEncoder::Encode: a PAD is requested, every xpad_interval-th one
\* with an X-PAD.
RequestPAD ==
    /\ GetNextPAD(xpad_interval_counter = 0)
    /\ xpad_interval_counter' = (xpad_interval_counter + 1) % xpad_interval
    /\ UNCHANGED <<xpad_interval, labels, slides, sent, lost, hit, rx>>

-----------------------------------------------------------------------------
(***************************************************************************)
(* The receiver: last is the user application whose data group may go on   *)
(* in a PAD without CIs, size the X-PAD size of the last PAD, buffer what  *)
(* has been received of each channel's current data group, length the data *)
(* group whose length was last indicated, broken the data groups of which  *)
(* bytes are missing or have been attached to another one, unannounced the *)
(* MOT data groups begun without their length being known.                 *)
(***************************************************************************)
NoBuffer == [payload |-> 0, have |-> 0]

RxInit == [last |-> "none", size |-> 0,
           buffer |-> [c \in Channels \cup {"dgli"} |-> NoBuffer],
           length |-> 0, broken |-> {}, unannounced |-> {},
           got |-> [c \in Channels |-> <<>>]]

\* A sub-field arrives on channel c, as the beginning of a data group or not.
RxSubField(r, c, begins, piece) ==
    LET old      == IF begins THEN [payload |-> piece.payload, have |-> 0]
                    ELSE r.buffer[c]
        fits     == old.payload = piece.payload /\ old.have = piece.first
        have     == old.have + piece.bytes
        complete == fits /\ have = piece.total
    IN  [last        |-> c,
         size        |-> r.size,
         buffer      |-> [r.buffer EXCEPT ![c] =
                            IF fits /\ ~complete
                            THEN [payload |-> piece.payload, have |-> have] ELSE NoBuffer],
         length      |-> IF complete /\ c = "dgli" THEN piece.payload ELSE r.length,
         broken      |-> IF fits THEN r.broken
                         ELSE r.broken \cup {<<c, piece.payload>>, <<c, old.payload>>},
         unannounced |-> IF c = "mot" /\ begins /\ r.length # piece.payload
                         THEN r.unannounced \cup {piece.payload} ELSE r.unannounced,
         got         |-> IF complete /\ c # "dgli"
                         THEN [r.got EXCEPT ![c] = Append(@, piece.payload)] ELSE r.got]

\* Bytes that belong to piece spoil what there is in channel c's buffer.
Spoil(r, c, piece) ==
    LET spoilt == {<<Channel(piece.app), piece.payload>>}
    IN  IF c = "none" THEN [r EXCEPT !.broken = @ \cup spoilt]
        ELSE [r EXCEPT !.broken = @ \cup spoilt \cup {<<c, r.buffer[c].payload>>},
                       !.buffer[c] = NoBuffer]

\* Sub-field i of a PAD arrives.  With CIs, type and length of each sub-field are in the
\* list; without, the X-PAD is one sub-field as long as the last X-PAD and carries on
\* its last application, if that is the one the sender means.
RxNext(r, pad, i) ==
    LET piece == pad.subfields[i]
        len   == IF ~pad.ci_flag THEN r.size
                 ELSE IF pad.xpad = "short" THEN 3
                 ELSE SUBFIELD_LENS[pad.cis[i].len_index]
        c     == IF pad.ci_flag THEN Channel(pad.cis[i].type) ELSE r.last
    IN  IF c = Channel(piece.app) /\ len = piece.len
        THEN RxSubField(r, c, pad.ci_flag /\ pad.cis[i].type \in {1, 2, 12}, piece)
        ELSE Spoil(r, c, piece)

RxSubFields(r, pad) ==
    LET After[n \in 0 .. Len(pad.subfields)] ==
            IF n = 0 THEN r ELSE RxNext(After[n - 1], pad, n)
    IN  After[Len(pad.subfields)]

RxPAD(r, pad) ==
    [RxSubFields(r, pad) EXCEPT !.size = pad.used - FPAD_LEN,
                                !.last = IF pad.xpad = "none" THEN "none" ELSE @]

-----------------------------------------------------------------------------
\* The PAD leaves the packetizer and is received.
Transmit ==
    /\ FlushPAD
    /\ rx' = RxPAD(rx, PAD)
    /\ UNCHANGED <<xpad_interval, xpad_interval_counter, labels, slides, sent, lost, hit>>

\* The PAD leaves the packetizer, but sendto fails.  Affected are the data groups it
\* carries, a MOT data group also by the loss of its length indicator, and the one
\* the receiver would carry on in a PAD without CIs.
Hit(piece) == {<<Channel(piece.app), piece.payload>>}
                  \cup IF piece.app = DGLI.start THEN {<<"mot", piece.payload>>} ELSE {}

Pending == UNION {Hit(subfields[i]) : i \in 1 .. Len(subfields)}

Lose ==
    /\ lost < MaxLost
    /\ lost' = lost + 1
    /\ FlushPAD
    /\ hit' = hit \cup Pending
                  \cup IF rx.last = "none" THEN {}
                       ELSE {<<rx.last, rx.buffer[rx.last].payload>>}
    /\ UNCHANGED <<xpad_interval, xpad_interval_counter, labels, slides, sent, rx>>

Fill == AppendDG /\ UNCHANGED linkVars

LinkInit ==
    /\ Init
    /\ xpad_interval \in XPadIntervals
    /\ xpad_interval_counter = 0
    /\ labels = 0
    /\ slides = 0
    /\ sent = [c \in Channels |-> <<>>]
    /\ lost = 0
    /\ hit = {}
    /\ rx = RxInit

LinkNext ==
    \/ \E sizes \in Labels : EncodeLabel(sizes)
    \/ \E sizes \in Slides : EncodeSlide(sizes)
    \/ RequestPAD
    \/ Fill
    \/ Transmit
    \/ Lose

\* The audio encoder keeps requesting PADs; a call of GetNextPAD runs to its end.
Fairness == WF_allVars(RequestPAD) /\ WF_allVars(Fill) /\ WF_allVars(Transmit)

LinkSpec == LinkInit /\ [][LinkNext]_allVars /\ Fairness

-----------------------------------------------------------------------------
(***************************************************************************)
(* Properties.                                                             *)
(***************************************************************************)
\* Every byte of a label or a slide reaches the receiver's buffer of the data
\* group it belongs to, at its place: a PAD without CIs never continues another
\* data group than the receiver does (the -1 that DATA_GROUP::Write and FlushPAD
\* leave in last_ci_type), also when a label cuts in, or only F-PADs are sent.
\* A lost PAD (send_pad_data) affects no data groups but those in Lose, however
\* many PADs without CIs come after it.
Affected == hit \cup {<<c, NoBuffer.payload>> : c \in Channels \cup {"dgli"}}
InSync == \A b \in rx.broken : b[1] \in Channels => b \in Affected

\* In a variable size X-PAD each MOT data group begins when its own length
\* indicator has been received completely, whatever has been put in between,
\* unless a PAD with the indicator has been lost.
LengthKnown ==
    pad_size # SHORT_PAD =>
        /\ \A payload \in rx.unannounced : <<"mot", payload>> \in hit
        /\ rx.broken \subseteq Affected

\* Each channel is first in, first out and doubles nothing; what has been queued is
\* skipped only when a lost PAD has affected it.
AC == INSTANCE AppChannel WITH Messages <- Nat \ {0}, got <- rx.got,
        damaged <- [c \in Channels |-> {payload \in Range(sent[c]) : <<c, payload>> \in hit}]
ImplementsAppChannel == AC!Safety

\* As long as a channel has something that no lost PAD has affected, more arrives on it.
EverythingArrives == \A c \in Channels : AC!Arrive(c)

\* "continuation never used (except for comparison at short X-PAD)": no CI is
\* ever sent for the continuation of a length indicator.
DGLIContinuationNeverUsed ==
    \A i \in 1 .. used_cis :
        subfields[i].app = DGLI.cont => subfields[i].first = 0

=============================================================================
