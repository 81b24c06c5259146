------------------------------ MODULE DLSEncoder ------------------------------
(***************************************************************************)
(* The Dynamic Label encoder (src/src/dls.cpp): from the label file, which  *)
(* somebody else keeps rewriting, and the item state file to the data       *)
(* groups of a label, and what a receiver makes of them.                    *)
(*                                                                          *)
(* A line of a file is its kind, its value and its size in bytes (after     *)
(* charset conversion); text is lines and sizes, the value of a parameter   *)
(* is a number or, of a DL Plus tag, a sequence of numbers.  The data       *)
(* groups reach the receiver through a channel that is first in, first out  *)
(* and loses nothing: what PADLink shows of the packetizer.                 *)
(***************************************************************************)
EXTENDS Integers, SequencesExt, Ascending

CONSTANTS Contents,      \* what is written to the label file: sequences of lines
          ItemContents,  \* what is written to the item state file
          Options,       \* remove_dls, use_item: whether there is an item state file,
                         \* ucs2: whether the label file is UCS-2, which is sent raw
          MaxWrites      \* bound on the rewritings of the files (model only)

ASSUME FileAssumption ==
    \A c \in Contents \cup ItemContents :
        c \in Seq(Range(c)) /\ \A i \in 1 .. Len(c) : c[i].size \in Nat

MAXDLS               == 128
DLS_SEG_LEN_CHAR_MAX == 16

Absent == [there |-> FALSE, lines |-> <<>>, upto |-> 0]

EmptyText == [lines |-> <<>>, size |-> 0]

DL_STATE == [text |-> EmptyText, dl_plus_enabled |-> FALSE, item_toggle |-> FALSE,
             item_running |-> FALSE, tags |-> <<>>]

VARIABLES remove_dls, use_item, ucs2,  \* the options, fixed
          file, item,            \* the two files: what is being written to them,
                                 \* and how many lines of it are there already
          writes,
          pc, cur,               \* where encodeLabel is, and its dl_state
          dls_toggle, dl_state_prev,
          chan,                  \* the data groups on their way
          rx,                    \* the receiver
          current, states, silent  \* history: what receivers should present, what
                                   \* has been encoded, whether a new state has
                                   \* gone by without any segment or removal

fileVars    == <<file, item, writes>>
optionVars  == <<remove_dls, use_item, ucs2>>
encoderVars == <<pc, cur, dls_toggle, dl_state_prev>>
historyVars == <<current, states, silent>>
vars        == <<fileVars, optionVars, encoderVars, historyVars, chan, rx>>

-----------------------------------------------------------------------------
(***************************************************************************)
(* Reading a file.                                                         *)
(***************************************************************************)
\* Whether line i is read by parse_dl_params: it is behind an opening line and not
\* behind the next closing one.
Inside(f, i) ==
    \E j \in 1 .. i - 1 :
        /\ f.lines[j].kind = "open"
        /\ \A k \in j + 1 .. i - 1 : f.lines[k].kind # "close"

\* The elements of s at the positions p, in their order (SelectSeq, by position).
At(s, p) ==
    LET order == Ascending(p) IN [k \in 1 .. Cardinality(p) |-> s[order[k]]]

TextLines(f) ==
    At(f.lines, {i \in 1 .. f.upto :
                    ~Inside(f, i) /\ f.lines[i].kind # "open" /\ f.lines[i].size > 0})

\* parse_dl_param_bool.
FlagValues == {0, 1}

\* A tag is content type, start and length, each in 7 bits.
TagValues == [1 .. 3 -> 0 .. 127]

\* The parameters of a kind that have one of the values accepted; everything unknown
\* inside a parameter block is ignored.
Params(f, kind, accepted) ==
    At(f.lines, {i \in 1 .. f.upto :
                    Inside(f, i) /\ f.lines[i].kind = kind /\ f.lines[i].value \in accepted})

\* The last valid one wins.
Flag(f, kind) ==
    LET p == Params(f, kind, FlagValues) IN p # <<>> /\ Last(p).value = 1

DUMMY == <<0, 0, 0>>

\* Faulty: takes as many tags as there are.
AllTags(f) ==
    LET p == Params(f, "DL_PLUS_TAG", TagValues) IN [i \in 1 .. Len(p) |-> p[i].value]

\* The first four.
Tags(f) ==
    LET p == Params(f, "DL_PLUS_TAG", TagValues)
    IN  [i \in 1 .. Min({4, Len(p)}) |-> p[i].value]

LineFeed == IF ucs2 THEN 2 ELSE 1

\* A UCS-2 line ends with the first byte of the line feed, unless it is the last.
Trimmed(l) == IF ucs2 THEN 2 * (l.size \div 2) ELSE l.size

\* The text lines joined with line feeds, cut off behind MAXDLS bytes.
TextOf(f) ==
    LET t    == TextLines(f)
        Start[n \in 0 .. Len(t)] ==  \* where the line after the first n starts
            IF n = 0 THEN 0 ELSE Start[n - 1] + (Trimmed(t[n]) + LineFeed)
        kept == {i \in 1 .. Len(t) : Start[i - 1] < MAXDLS}
        size == Min({MAXDLS, Start[Len(t)] - LineFeed})
    IN  IF t = <<>> \/ size = 0 THEN EmptyText
        ELSE [lines |-> [i \in kept |->
                           [line |-> t[i].value,
                            bytes |-> Min({Trimmed(t[i]), MAXDLS - Start[i - 1]})]],
              size |-> size]

ParseLabel(f) ==
    [text |-> TextOf(f), tags |-> Tags(f), dl_plus_enabled |-> Flag(f, "DL_PLUS"),
     item_toggle |-> Flag(f, "DL_PLUS_ITEM_TOGGLE"),
     item_running |-> Flag(f, "DL_PLUS_ITEM_RUNNING")]

\* Faulty: compares only DL Plus.
SamePlus(a, b) ==
    /\ a.dl_plus_enabled = b.dl_plus_enabled
    /\ a.dl_plus_enabled => a.tags = b.tags

\* DL_STATE::operator==.
SameState(a, b) ==
    /\ a.text = b.text
    /\ a.dl_plus_enabled = b.dl_plus_enabled
    /\ a.dl_plus_enabled => /\ a.item_toggle = b.item_toggle
                            /\ a.item_running = b.item_running
                            /\ a.tags = b.tags

-----------------------------------------------------------------------------
(***************************************************************************)
(* Data groups.                                                            *)
(***************************************************************************)
dls_count(text) == (text.size + DLS_SEG_LEN_CHAR_MAX - 1) \div DLS_SEG_LEN_CHAR_MAX

dls_get(text, toggle, i) ==
    [kind |-> "segment", toggle |-> toggle, last |-> i = dls_count(text) - 1,
     chars |-> [text |-> text, index |-> i,
                len |-> Min({text.size - i * DLS_SEG_LEN_CHAR_MAX, DLS_SEG_LEN_CHAR_MAX})]]

\* What DL Plus says of a label, or nothing.
NoPlus == <<>>
Plus(s) == IF s.dl_plus_enabled THEN <<s.item_toggle, s.item_running, s.tags>> ELSE NoPlus

NoLabel == [text |-> EmptyText, plus |-> NoPlus]

\* The data groups of prepend_dl_dgs.
LabelDGs(s, toggle) ==
    [i \in 1 .. dls_count(s.text) |-> dls_get(s.text, toggle, i - 1)]
    \o (IF s.dl_plus_enabled
        THEN <<[kind |-> "plus", toggle |-> toggle, plus |-> Plus(s)]>> ELSE <<>>)

RemoveLabelDG == [kind |-> "remove", toggle |-> dls_toggle]

\* Faulty: the data groups have the toggle value of the label before.
DataGroupsToggleLate(s, new) ==
    (IF new /\ remove_dls THEN <<RemoveLabelDG>> ELSE <<>>) \o LabelDGs(s, dls_toggle)

\* Faulty: the removal of the old label follows the new one.
DataGroupsRemoveLast(s, new) ==
    LabelDGs(s, dls_toggle # new) \o (IF new /\ remove_dls THEN <<RemoveLabelDG>> ELSE <<>>)

\* What encodeLabel puts in front of the queue: a new state has the other toggle
\* value, and before it, if so configured, the old label is removed.
DataGroups(s, new) ==
    (IF new /\ remove_dls THEN <<RemoveLabelDG>> ELSE <<>>) \o LabelDGs(s, dls_toggle # new)

-----------------------------------------------------------------------------
(***************************************************************************)
(* The writers of the two files.                                           *)
(***************************************************************************)
RewriteLabel(c) ==
    /\ writes < MaxWrites
    /\ writes' = writes + 1
    /\ file' = [there |-> TRUE, lines |-> c, upto |-> 0]
    /\ UNCHANGED <<item, optionVars, encoderVars, historyVars, chan, rx>>

RewriteItem(c) ==
    /\ writes < MaxWrites
    /\ writes' = writes + 1
    /\ item' = [there |-> TRUE, lines |-> c, upto |-> 0]
    /\ UNCHANGED <<file, optionVars, encoderVars, historyVars, chan, rx>>

WriteLabelLine ==
    /\ file.upto < Len(file.lines)
    /\ file' = [file EXCEPT !.upto = @ + 1]
    /\ UNCHANGED <<item, writes, optionVars, encoderVars, historyVars, chan, rx>>

WriteItemLine ==
    /\ item.upto < Len(item.lines)
    /\ item' = [item EXCEPT !.upto = @ + 1]
    /\ UNCHANGED <<file, writes, optionVars, encoderVars, historyVars, chan, rx>>

-----------------------------------------------------------------------------
(***************************************************************************)
(* encodeLabel: it reads the label file, then the item state file, then    *)
(* queues the data groups.  PadEncoder::EncodeLabel calls it only when no  *)
(* data group of a label is left in the queue.                             *)
(***************************************************************************)
EncodeLabel ==
    /\ pc = "idle"
    /\ chan = <<>>
    /\ file.there
    /\ cur' = ParseLabel(file)
    /\ pc' = IF use_item THEN "item" ELSE "encode"
    /\ UNCHANGED <<fileVars, optionVars, historyVars, dls_toggle, dl_state_prev, chan, rx>>

ReadItemState ==
    /\ pc = "item"
    /\ IF item.there
       THEN LET s == ParseLabel(item)
            IN  /\ cur' = [cur EXCEPT !.dl_plus_enabled = TRUE,
                                      !.item_toggle = s.item_toggle,
                                      !.item_running = s.item_running]
                /\ pc' = "encode"
       ELSE pc' = "idle" /\ cur' = DL_STATE
    /\ UNCHANGED <<fileVars, optionVars, historyVars, dls_toggle, dl_state_prev, chan, rx>>

\* The DUMMY tag, which DL Plus needs if there is no other.
WithTag(s) == IF s.dl_plus_enabled /\ s.tags = <<>> THEN [s EXCEPT !.tags = <<DUMMY>>] ELSE s

Encode ==
    /\ pc = "encode"
    /\ LET s   == WithTag(cur)
           new == ~SameState(s, dl_state_prev)
       IN  /\ chan' = DataGroups(s, new)
           /\ dls_toggle' = (dls_toggle # new)
           /\ dl_state_prev' = IF new THEN s ELSE dl_state_prev
           /\ current' = IF s.text # EmptyText THEN [text |-> s.text, plus |-> Plus(s)]
                         ELSE IF new /\ remove_dls THEN NoLabel
                         ELSE current
           /\ states' = states \cup {[text |-> s.text, plus |-> Plus(s)]}
           /\ silent' = (silent \/ (new /\ s.text = EmptyText /\ ~remove_dls))
    /\ pc' = "idle"
    /\ cur' = DL_STATE
    /\ UNCHANGED <<fileVars, optionVars, rx>>

-----------------------------------------------------------------------------
(***************************************************************************)
(* The receiver, not part of the repository: it collects segments of one   *)
(* toggle value, ignores those it has, presents a complete label, and      *)
(* attaches DL Plus to the label presented if link bit and toggle agree.   *)
(***************************************************************************)
RxInit == [segs |-> {}, label |-> NoLabel, toggle |-> FALSE]

Mixture == [lines |-> <<>>, size |-> MAXDLS + 1]

Text(segs) ==
    IF \A s, t \in segs : s.chars.text = t.chars.text
    THEN (CHOOSE s \in segs : TRUE).chars.text ELSE Mixture

RxSegment(r, dg) ==
    LET old      == {s \in r.segs : s.toggle = dg.toggle}
        known    == \E s \in old : s.chars.index = dg.chars.index
        segs     == IF known THEN old ELSE old \cup {dg}
        complete == \E s \in segs : s.last /\ Cardinality(segs) = s.chars.index + 1
    IN  IF complete /\ ~known
        THEN [segs |-> segs, toggle |-> dg.toggle,
              label |-> [text |-> Text(segs), plus |-> NoPlus]]
        ELSE [r EXCEPT !.segs = segs]

Receive(r, dg) ==
    CASE dg.kind = "segment" -> RxSegment(r, dg)
      [] dg.kind = "remove"  -> RxInit
      [] dg.kind = "plus"    -> IF r.label # NoLabel /\ r.toggle = dg.toggle
                                THEN [r EXCEPT !.label.plus = dg.plus] ELSE r

Deliver ==
    /\ chan # <<>>
    /\ rx' = Receive(rx, Head(chan))
    /\ chan' = Tail(chan)
    /\ UNCHANGED <<fileVars, optionVars, encoderVars, historyVars>>

-----------------------------------------------------------------------------
Init ==
    /\ \E o \in Options :
          remove_dls = o.remove_dls /\ use_item = o.use_item /\ ucs2 = o.ucs2
    /\ file = Absent
    /\ item = Absent
    /\ writes = 0
    /\ pc = "idle"
    /\ cur = DL_STATE
    /\ dls_toggle = FALSE
    /\ dl_state_prev = DL_STATE
    /\ chan = <<>>
    /\ rx = RxInit
    /\ current = NoLabel
    /\ states = {}
    /\ silent = FALSE

\* Labels are inserted again and again, a call runs to its end, the channel
\* delivers; at no time more than one of these steps is possible.
Program == EncodeLabel \/ ReadItemState \/ Encode \/ Deliver

Next ==
    \/ \E c \in Contents : RewriteLabel(c)
    \/ \E c \in ItemContents : use_item /\ RewriteItem(c)
    \/ WriteLabelLine
    \/ WriteItemLine
    \/ Program

Fairness == WF_vars(Program)

Spec == Init /\ [][Next]_vars /\ Fairness

-----------------------------------------------------------------------------
(***************************************************************************)
(* Properties.                                                             *)
(***************************************************************************)
\* Everything fits the fields of a data group: segment length and number in 4
\* and 3 bits, one to four tags in 2 bits and the length of their command in 4;
\* no text is longer than MAXDLS, the segments make up the text, and neither they
\* nor its lines end within a UCS-2 character.
FieldsFit ==
    \A i \in 1 .. Len(chan) :
        /\ chan[i].kind = "segment" =>
              LET c == chan[i].chars
              IN  /\ c.len \in 1 .. 16
                  /\ c.index \in 0 .. 7
                  /\ chan[i].last => c.index * DLS_SEG_LEN_CHAR_MAX + c.len = c.text.size
                  /\ ~chan[i].last => c.len = DLS_SEG_LEN_CHAR_MAX
                  /\ ucs2 => /\ c.len % 2 = 0
                             /\ \A l \in Range(c.text.lines) : l.bytes % 2 = 0
        /\ chan[i].kind = "plus" => Len(chan[i].plus[3]) \in 1 .. 4

\* When all has been delivered a receiver presents the text last encoded with the
\* DL Plus it belongs to, or nothing if it has been removed; also when files are
\* read half-written.  Only after a silent change, a new state of which nothing
\* is sent, this is not so: see ChangedTextIndicated.
UpToDate == chan = <<>> /\ ~silent => rx.label = current

\* At no time a receiver presents a mixture of texts, or a text with the DL Plus
\* tags of another one.
LabelIsOne ==
    ~silent => \/ rx.label = NoLabel
               \/ rx.label \in states
               \/ \E s \in states : rx.label = [s EXCEPT !.plus = NoPlus]

\* A label file that is left alone, be it half-written, is presented in the end.
LabelArrives ==
    <>[](file.there /\ (use_item => item.there) /\ TextOf(file) # EmptyText /\ ~silent)
        => <>[](rx.label.text = TextOf(file))

\* "toggle the toggle bit only on new DL state", "indicate changed text": a text
\* other than the one a receiver has is sent with another toggle value.
ChangedTextIndicated ==
    chan # <<>> /\ Head(chan).kind = "segment" =>
        \A s \in rx.segs : s.chars.text # Head(chan).chars.text
                              => s.toggle # Head(chan).toggle
=============================================================================
