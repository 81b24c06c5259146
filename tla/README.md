# ODR-PadEnc in TLA+

Specifications of ODR-PadEnc, the encoder of programme associated data (PAD) for
DAB: the text label (Dynamic Label, DLS) and the slideshow (MOT SLS) of a radio
programme are cut into data groups, and these into the few PAD bytes of each
audio frame. TLC checks the specifications on small instances; TLAPS checks the
proofs about them for every value of the constants. Paths are relative to the
repository; `pad_common.cpp` and the like are in `src/src/`.

## The system

One thread does everything: `main` (odr-padenc.cpp:328-352) waits for a request
of the audio encoder (a datagram on a UNIX socket, with the PAD length wanted),
calls `PadEncoder::Encode`, and sends back the one PAD it yields. Each call of
`Encode` may first put a slide and a label into the packetizer's queue. What is
concurrent is outside: whoever writes the label file, the item state file and the
slides directory, the audio encoder, and the receivers that see nothing but PADs.

| component | state | operations | interacts with |
|---|---|---|---|
| PAD packetizer, `pad_common.cpp` | queue of data groups, the PAD under construction (sub-fields, CI list, sizes), type and size that the next PAD without CIs would continue | `AddDG(s)`, `QueueContainsDG`, `GetNextPAD` | filled by both encoders, emptied by `Encode` |
| Dynamic Label encoder, `dls.cpp` | toggle bit, previous `DL_STATE` | `encodeLabel` | reads label and item state file, puts its data groups in front of the queue |
| slide history, `sls.cpp` | fingerprints with ids, next id | `get_fidx` (`find`, `add`) | asked by the slide store |
| slide store, `sls.cpp` | slides of the current round | `InitFromDir`, `GetSlide`, `Clear` | scans and stats the slides directory |
| MOT slide encoder, `sls.cpp` | continuity indices | `encodeSlide` | reads a slide and its parameter file, appends data groups to the queue, writes a dump file |
| `PadEncoder`, `odr-padenc.cpp` | the four above, slide and label timelines, current label file, X-PAD interval counter | `Encode`, `EncodeSlide`, `EncodeLabel`, `CheckRereadFile` | all of them, the clock, request files, erasing of slides |
| main loop, `odr-padenc.cpp` | PAD length, current `PadEncoder` | a step per request | a new PAD length replaces the `PadEncoder` and all its state |
| PAD interface, `pad_interface.cpp` | socket, reachability | `receive_request`, `send_pad_data` | the audio encoder |
| charset, CRC, UTF-8, image processing | none | pure | |

What makes each of them correct:

* packetizer: no PAD, array or `size_t` is overrun; each application's data groups
  arrive complete, once, in order; a receiver can follow PADs that leave out the CI
  list; a length indicator arrives before its data group;
* label encoder: receivers present the current label, all of it, with its own DL
  Plus; a label left alone arrives; a changed one is recognised as such;
* history: ids identify the slides remembered, stay the same, survive roll-over;
* slide store and `EncodeSlide`: a round sends every slide once in the order of the
  ids; a call returns; good slides are sent again for ever; only what has been sent
  is erased, and what is erased is not sent again;
* timelines, main loop, interface: no label or slide starves; a changed PAD length
  or a missing audio encoder leaves receivers in a state they recover from.

Hard to test are above all: sequences of PADs, in which sub-fields, CIs and what
may be left out depend on earlier PADs; labels cutting in anywhere; files changing
between two system calls of the program; ids, indices and toggle bits that come round
again; the loop in `EncodeSlide`; timelines that meet; PADs lost, PAD lengths changed and
datagrams that are no requests. `PROJECT.json` lists
each of these hazards at its line, with the properties that watch over it.

## Modules

| module | models | says |
|---|---|---|
| `PADPacketizer` | `pad_common.cpp` | the packetizer, its safety properties and its inductive invariant |
| `PADPacketizerProofs` | | proofs about it |
| `AppChannel` | | abstract: one first in, first out channel for each application |
| `PADLink` | packetizer, queue discipline of the encoders, PADs that cannot be sent, a receiver | implements `AppChannel` |
| `PADLinkProofs` | | proofs about it, that it does so among them |
| `DLSEncoder` | `dls.cpp`, writers of the files, a receiver of labels | over a channel such as `AppChannel` describes |
| `DLSEncoderProofs` | | proofs about it |
| `PadEncoder` | main loop and socket, `PadEncoder::Encode` with its timelines | what `PADLink`, `DLSEncoder` and `SlideCarousel` do in detail is abstracted to sizes |
| `PadEncoderProofs` | | proofs about it |
| `SlideSegments` | how a slide's body is cut | operators only |
| `SLSEncoder` | the rest of `SLSEncoder`, `MOTHeader`, a receiver of slides; extends `SlideSegments` | over a channel that loses data groups |
| `SLSEncoderProofs` | | proofs about both |
| `Charset`, `CRC` | `charset.cpp` and its part of `utf8/`; `crc16`, `AppendCRC` | operators only |
| `TextLine` | a line while it is written; extends `Charset` and `CRC` | both against the standards |
| `TextLineProofs` | | proofs about the three |
| `History` | class `History` | ids of slides |
| `SlideCarousel` | `SlideStore`, `PadEncoder::EncodeSlide`, the slides directory; extends `History` | what is sent under which id |
| `SlideCarouselProofs` | | proofs about both |
| `Ascending` | | a finite set of numbers as a sequence |
| `NumberProofs` | | induction, recursion and sorting, for the other proofs |
| `MC...` | | constants for TLC |

Definitions named `...` with the comment `Faulty:` are variants with a plausible
mistake, placed before the definition they vary. They are used nowhere; putting one
in its place must make TLC report the property `PROJECT.json` names with it.

Sequences are sorted and filtered with `Ascending` and `At`, and what runs over a sequence
is a recursive function: the folds and sorting operators of the community modules are
recursive operators or take operators as parameters, of which the prover knows nothing. For
the same reason `CRC` defines its own exclusive or; `MCFormats` has TLC compare it with that
of `Bitwise`.

### PADPacketizer

A data group is its application type, a name for its contents, its size (CRC
included) and how much of it has been written; a sub-field in the PAD is the
interval of bytes it carries and its length. All lengths are exact, so are the
tables of sub-field lengths. `GetPAD`'s loops are cut at their steps: `GetNextPAD`
starts a PAD, `AppendDG` adds one sub-field (`OmitCIs` is the decision to leave out
the CI list, `Full` the decision to flush), `FlushPAD` yields the PAD. `size_t`
subtractions are plain; `NoSizeUnderflow` says that none wraps. The constructor
leaves `last_ci_size` uninitialised: any value of `Junk`, and it does not matter.

### PADLink

`EncodeLabel` and `EncodeSlide` are guarded and queue as `PadEncoder` does it: one
label and one slide at most, labels in front, slides behind with a length indicator
before each data group. `RequestPAD` is the end of `Encode`, with the X-PAD only in
every `xpad_interval`-th frame. The receiver (external, after the format that
`FlushPAD` writes) attaches sub-fields to data groups by CI type alone and records
when bytes end up in the wrong data group (`RxNext` takes one sub-field, `RxSubFields` those
of a PAD). `Lose` is a PAD that `sendto` refuses
(`send_pad_data` only reports it): the packetizer goes on as if it had been sent.
`hit` collects what that may cost: the data groups with bytes in the lost PAD, a MOT
data group also if its length indicator was in it, and the one that the receiver
carries on in a PAD without CIs. `AppChannel` allows just these to be missing: it says on
the one hand what may have been received (`ImplementsAppChannel`), on the other that what
is not damaged arrives while PADs are requested (`EverythingArrives`).

### DLSEncoder

A file is a sequence of lines (kind, value, size) of which the writer has written
some: `RewriteLabel` truncates, `WriteLabelLine` adds a line, and `EncodeLabel` and
`ReadItemState` read whatever is there. `Encode` is the rest of `encodeLabel`:
comparison with the previous state, toggle, removal, segments, DL Plus. Text is the
sequence of its lines with sizes, cut off at 128 bytes; line kinds are those
`parse_dl_params` distinguishes, with values that it rejects. In a UCS-2 file, which is
sent raw, lines end with half a line feed, which is removed. Sizes are those after
character conversion. The
receiver (external) collects segments of one toggle value, ignores repetitions and
attaches DL Plus if its link bit fits the label presented.

### History and SlideCarousel

`History` has a fingerprint as one value; `Known` and `Fidx` are `find` and the
result of `get_fidx`. `SlideCarousel` has one action per system call of
`EncodeSlide`: `Call` (re-read request), `ScanDir`, `StatFile` (with `get_fidx`; the
result of `stat` is unchecked, so a vanished file has any size and time),
`SortSlides`, `GetSlide`, `EncodeOK` or `EncodeFails`, `EraseFile`. Between any two of
them others write, replace or remove files or request a re-read. File contents are
versions, fingerprints tell versions apart (two versions of equal size within the
same second are left out). The packetizer is reduced to the slide in transmission.
Neither `unlink` need succeed, however often it is tried: `CheckRereadFile` may leave the
request where it is, which is then found again by the next call, and `EraseFile` the slide,
whose version `kept` records.

### SLSEncoder and SlideSegments

A file is what ImageMagick or `stat` say of it: format, dimensions, whether it is
progressive, its size as it is, as PNG, and as JPEG of each quality. `Slide` is the
choice that `encodeSlide` and `resizeImage` make of it. The MOT header is its fields,
reduced to their widths, and its extensions as running sums: the length they are written
with and the length that a receiver parses. `encodeSlide` is one action: header, segments and length
indicators are queued in one go. The bytes of a slide are their positions, so a
receiver (external: takes a data group of the length indicated, collects segments
by transport id) can be compared with the file. `Lose` loses any data group.

### Charset, CRC, TextLine

`convert` is translated down to the decoding of single bytes, with the whole table;
`WellFormed` in `TextLine` is the reference, Unicode's own table of byte ranges. `crc16`
uses the program's table, `crc16step` is one turn of its loop; the reference is the division
of the standard, bit by bit. The only state is the line, to which its writer adds bytes.
For the table there is no second copy of the chart to compare it with; `CharactersInPlace`
holds it against what is regular in EBU Latin: the characters it shares with ASCII
(`LikeASCII`), the distances between capital and small letters (`RegularCapitals`,
`PlaceOfSmall`), and that no character has two places. So a table in which entries are
shifted or doubled, or from which one is missing, is found out. A wrong character in one of
the 43 places without such a rule (controls, symbols, and letters such as Ł or ğ that stand
where there was room) is not.

### PadEncoder

The program is a loop with a program counter: `receive` (a datagram is awaited, `poll`
may time out), then the steps of `Encode`: `complete` (the dump file of a finished slide
is renamed), `slide`, `label`, `pad`. `ReceiveRequest` ends `receive_request` and does what
`main` does with the length: nothing for 0, a new `PadEncoder` for another one, the end
for an invalid one. The request buffer is two bytes and the size that
`buffer.resize(ret)` leaves. Time goes by frames, timelines are relative to now: a frame
brings them closer by one. Packetizer and encoders are abstracted to the units of a
label and of a slide that are left to send; what an X-PAD carries goes to the label
first. `HandleDLS` is the whole of "handle DLS": re-read requests (the last file with one
wins; erasing them may fail), the change of file, the insertion of a label (of size 0 if
the file has nothing to send). Requests may stay as long as erasing them fails. `HandleSLS` is `EncodeSlide` with what `SlideCarousel` says
of it left open: a slide is queued or none works.

Around it: `Frame` (a request in each frame, possibly for another PAD length), `Pause`,
`Intrude` (an empty datagram, one too short, one that is no request), `RequestReread`,
`Fail` (an exception or error: the program ends) and `Restart` with the state a new
process has; label files, requests and dump files stay. `happened` counts these
unusual events so that properties can say which of them they except.

## Runs

| run | bounds | distinct states | shows |
|---|---|---|---|
| `packetizer` | PAD lengths 6, 8-13, 16, 24, 26, 27, 50, 52, 53, 186-188, 196; two applications; data groups of 5 and 120 bytes, two queued | 2.2 million | `TypeOK`, `PADFits`, `BuffersFit`, `NoSizeUnderflow`, `IInv` |
| `link` | PAD lengths 6, 23, 58; labels of one and of two data groups, slides of two; two of each; one PAD lost; X-PAD in every or every other frame | 680 000 | `InSync`, `LengthKnown`, `ImplementsAppChannel`, `EverythingArrives` |
| `link_short_dgli` | PAD length 6 | | violated: `DGLIContinuationNeverUsed` |
| `dls` | four label files of one to eight segments, with and without DL Plus, one with five tags; some rejected; two rewritings; with and without item state file and removal, UTF-8 and UCS-2 | 700 000 | `FieldsFit`, `UpToDate`, `LabelIsOne`, `LabelArrives` |
| `dls_toggle` | the same | | violated: `ChangedTextIndicated` |
| `carousel` | three names, three versions, history of two, ids 0 to 3, no erasing | 3.2 million | `CarouselTypeOK`, `HistoryInv`, `UniqueIds`, `StableIds`, `RoundHasDistinctIds` |
| `carousel_live` | two names, the directory may become inaccessible, ids 0 to 2, with and without erasing | 1.4 million | `EncodeSlideReturns`, `SentForever`, `ErasedSentOnce` |
| `carousel_erase_race` | two names, a history that never forgets | | violated: `OnlyEncodedErased` |
| `carousel_stale_id` | the same | | violated: `RetransmittedWithSameId` |
| `formats` | 13 files, segments of 4 bytes, at most 10 bytes unless raw, two encodings, two data groups lost; lines of two bytes out of all 256, of four out of 17 | 240 000 | `SlideAcceptable`, `ObjectComplete`, `HeaderParses`, `LengthsIndicated`, `LossesCounted`, `CompleteWithoutLoss`; `LongestTextConverted`, `CharactersInPlace`, `CutLineIsPrefix`, `CRCIsRemainder` |
| `slides_multiple` | slides of 2025 and 2026 bytes, `MAXSEGLEN` as in the code | | violated: `BodyComplete` |
| `padenc` | four sets of options, two label files or one, PAD lengths 6, 58 and the invalid 7; labels of 0 or 2 units, slides of 2; two unusual events | 1.0 million | `PadEncoderTypeOK`, `CompletedIsSent`, `CompletedIsMoved`, `RequestsAnswered`, `LabelHasFile`, `FileKeepsInterval`, `RereadIsAired`, `EveryFileAired`, `SlideSent` |

Why the bounds suffice. The packetizer's decisions depend on the room left, the
bytes left of the front data group and the size of the last PAD: the lengths
chosen put the room on each side of every limit, the data groups are shorter than
one sub-field or longer than several PADs, and two in the queue are one ending and
one beginning; the longest PADs are those in which four sub-fields of 48 bytes are tried and,
from 187 on, the CI list is in fact never left out (no X-PAD with CIs exceeds 180
bytes); the proofs cover the rest. In `link` a label can cut in at every
point of both slides, also between an indicator and its data group, and any PAD can be
the one lost: a short one, one without CIs, one with an indicator. In `dls` two
rewritings, read half-written, give more than four successive states. In
`carousel` there are more files than the history remembers and enough rounds for
the ids to roll over. In `formats` the files take every branch of `encodeSlide`, one has more
segments than there are continuity indices, parameters have every length at which the
coding changes, one file's parameters exceed the header's size field; the 17 bytes are
the ends of the byte ranges of UTF-8, and four bytes are its longest character; the lines
of two bytes have every character of one or two bytes, which are all that EBU Latin has but
for the euro sign (the proof covers that). In `padenc` labels are inserted more often than
files change and less often, slides at once and at an interval, and one set of options has
labels that outlast the intervals of their files, to which `LabelsInTime` does not apply; two
unusual events suffice for one during the recovery from another. Sizes there are in units:
one more than an X-PAD carries at PAD length 6.

Fairness. `PADLink`: the audio encoder keeps requesting PADs, and a call of
`GetNextPAD` runs to its end; nothing obliges the encoders to send. `DLSEncoder`:
`Encode` is called for every frame and inserts a label every `label_insertion`
milliseconds, so the encoder's and the channel's steps are weakly fair, the
writers' are not. `SlideCarousel`: frames are fetched, so a slide in transmission
ends; `EncodeSlide` is called again and its loop keeps running. Writers, re-read
requests and failures are bounded in number, not fair; the failing of `unlink` is neither
bounded nor fair. `carousel_live` and the
label runs do not check for deadlock: the program may exit when the directory cannot
be read, and nothing happens while there is no label file; nor do `formats`, which ends,
and `padenc`, where the program may have ended. `PadEncoder`: the program runs, and the
audio encoder goes on to ask for PADs (weak fairness of both); nothing else is fair.

Provisos. What the liveness properties need beyond fairness is part of their formulas.

* `SentForever` is about files for which, from some time on, no re-read request is left:
  while one cannot be erased, each call clears the list and begins with the lowest id again.
* `EveryFileAired` and `SlideSent` likewise require `<>[](request_files = {})`: a request that
  stays makes every call choose its file and insert a label. They except the end of the
  program and empty datagrams; that the unusual events come to an end is `MaxUnusual`.
* `EveryFileAired` and `RereadIsAired` are about options with which the longest label takes
  less than a file's interval (`LabelsInTime`). Both are false of others: a label that lasts
  two intervals of two files is followed by another one of the same file, for ever.
* `SlideSent` is about options with which labels leave room in the shortest X-PAD
  (`LabelsLeaveRoom`): with others labels, which go first, may take all of it for ever.
* `EverythingArrives` holds of a bounded number of labels (`MaxLabels`), for the same reason.

### What the violated properties show

* `link_short_dgli`: in a 6 byte PAD a length indicator needs two X-PADs. If an F-PAD
  without X-PAD or a label comes between, the second half is sent with CI type 1, the
  type with which an indicator begins, though pad_common.cpp:319 has "continuation
  never used". Hence `LengthKnown` is stated for variable size X-PAD only.
* `dls_toggle`: a label file read while empty (or while its parameter block is not yet
  closed) is a new state: the toggle bit flips (dls.cpp:294, "indicate changed text")
  but nothing is sent. The next label has the toggle value of the one before it, and
  a receiver takes its segments for repetitions and goes on presenting the old label.
  `UpToDate`, `LabelIsOne` and `LabelArrives` hold where this has not happened (`silent`),
  and always with `--remove-dls`.
* `carousel_erase_race`: with `--erase`, a slide written over another one between its
  encoding and the `unlink` is erased without having been sent (odr-padenc.cpp:437).
* `carousel_stale_id`: contents replaced after the `stat` go out under the old id and, in
  the next round, under a new one (sls.cpp:136); receivers that cache by id present the
  wrong slide.
* `slides_multiple`: a slide whose size is a multiple of 1013 has a last segment of length 0
  (sls.cpp:594); its last 1013 bytes are never sent, though the MOT header announces them.

Worth knowing; the properties except it, by `happened` in `PadEncoder`, by `kept` or by
their provisos:

* A datagram of one byte is skipped, but the next request is then read into one byte: its
  length is what the skipped datagrams left in the buffer. After `<<2>>` alone it is 0, and
  the request is lost; after `<<2, 58>>` and `<<2>>` a PAD of length 58 is sent to whoever
  asked for 6, by a new `PadEncoder`. After an empty datagram there is no room at all
  (`buffer[0]` of an empty vector is read), and every request is swallowed until there is
  none for 240 ms, which a running audio encoder never grants.
* When the `PadEncoder` is replaced in the middle of a slide, its dump is renamed as if the
  slide were complete.
* With `--erase`, a slide that cannot be erased (the directory is not writable, say) is
  sent in every round (odr-padenc.cpp:438): "only transmitted once" (README.md) depends on
  the directory. The program reports the failure each time.
* A re-read request that cannot be erased counts at every call (odr-padenc.cpp:399): of the
  slides only the one with the lowest id is sent, of the label files only the one
  asked for, at every opportunity.
* If labels take as long as two intervals of their files, of two files one is never aired.
* After a pause each label file and slide gets the turns it has missed, one in each frame.

## Proofs

The theorems hold for all constants that satisfy the assumptions named here, which TLC
evaluates in the runs. Where a theorem needs more, the hypothesis is part of its statement.

### PADPacketizerProofs

Assumed: every PAD length passes `CheckPADLen`, data groups are not empty, application types
are 1 to 31, `Junk` is a non-empty set of naturals. Proved: `Spec => []IInv`, and from it
`TypeOK`, `PADFits`, `BuffersFit` and `NoSizeUnderflow`. None of these is inductive. The CI
accounting is right only because `AddCINeededBytes`, evaluated before each CI, adds up to
what `FlushPAD` lays out (`UnderConstruction`: `xpad_size = LaidOut`). A PAD without CIs takes
a sub-field as long as the X-PAD before, so what PADs with CIs can measure must be known: at
most 180 bytes, and never 4 x 48 + 4 as the comment at pad_common.cpp:82 suggests, which
follows from `subfields_size = 48 * used_cis \/ subfields_size + 16 <= 48 * used_cis` (there
is no sub-field length between 32 and 48). That this size is still valid when it is used,
although the constructor does not set it and an F-PAD sets it to 0, is `LastSizeOK`: it is
looked at only while `last_ci_type` is not -1. `PhaseOK` carries `~Full` from one sub-field to
the next: there is room for the smallest one, on which `OptimalSubFieldSizeIndex` relies
(lemma `OptimalFits`). One lemma per action, then `NextIInv`.

### PADLinkProofs

Assumed besides: labels and slides are data groups with bytes, X-PAD intervals are at least 1
(`LinkAssumption`). Any number of labels, slides and losses.

* `ReceiverInSync` and `LengthAlwaysKnown` (`InSync`, `LengthKnown`) follow from `LinkInv`. A
  receiver lags behind the packetizer by the PAD under construction, so the invariant is about
  two receivers at once: `rx`, to which the data groups in that PAD (`Pending`) are as good as
  damaged, because it may still be lost, and `Ahead`, which has its sub-fields already. Each has
  of every data group begun what has been written of it, or the data group is damaged
  (`Synced`); has nothing of others (`Owned`); and knows the length that the next MOT data group
  needs (`Announced`). When a PAD is transmitted `rx` becomes `Ahead`; when it is lost, the
  damage that `Lose` records makes the claim about `rx` true again. `Continued` is the reason why
  CIs may be left out: the type and size the packetizer remembers belong to a data group begun,
  and the receiver would carry on just this one, or is `Confused`, in which case all it can spoil
  is damaged already. `SlideAfter` is the order of the queue: the data groups of at most one
  label, then length indicators and data groups of at most one slide in turn, only the first of
  each part begun.
* `ChannelsImplemented`: the safety part of `AppChannel`, by a simulation of steps under the
  mapping of `PADLink`. `ChannelInv` says that data groups are numbered as they are queued, that
  those which have left the queue are exactly 1 to `Done`, and that of these `rx` and `Ahead`
  have got all but damaged ones, in order (`InOrder`). Queueing is `Send`, a PAD that arrives is
  `Deliver` or nothing, one that is lost `Damage` or nothing, and the packetizer's own steps are
  nothing. Damage never reaches what has been received.

### DLSEncoderProofs

Assumed: a file is a finite sequence of lines with sizes (`FileAssumption`). Proved, for all
contents and however often they are rewritten while being read: `FieldsFit` (at most eight
segments of 1 to 16 bytes, at most four tags and one command that fits its length field),
`UpToDate` and `LabelIsOne`. `LabelInv` says that the channel holds the rest of one label, with
`remove` possibly in front of it (`ChanInv`), and how far the receiver then is: it has nothing of
the label, a part of its segments, or all of them without or with DL Plus; as long as it has not
all, its toggle value is the other one, and what it collects is of the new label alone (`RxInv`).
The toggle bit is what separates two labels; `silent` excepts where it fails (see `dls_toggle`).

### SLSEncoderProofs

Assumed: `MAXSEGLEN > 0`; sizes are numbers, each file has a picture, and no two files the same
id (`FilesAssumption`). Four theorems about the segments: none is too long, no two overlap, and
together they are the slide unless its size is a multiple of `MAXSEGLEN`, in which case the last
`MAXSEGLEN` bytes are what is missing. Of the encoder:

* `SlideAcceptable`, for all files: unless it is sent raw, what is sent keeps to the size limit
  and to 320 x 240 pixels, and header and name tell its format;
* `HeaderParses`: a receiver that reads the parameters as they are coded ends where the header
  ends, whatever the parameter file says (induction over its lines);
* `LossesCounted`: from the continuity indices a receiver can tell the number of losses (modulo
  16). `ChanInv` numbers what is in the channel backwards from the encoder's two indices, and
  `Counted` says by how much the receiver's lag;
* `LengthsIndicated`, if segments and headers are shorter than 2^14 - 11 bytes (`GroupsFit`); the
  segments of the code are, and a header is unless a parameter file brings it to 16 KB;
* `ObjectComplete` and `CompleteWithoutLoss`, if slides are shorter than 2^28 bytes and have at
  most 2^15 segments (`SlidesFit`), that is if their size and segment numbers fit their fields:
  33 MB with the code's `MAXSEGLEN`, far beyond the size limit of slides, except that raw slides
  have none. `PartsInv` says that a receiver has collected nothing but data groups of slides;
  completeness needs that segment numbers are not taken modulo anything.

### PadEncoderProofs

Assumed: the types of the constants, intervals other than those of slides and labels of at least
1, PAD lengths that fit a byte, X-PADs that carry something, and `MaxLag`, the bound on lateness, at least the label
interval. `IInv` is inductive: what waits in the socket is at most one foreign datagram and one
request of the length wanted (`SockInv`); the request buffer is cut only after a short or an empty
datagram, and never begins with `MESSAGE_REQUEST` by itself, so no request is read twice
(`BufferInv`); while `Encode` runs, the PAD length is the one last asked for (`PadlenInv`); the
requests not answered are those being answered, those a short datagram has cost, less the one it
is still about to cost (`CountInv` with `Pending`, without which the count is not inductive); where
no label file is chosen, the change to the first one is due (`FileInv`); a dump that is on air has
a slide in the queue (`DumpInv`). `PadEncoderTypeOK`, `CompletedIsSent`, `RequestsAnswered` and
`LabelHasFile` follow, for all options and PAD lengths and any number of unusual events. Of steps:

* `CompletedIsMoved`: a slide that is sent is out of the queue, and past the renaming of its dump
  only if that failed (`SentInv`);
* `FileKeepsInterval`: the timeline of the label files is never late (`OnTimeInv`: at least one
  frame in front unless one has begun that has not come as far as the timelines, `Behind`), and
  due no sooner than an interval after the last change;
* `RereadIsAired`, for the options in `LabelsInTime`: then a label in front of the one asked
  for leaves time for it. `AiringInv` counts the PADs that it still takes, at most K of at
  least C units each; `SomeBounds` finds C and K (`ShortLabels`) for these options. Longer
  labels are excepted because the property is wrong of them: the file's turn then ends while
  the label before it is still in transmission.

### SlideCarouselProofs

Assumed: `0 < MAXHISTORYLEN <= MAXSLIDEID` (50 and 9999 in the code), a finite set of names. The
inductive invariant of the history says that the ids remembered are the ones last given, in order
(`LastIds`, with `Ago` counting backwards through the roll-over), and that no fingerprint is
remembered twice. Unique ids, a free next id and `StableIds` follow. `HistoryUsed` is a refinement:
the carousel uses its history as `HistorySpec` says, so it inherits all of this. Of its own:

* `CarouselTypeOK`;
* `ErasedSentOnce`, whatever the writers do and whichever `unlink` fails: versions sent are gone
  from the directory but for the one that `EraseFile` is about to remove and those it could not
  (`SentAndGone`), and nobody writes a version twice;
* `RoundHasDistinctIds`, if `MAXHISTORYLEN` and the files together are at most `MAXSLIDEID + 2`
  (`FewFiles`: 9951 files with the code's constants). `RoundInv` says during the scan that each
  slide's id is either recently given or still remembered for its name, so that the ids given in
  the round cannot have come round to it.

### TextLineProofs

Assumed: lines are made of bytes (`TextBytesAssumption`); `MaxLine` is not even looked at. The
invariant is no more than that, `line \in Seq(Bytes)`: the properties are about what pure
functions make of every such line, and what is hard is that these functions recurse over it.

* `CRCIsRemainder` (`CRCRemainder`). The exclusive or is reduced to sixteen binary digits
  (`XorBits`, `SameBits`), whence it is associative and commutative, and the division is
  linear: shifting a bit into the sum of two registers is shifting it into each (`Linear`).
  The entries of the table are the remainders of all bytes (`TableOK`, from 0 by doubling and
  adding one: `TableEven` and `TableOdd` compute with the program's table itself). So one turn
  of the loop in `crc16` is eight steps of the division (`StepIsEight`), and by induction over
  the bytes the loop is the division (`LoopIsDivision`).
* `LongestTextConverted` (`LongestConverted`). `validate_next` says n where and only where a
  character of n bytes stands by Unicode's table (`CharacterOK`, one lemma for each length): the
  order of the checks for length, trailing bytes, surrogates, overlong forms and the last code
  point leaves no gap. `find_invalid` and `utf8to32` go from character to character
  (`JumpRecursion`), the reference counts backwards from each position (`BackRecursion`); that
  both find the same text needs that at most one character ends at a position (`OneEnd`), and
  that a position which ends a text is one `find_invalid` comes through (`GoneThrough`).
* `CharactersInPlace` (`EachInPlace`): that the entries are distinct, ASCII is in place, each
  regular capital letter has its small letter (`TableSmall`) and each small letter its capital
  (`TableCapital`) is computed with the program's table; that a character is found in its place
  (`PlaceFound`) needs that no other entry is the same.
* `CutLineIsPrefix` (`CutLinePrefix`): two lines that agree on a text agree on its characters
  (`BeginningDecoded`), and a longer line has the text of the shorter one at least
  (`CountKept`).

### What is only model-checked

Liveness under fairness (`EverythingArrives`, `LabelArrives`, `EncodeSlideReturns`,
`SentForever`, `EveryFileAired`, `SlideSent`), which is out of the prover's reach. Every safety
property of a passing run is proved, some under the hypotheses named above.

The induction theorems of the library take an operator as parameter, which the provers cannot
instantiate; `NumberProofs` therefore states induction (by the least counterexample) and
recursion for sets and functions. The proofs about parameter files, receivers of several
sub-fields, sorted sequences, bytes and characters rest on it.

## Not modelled, and the plan

1. Done: the modules above.
2. Done: proofs of all their safety properties, and of the safety part of `AppChannel`.
3. Left: receivers across a replacement of the `PadEncoder`. Slide ids and the toggle bit start
   again while receivers remember theirs; `PadEncoder` has the replacement, `DLSEncoder` and
   `SlideCarousel` do not.

Left out for good: what ImageMagick does to a picture, option parsing, wording of messages,
the opening of the socket, and code that is called nowhere (`convert_ebu_to_utf8`, `crc8`,
`crc32`, UTF-16 and iterators of the UTF-8 library).
