---------------------------- MODULE PadEncoderProofs ----------------------------
(***************************************************************************)
(* Requests, label files and dump files, for all options, PAD lengths and  *)
(* sizes, and however many unusual events there are.                       *)
(***************************************************************************)
EXTENDS PadEncoder, NumberProofs, SequenceTheorems, TLAPS

Encoding == pc \in {"complete", "slide", "label", "pad"}
Replaced == happened["restart"] > 0 \/ happened["padlen"] > 0 \/ happened["short"] > 0

\* At most one request waits, behind at most one other datagram.
SockInv ==
    \/ sock = <<>>
    \/ sock = <<Request(wanted)>>
    \/ \E dg \in {<<>>, << 2 >>, <<2, 58>>} :
          /\ sock = <<dg>> \/ sock = <<dg, Request(wanted)>>
          /\ dg = <<>> => happened["empty"] > 0
          /\ dg = << 2 >> => happened["short"] > 0

BufferInv ==
    /\ buffer[1] # MESSAGE_REQUEST
    /\ buflen = 0 => happened["empty"] > 0
    /\ buflen = 1 => happened["short"] > 0
    /\ Encoding => buflen = 4

PadlenInv ==
    /\ Encoding => padlen = previous_padlen /\ CheckPADLen(padlen)
    /\ happened["padlen"] = 0 /\ happened["short"] = 0 => previous_padlen \in {0, wanted}
    /\ happened["short"] = 0 /\ Encoding => padlen = wanted

\* A short datagram in the socket or the buffer is about to cost a request.
Pending ==
    (IF buflen = 1 THEN 1 ELSE 0) + (IF sock # <<>> /\ sock[1] = << 2 >> THEN 1 ELSE 0)

CountInv ==
    pc # "exit" /\ happened["empty"] = 0 =>
        /\ happened["short"] = 0 => unanswered = IF Encoding THEN 1 ELSE 0
        /\ unanswered + Pending <= happened["short"] + (IF Encoding THEN 1 ELSE 0)

\* Where there is no file yet, the first one is about to be switched to.
FileInv ==
    /\ enc.curr_dls_file = NoFile =>
           opt.dls_files > 1 /\ enc.next_label <= 0 /\ enc.label_left = 0
    /\ LabelHasFile

DumpInv ==
    /\ dump_completed # "onair"
    /\ dump_current = "onair" => enc.slide_left > 0 /\ previous_padlen # 0
    /\ dump_current = "cut" \/ dump_completed = "cut" => Replaced

IInv == /\ PadEncoderTypeOK /\ SockInv /\ BufferInv /\ PadlenInv
        /\ CountInv /\ FileInv /\ DumpInv

-----------------------------------------------------------------------------
\* What the constants say of the options in use.
LEMMA OptTypes ==
    ASSUME opt \in Options
    PROVE  /\ opt.slide_interval \in Nat /\ opt.label_interval \in Nat
           /\ opt.label_insertion \in Nat
           /\ opt.xpad_interval \in Nat \ {0} /\ opt.dls_files \in Nat \ {0}
  BY OptionsAssumption

\* The next file is a file, and the counter stays below the interval.
LEMMA Modulo ==
    ASSUME NEW a \in Int, NEW n \in Nat \ {0}
    PROVE  a % n \in 0 .. n - 1
  OBVIOUS

\* A new PadEncoder has the types of one, and no file to encode a label from.
LEMMA NewPadEncoderOK ==
    ASSUME opt \in Options, enc' = NewPadEncoder, opt' = opt
    PROVE  /\ enc' \in PadEncoders
           /\ enc'.label_left = 0
           /\ enc'.curr_dls_file = NoFile => opt.dls_files > 1 /\ enc'.next_label <= 0
  BY OptTypes DEF NewPadEncoder, NoFile, PadEncoders

\* An unusual event is counted, the others keep their counts.
LEMMA Counted ==
    ASSUME NEW event \in Events, happened \in [Events -> Nat], Unusual(event)
    PROVE  /\ happened' \in [Events -> Nat]
           /\ happened'[event] = happened[event] + 1
           /\ \A e \in Events \ {event} : happened'[e] = happened[e]
  BY DEF Unusual

LEMMA InitIInv == EncoderInit => IInv
  <1> SUFFICES ASSUME EncoderInit PROVE IInv
    OBVIOUS
  <1>1. PadEncoderTypeOK
    BY OptTypes, PadLensAssumption, BoundsAssumption
    DEF EncoderInit, PadEncoderTypeOK, PadEncoders, NewPadEncoder, NoFile
  <1>2. SockInv /\ BufferInv /\ PadlenInv /\ CountInv /\ DumpInv
    BY DEF EncoderInit, SockInv, BufferInv, PadlenInv, CountInv, DumpInv, Pending, Encoding, MESSAGE_REQUEST,
           Events
  <1>3. FileInv
    BY OptTypes DEF EncoderInit, FileInv, LabelHasFile, NewPadEncoder, NoFile
  <1>q. QED
    BY <1>1, <1>2, <1>3 DEF IInv

\* A sequence of one element becomes one of two.
LEMMA AppendOne ==
    ASSUME NEW a, NEW b
    PROVE Append(<<a>>, b) = <<a, b>>
  <1> DEFINE S == {a, b}
  <1>1. <<a>> \in Seq(S) /\ <<a, b>> \in Seq(S) /\ b \in S
    OBVIOUS
  <1>2. Append(<<a>>, b) \in Seq(S) /\ Len(Append(<<a>>, b)) = 2
    BY <1>1
  <1>3. Append(<<a>>, b)[1] = a /\ Append(<<a>>, b)[2] = b
    BY <1>1
  <1>4. Len(<<a, b>>) = 2 /\ <<a, b>>[1] = a /\ <<a, b>>[2] = b
    OBVIOUS
  <1>5. \A i \in 1 .. 2 : Append(<<a>>, b)[i] = <<a, b>>[i]
    BY <1>3, <1>4
  <1>q. QED
    BY <1>1, <1>2, <1>4, <1>5, SeqEqual

\* Time makes timelines earlier, and nothing else of the PadEncoder different.
LEMMA TimeKeeps ==
    ASSUME enc \in PadEncoders, since_label \in 0 .. MaxLag, TimePasses
    PROVE  /\ enc' \in PadEncoders
           /\ enc'.label_left = enc.label_left /\ enc'.slide_left = enc.slide_left
           /\ enc'.curr_dls_file = enc.curr_dls_file
           /\ enc.next_label <= 0 => enc'.next_label <= 0
           /\ since_label' \in 0 .. MaxLag
  <1> DEFINE Earlier(t) == IF t > -MaxLag THEN t - 1 ELSE t
  <1>1. MaxLag \in Nat
    BY BoundsAssumption
  <1>2. /\ enc' = [enc EXCEPT !.next_slide = Earlier(@), !.next_label = Earlier(@),
                              !.next_label_insertion = Earlier(@)]
        /\ since_label' = Least(since_label + 1, MaxLag)
    BY DEF TimePasses
  <1>3. \A t \in Int : Earlier(t) \in Int /\ Earlier(t) <= t
    BY <1>1
  <1> HIDE DEF Earlier
  <1>4. enc' \in PadEncoders
    BY <1>2, <1>3 DEF PadEncoders
  <1>5. /\ enc'.label_left = enc.label_left /\ enc'.slide_left = enc.slide_left
        /\ enc'.curr_dls_file = enc.curr_dls_file /\ enc'.next_label = Earlier(enc.next_label)
    BY <1>2 DEF PadEncoders
  <1>6. enc.next_label <= 0 => enc'.next_label <= 0
    BY <1>3, <1>4, <1>5 DEF PadEncoders
  <1>7. since_label' \in 0 .. MaxLag
    BY <1>1, <1>2 DEF Least
  <1>q. QED
    BY <1>4, <1>5, <1>6, <1>7

LEMMA FrameIInv == IInv /\ Frame => IInv'
  <1> SUFFICES ASSUME IInv, Frame PROVE IInv'
    OBVIOUS
  <1> USE DEF IInv
  <1>1. /\ UNCHANGED <<opt, request_files, dump_current, dump_completed, pc, aired, requested>>
        /\ UNCHANGED <<buffer, buflen, padlen, previous_padlen, unanswered>>
        /\ wanted' \in PadLens
        /\ sock' = Append(sock, Request(wanted')) /\ silence' = 0 /\ pc = "receive"
    BY DEF Frame, loopVars, dumpVars
  <1>2. /\ happened' \in [Events -> Nat]
        /\ \A e \in Events \ {"padlen"} : happened'[e] = happened[e]
        /\ \/ happened' = happened /\ wanted' = wanted
           \/ happened'["padlen"] > 0
    <2>1. CASE wanted' = wanted
      BY <2>1 DEF Frame, PadEncoderTypeOK
    <2>2. CASE wanted' # wanted
      <3>1. Unusual("padlen") /\ "padlen" \in Events /\ happened \in [Events -> Nat]
        BY <2>2 DEF Frame, Events, PadEncoderTypeOK
      <3>q. QED
        BY <3>1, Counted
    <2>q. QED
      BY <2>1, <2>2
  <1>3. SockInv'
    <2>1. CASE sock = <<>>
      BY <1>1, <2>1 DEF SockInv
    <2>2. CASE sock = <<Request(wanted)>>
      BY <2>2 DEF Frame, IsRequest, Request
    <2>3. ASSUME NEW dg \in {<<>>, << 2 >>, <<2, 58>>}, sock = <<dg, Request(wanted)>>
          PROVE  FALSE
      BY <2>3 DEF Frame, IsRequest, Request
    <2>4. ASSUME NEW dg \in {<<>>, << 2 >>, <<2, 58>>}, sock = <<dg>>,
                 dg = <<>> => happened["empty"] > 0, dg = << 2 >> => happened["short"] > 0
          PROVE  SockInv'
      <3>1. sock' = <<dg, Request(wanted')>>
        BY <1>1, <2>4, AppendOne
      <3>2. happened'["empty"] = happened["empty"] /\ happened'["short"] = happened["short"]
        BY <1>2 DEF Events
      <3>q. QED
        BY <2>4, <3>1, <3>2 DEF SockInv
    <2>q. QED
      BY <2>1, <2>2, <2>3, <2>4 DEF SockInv
  <1>4. PadEncoderTypeOK'
    <2>1. sock' \in Seq(Seq(Nat))
      BY <1>1, PadLensAssumption DEF PadEncoderTypeOK, Request, MESSAGE_REQUEST
    <2>2. enc' \in PadEncoders' /\ since_label' \in 0 .. MaxLag
      BY <1>1, TimeKeeps DEF Frame, PadEncoderTypeOK, PadEncoders
    <2>q. QED
      BY <1>1, <1>2, <2>1, <2>2, BoundsAssumption DEF PadEncoderTypeOK
  <1>5. BufferInv' /\ PadlenInv'
    BY <1>1, <1>2 DEF BufferInv, PadlenInv, Encoding, Events
  <1>6. DumpInv'
    <2>1. enc'.slide_left = enc.slide_left
      BY TimeKeeps DEF Frame, PadEncoderTypeOK
    <2>2. Replaced => Replaced'
      BY <1>2 DEF Replaced, Events
    <2>q. QED
      BY <1>1, <2>1, <2>2 DEF DumpInv
  <1>7. CountInv'
    <2>1. Pending' = Pending
      <3>1. sock = <<>> => sock' = <<Request(wanted')>> /\ sock'[1] # << 2 >>
        BY <1>1 DEF Request
      <3>2. sock # <<>> => sock' # <<>> /\ sock'[1] = sock[1]
        <4>1. sock \in Seq(Seq(Nat)) /\ Request(wanted') \in Seq(Nat)
          BY <1>1, PadLensAssumption DEF PadEncoderTypeOK, Request, MESSAGE_REQUEST
        <4>2. sock # <<>> => 1 \in 1 .. Len(sock)
          BY <4>1
        <4>q. QED
          BY <1>1, <4>1, <4>2, AppendProperties
      <3>q. QED
        BY <1>1, <3>1, <3>2 DEF Pending
    <2>q. QED
      BY <1>1, <1>2, <2>1 DEF CountInv, Encoding, Events
  <1>8. FileInv'
    BY <1>1, TimeKeeps DEF Frame, FileInv, LabelHasFile, PadEncoderTypeOK
  <1>q. QED
    BY <1>3, <1>4, <1>5, <1>6, <1>8, <1>7

\* The events that invariants mention have the counts they had.
SameCounts ==
    /\ happened' \in [Events -> Nat]
    /\ \A e \in {"empty", "short", "padlen", "restart"} : happened'[e] = happened[e]

LEMMA HarmlessEvent ==
    ASSUME happened \in [Events -> Nat],
           \/ UNCHANGED happened
           \/ \E e \in {"foreign", "pause", "reread", "rename", "failure"} : Unusual(e)
    PROVE  SameCounts
  BY Counted DEF SameCounts, Events

\* Steps that do nothing about requests.
LEMMA RequestsKept ==
    ASSUME SockInv, BufferInv, PadlenInv, CountInv, SameCounts,
           UNCHANGED <<sock, wanted, buffer, buflen, padlen, previous_padlen, unanswered>>,
           pc' = "exit" \/ (pc # "exit" /\ Encoding' = Encoding)
    PROVE  SockInv' /\ BufferInv' /\ PadlenInv' /\ CountInv'
  <1>1. SockInv'
    BY DEF SockInv, SameCounts
  <1>2. Encoding' => Encoding
    BY DEF Encoding
  <1>3. BufferInv' /\ PadlenInv'
    BY <1>2 DEF BufferInv, PadlenInv, SameCounts
  <1>4. CountInv'
    BY DEF CountInv, Pending, SameCounts
  <1>q. QED
    BY <1>1, <1>3, <1>4

\* Steps that do nothing about labels.
LEMMA FilesKept ==
    ASSUME FileInv, opt' = opt, aired' = aired,
           enc'.curr_dls_file = enc.curr_dls_file, enc'.label_left = enc.label_left,
           enc.next_label <= 0 => enc'.next_label <= 0
    PROVE  FileInv'
  BY DEF FileInv, LabelHasFile

\* Steps that do nothing about slides.
LEMMA DumpsKept ==
    ASSUME DumpInv, UNCHANGED <<dump_current, dump_completed, previous_padlen>>,
           enc'.slide_left = enc.slide_left, SameCounts
    PROVE  DumpInv'
  BY DEF DumpInv, Replaced, SameCounts

LEMMA PauseIInv == IInv /\ Pause => IInv'
  <1> SUFFICES ASSUME IInv, Pause PROVE IInv'
    OBVIOUS
  <1> USE DEF IInv
  <1>1. /\ UNCHANGED <<opt, sock, wanted, request_files, dump_current, dump_completed, pc>>
        /\ UNCHANGED <<buffer, buflen, padlen, previous_padlen, unanswered, aired, requested>>
        /\ silence' = Least(silence + 1, TIMEOUT) /\ pc = "receive"
    BY DEF Pause, loopVars, dumpVars
  <1>2. SameCounts
    BY HarmlessEvent DEF Pause, PadEncoderTypeOK
  <1>3. /\ enc' \in PadEncoders /\ since_label' \in 0 .. MaxLag
        /\ enc'.label_left = enc.label_left /\ enc'.slide_left = enc.slide_left
        /\ enc'.curr_dls_file = enc.curr_dls_file
        /\ enc.next_label <= 0 => enc'.next_label <= 0
    BY TimeKeeps DEF Pause, PadEncoderTypeOK
  <1>4. PadEncoderTypeOK'
    <2>1. silence' \in 0 .. TIMEOUT
      BY <1>1, BoundsAssumption DEF PadEncoderTypeOK, Least
    <2>2. enc' \in PadEncoders'
      BY <1>1, <1>3 DEF PadEncoders
    <2>q. QED
      BY <1>1, <1>2, <1>3, <2>1, <2>2 DEF PadEncoderTypeOK, SameCounts
  <1>q. QED
    BY <1>1, <1>2, <1>3, <1>4, RequestsKept, FilesKept, DumpsKept DEF Encoding

LEMMA IntrudeIInv == IInv /\ Intrude => IInv'
  <1> SUFFICES ASSUME IInv, Intrude PROVE IInv'
    OBVIOUS
  <1> USE DEF IInv
  <1>1. /\ UNCHANGED <<opt, wanted, request_files, dump_current, dump_completed, pc, enc>>
        /\ UNCHANGED <<buffer, buflen, padlen, previous_padlen, unanswered, aired, requested>>
        /\ UNCHANGED since_label
        /\ silence' = 0 /\ pc = "receive" /\ sock = <<>>
    BY DEF Intrude, loopVars, dumpVars, labelVars
  <1>2. PICK kind \in {"empty", "short", "foreign"} : Unusual(kind) /\ sock' = <<Foreign[kind]>>
    BY DEF Intrude
  <1>3. /\ happened' \in [Events -> Nat]
        /\ happened'[kind] = happened[kind] + 1
        /\ \A e \in Events \ {kind} : happened'[e] = happened[e]
    BY <1>2, Counted DEF Events, PadEncoderTypeOK
  <1>4. \A e \in Events : happened[e] \in Nat /\ happened'[e] \in Nat /\ happened'[e] >= happened[e]
    <2>1. kind \in Events /\ happened \in [Events -> Nat]
      BY DEF Events, PadEncoderTypeOK
    <2>q. QED
      BY <1>3, <2>1
  <1>5. \/ kind = "empty" /\ sock' = <<<<>>>>
        \/ kind = "short" /\ sock' = <<<< 2 >>>>
        \/ kind = "foreign" /\ sock' = <<<<2, 58>>>>
    BY <1>2 DEF Foreign
  <1>6. PadEncoderTypeOK'
    <2>1. sock' \in Seq(Seq(Nat))
      <3>1. <<>> \in Seq(Nat) /\ << 2 >> \in Seq(Nat) /\ <<2, 58>> \in Seq(Nat)
        OBVIOUS
      <3>2. PICK dg \in Seq(Nat) : sock' = <<dg>>
        BY <1>5, <3>1
      <3>q. QED
        BY <3>2
    <2>q. QED
      BY <1>1, <1>3, <2>1, BoundsAssumption DEF PadEncoderTypeOK, PadEncoders
  <1>7. SockInv'
    <2>1. kind = "empty" => happened'["empty"] > 0
      BY <1>3 DEF PadEncoderTypeOK, Events
    <2>2. kind = "short" => happened'["short"] > 0
      BY <1>3 DEF PadEncoderTypeOK, Events
    <2>3. PICK dg \in {<<>>, << 2 >>, <<2, 58>>} :
              /\ sock' = <<dg>>
              /\ dg = <<>> => kind = "empty"
              /\ dg = << 2 >> => kind = "short"
      BY <1>5
    <2>q. QED
      BY <2>1, <2>2, <2>3 DEF SockInv
  <1>8. BufferInv' /\ PadlenInv' /\ FileInv' /\ DumpInv'
    <2>1. \A e \in {"empty", "short", "padlen", "restart"} :
              happened[e] \in Nat /\ happened'[e] \in Nat /\ happened'[e] >= happened[e]
      BY <1>4 DEF Events
    <2>2. BufferInv' /\ PadlenInv'
      BY <1>1, <2>1 DEF BufferInv, PadlenInv, Encoding
    <2>3. FileInv'
      BY <1>1, FilesKept
    <2>4. Replaced => Replaced'
      BY <2>1 DEF Replaced
    <2>5. DumpInv'
      BY <1>1, <2>4 DEF DumpInv
    <2>q. QED
      BY <2>2, <2>3, <2>5
  <1>9. CountInv'
    <2>1. CASE kind = "short"
      <3>1. Pending' <= Pending + 1
        BY <1>1, <1>2 DEF Pending
      <3>q. QED
        BY <1>1, <1>3, <1>4, <2>1, <3>1 DEF CountInv, Encoding, Events, Pending, PadEncoderTypeOK
    <2>2. CASE kind # "short"
      <3>1. Pending' = Pending
        BY <1>1, <1>5, <2>2 DEF Pending
      <3>2. happened'["short"] = happened["short"]
        BY <1>3, <2>2 DEF Events
      <3>3. happened'["empty"] = 0 => happened["empty"] = 0
        BY <1>4 DEF Events
      <3>q. QED
        BY <1>1, <3>1, <3>2, <3>3 DEF CountInv, Encoding
    <2>q. QED
      BY <2>1, <2>2
  <1>q. QED
    BY <1>6, <1>7, <1>8, <1>9

LEMMA RequestRereadIInv == IInv /\ RequestReread => IInv'
  <1> SUFFICES ASSUME IInv, RequestReread PROVE IInv'
    OBVIOUS
  <1> USE DEF IInv
  <1>1. /\ UNCHANGED <<opt, sock, silence, wanted, dump_current, dump_completed, pc, enc>>
        /\ UNCHANGED <<buffer, buflen, padlen, previous_padlen, unanswered, aired, requested>>
        /\ UNCHANGED since_label
    BY DEF RequestReread, loopVars, dumpVars, labelVars
  <1>2. SameCounts
    BY HarmlessEvent DEF RequestReread, PadEncoderTypeOK
  <1>3. PadEncoderTypeOK'
    BY <1>1, <1>2 DEF RequestReread, PadEncoderTypeOK, PadEncoders, SameCounts
  <1>q. QED
    BY <1>1, <1>2, <1>3, RequestsKept, FilesKept, DumpsKept DEF Encoding

-----------------------------------------------------------------------------
\* What is left of a sequence of one or two elements.
LEMMA TailOne ==
    ASSUME NEW a
    PROVE Head(<<a>>) = a /\ Tail(<<a>>) = <<>>
  OBVIOUS

LEMMA TailTwo ==
    ASSUME NEW a, NEW b
    PROVE Head(<<a, b>>) = a /\ Tail(<<a, b>>) = <<b>>
  OBVIOUS

\* The forms of the datagram that is read next, and of those behind it.
LEMMA NextDatagram ==
    ASSUME SockInv, sock # <<>>, sock' = Tail(sock)
    PROVE  \/ Head(sock) = Request(wanted) /\ sock' = <<>>
           \/ /\ Head(sock) \in {<<>>, << 2 >>, <<2, 58>>}
              /\ Head(sock) = <<>> => happened["empty"] > 0
              /\ Head(sock) = << 2 >> => happened["short"] > 0
              /\ sock' = <<>> \/ sock' = <<Request(wanted)>>
  <1>1. CASE sock = <<Request(wanted)>>
    BY <1>1, TailOne
  <1>2. ASSUME NEW dg \in {<<>>, << 2 >>, <<2, 58>>},
               sock = <<dg>> \/ sock = <<dg, Request(wanted)>>,
               dg = <<>> => happened["empty"] > 0, dg = << 2 >> => happened["short"] > 0
        PROVE  /\ Head(sock) = dg
               /\ sock' = <<>> \/ sock' = <<Request(wanted)>>
    <2>1. CASE sock = <<dg>>
      BY <2>1, TailOne
    <2>2. CASE sock = <<dg, Request(wanted)>>
      BY <2>2, TailTwo
    <2>q. QED
      BY <1>2, <2>1, <2>2
  <1>q. QED
    BY <1>1, <1>2 DEF SockInv

\* What the request buffer holds after each form of datagram.
LEMMA BufferOf ==
    ASSUME buffer \in [1 .. 2 -> Nat], buflen \in 0 .. 4, wanted \in Nat
    PROVE  /\ \A dg \in {<<>>, << 2 >>, <<2, 58>>, Request(wanted)} :
                 Buffer(dg) \in [1 .. 2 -> Nat] /\ Received(dg) \in 0 .. buflen
           /\ Received(<<>>) = 0 /\ Buffer(<<>>) = buffer
           /\ Received(<< 2 >>) \in {0, 1} /\ Received(<<2, 58>>) \in {0, 1, 2}
           /\ \A dg \in {<< 2 >>, <<2, 58>>} : Buffer(dg)[1] \in {2, buffer[1]}
           /\ buflen = 0 => Buffer(Request(wanted))[1] = buffer[1]
           /\ buflen > 0 => Buffer(Request(wanted))[1] = MESSAGE_REQUEST
           /\ buflen > 1 => Buffer(Request(wanted))[2] = wanted
           /\ \A dg \in {<< 2 >>, <<2, 58>>} : Received(dg) = 0 => buflen = 0
           /\ Received(<<2, 58>>) = 1 => buflen = 1
  <1>1. /\ Received(<<>>) = 0
        /\ Received(<< 2 >>) = (IF buflen <= 1 THEN buflen ELSE 1)
        /\ Received(<<2, 58>>) = (IF buflen <= 2 THEN buflen ELSE 2)
        /\ Received(Request(wanted)) = (IF buflen <= 2 THEN buflen ELSE 2)
    BY DEF Received, Least, Request
  <1>2. /\ \A dg : Buffer(dg)[1] = IF 1 <= Received(dg) THEN dg[1] ELSE buffer[1]
        /\ \A dg : Buffer(dg)[2] = IF 2 <= Received(dg) THEN dg[2] ELSE buffer[2]
    BY DEF Buffer
  <1>3. /\ Request(wanted)[1] = MESSAGE_REQUEST /\ Request(wanted)[2] = wanted
        /\ << 2 >>[1] = 2 /\ <<2, 58>>[1] = 2 /\ <<2, 58>>[2] = 58
        /\ MESSAGE_REQUEST \in Nat
    BY DEF Request, MESSAGE_REQUEST
  <1>4. ASSUME NEW dg \in {<<>>, << 2 >>, <<2, 58>>, Request(wanted)}
        PROVE  Buffer(dg) \in [1 .. 2 -> Nat] /\ Received(dg) \in 0 .. buflen
    <2>1. Received(dg) \in 0 .. buflen
      BY <1>1, <1>4
    <2>2. \A i \in 1 .. 2 : i <= Received(dg) => dg[i] \in Nat
      BY <1>1, <1>3
    <2>3. \A i \in 1 .. 2 : (IF i <= Received(dg) THEN dg[i] ELSE buffer[i]) \in Nat
      BY <2>2
    <2>4. Buffer(dg) \in [1 .. 2 -> Nat]
      BY <2>3 DEF Buffer
    <2>q. QED
      BY <2>1, <2>4
  <1>5. Buffer(<<>>) = buffer
    BY <1>1 DEF Buffer
  <1>q. QED
    BY <1>1, <1>2, <1>3, <1>4, <1>5

LEMMA SkipMessageIInv == IInv /\ SkipMessage => IInv'
  <1> SUFFICES ASSUME IInv, SkipMessage PROVE IInv'
    OBVIOUS
  <1> USE DEF IInv
  <1> DEFINE dg == Head(sock)
  <1>1. /\ UNCHANGED <<opt, silence, wanted, request_files, happened, dump_current, dump_completed>>
        /\ UNCHANGED <<padlen, previous_padlen, aired, requested, since_label, pc, enc>>
        /\ pc = "receive" /\ sock # <<>> /\ sock' = Tail(sock)
        /\ buffer' = Buffer(dg) /\ buflen' = Received(dg)
        /\ Buffer(dg)[1] # MESSAGE_REQUEST
        /\ CountRequest(dg)
    BY DEF SkipMessage, dumpVars, labelVars
  <1>2. buffer \in [1 .. 2 -> Nat] /\ buflen \in 0 .. 4 /\ wanted \in Nat
    BY PadLensAssumption DEF PadEncoderTypeOK
  <1>3. \/ dg = Request(wanted) /\ sock' = <<>>
        \/ /\ dg \in {<<>>, << 2 >>, <<2, 58>>}
           /\ dg = <<>> => happened["empty"] > 0
           /\ dg = << 2 >> => happened["short"] > 0
           /\ sock' = <<>> \/ sock' = <<Request(wanted)>>
    BY <1>1, NextDatagram
  <1> HIDE DEF dg
  <1>4. dg = Request(wanted) => buflen = 0 /\ happened["empty"] > 0
    BY <1>1, <1>2, BufferOf DEF BufferInv
  <1>5. /\ buffer' \in [1 .. 2 -> Nat] /\ buflen' \in 0 .. 4
        /\ buflen' = 0 => happened["empty"] > 0
        /\ buflen' = 1 => happened["short"] > 0
    <2>1. dg \in {<<>>, << 2 >>, <<2, 58>>, Request(wanted)}
      BY <1>3
    <2>2. buffer' \in [1 .. 2 -> Nat] /\ buflen' \in 0 .. buflen
      BY <1>1, <1>2, <2>1, BufferOf
    <2>3. buflen' = 0 => happened["empty"] > 0
      BY <1>1, <1>2, <1>3, <1>4, BufferOf DEF BufferInv
    <2>4. buflen' = 1 => happened["short"] > 0
      <3>1. dg = Request(wanted) => buflen' # 1
        BY <1>4, <2>2
      <3>2. dg = <<>> => buflen' # 1
        BY <1>1, <1>2, BufferOf
      <3>3. dg = <<2, 58>> /\ buflen' = 1 => buflen = 1
        BY <1>1, <1>2, BufferOf
      <3>q. QED
        BY <1>3, <3>1, <3>2, <3>3 DEF BufferInv
    <2>q. QED
      BY <1>2, <2>2, <2>3, <2>4
  <1>6. sock' \in Seq(Seq(Nat))
    BY <1>1 DEF PadEncoderTypeOK
  <1>7. happened["empty"] = 0 => unanswered' = unanswered /\ Pending' <= Pending
    <2> SUFFICES ASSUME happened["empty"] = 0
                 PROVE  unanswered' = unanswered /\ Pending' <= Pending
      OBVIOUS
    <2>1. dg \in {<< 2 >>, <<2, 58>>}
      BY <1>3, <1>4
    <2>2. ~IsRequest(dg)
      BY <2>1 DEF IsRequest, MESSAGE_REQUEST
    <2>3. sock[1] = dg
      BY <1>1 DEF dg, PadEncoderTypeOK
    <2>4. sock' # <<>> => sock'[1] # << 2 >>
      BY <1>3 DEF Request
    <2>5. buflen' = 1 => dg = << 2 >> \/ buflen = 1
      BY <1>1, <1>2, <2>1, BufferOf
    <2>q. QED
      BY <1>1, <2>2, <2>3, <2>4, <2>5 DEF CountRequest, Pending
  <1>8. PadEncoderTypeOK'
    <2>1. unanswered' \in Int
      BY <1>1, BoundsAssumption DEF CountRequest, Least, PadEncoderTypeOK
    <2>q. QED
      BY <1>1, <1>5, <1>6, <2>1 DEF PadEncoderTypeOK, PadEncoders
  <1>9. SockInv'
    BY <1>1, <1>3 DEF SockInv
  <1>10. BufferInv' /\ PadlenInv'
    BY <1>1, <1>5 DEF BufferInv, PadlenInv, Encoding
  <1>11. CountInv'
    <2>1. Pending \in Int /\ Pending' \in Int /\ unanswered \in Int /\ happened["short"] \in Nat
      BY DEF Pending, PadEncoderTypeOK, Events
    <2>q. QED
      BY <1>1, <1>7, <2>1 DEF CountInv, Encoding
  <1>12. FileInv' /\ DumpInv'
    BY <1>1 DEF FileInv, LabelHasFile, DumpInv, Replaced
  <1>q. QED
    BY <1>8, <1>9, <1>10, <1>11, <1>12

LEMMA TimeoutIInv == IInv /\ Timeout => IInv'
  <1> SUFFICES ASSUME IInv, Timeout PROVE IInv'
    OBVIOUS
  <1> USE DEF IInv
  <1>1. /\ UNCHANGED <<opt, sock, wanted, request_files, happened, dump_current, dump_completed>>
        /\ UNCHANGED <<previous_padlen, unanswered, aired, requested, since_label, pc, enc>>
        /\ pc = "receive" /\ sock = <<>> /\ silence' = 0
        /\ buffer' = <<0, 0>> /\ buflen' = 4 /\ padlen' = 0
    BY DEF Timeout, FreshBuffer, dumpVars, labelVars
  <1>2. PadEncoderTypeOK'
    BY <1>1, BoundsAssumption DEF PadEncoderTypeOK, PadEncoders
  <1>3. SockInv' /\ BufferInv' /\ PadlenInv'
    BY <1>1 DEF SockInv, BufferInv, PadlenInv, Encoding, MESSAGE_REQUEST
  <1>4. CountInv'
    <2>1. Pending' = 0 /\ Pending \in Nat
      BY <1>1 DEF Pending
    <2>2. unanswered \in Int /\ happened["short"] \in Nat
      BY DEF PadEncoderTypeOK, Events
    <2>q. QED
      BY <1>1, <2>1, <2>2 DEF CountInv, Encoding
  <1>5. FileInv' /\ DumpInv'
    BY <1>1 DEF FileInv, LabelHasFile, DumpInv, Replaced
  <1>q. QED
    BY <1>2, <1>3, <1>4, <1>5

\* A new PadEncoder keeps what is known of files.
LEMMA ReplaceOK ==
    ASSUME PadEncoderTypeOK, opt' = opt, MaxLag \in Nat, ReplacePadEncoder
    PROVE  /\ enc' \in PadEncoders /\ since_label' \in 0 .. MaxLag /\ requested' \in Int
           /\ FileInv'
           /\ dump_current' \in {"none", "sent", "cut"}
           /\ dump_current' = "cut" => dump_current \in {"onair", "cut"}
  <1>1. enc' = NewPadEncoder
    BY DEF ReplacePadEncoder
  <1>2. /\ enc' \in PadEncoders /\ enc'.label_left = 0
        /\ enc'.curr_dls_file = NoFile => opt.dls_files > 1 /\ enc'.next_label <= 0
    BY <1>1, NewPadEncoderOK DEF PadEncoderTypeOK
  <1>3. FileInv'
    BY <1>2 DEF FileInv, LabelHasFile
  <1>q. QED
    BY <1>2, <1>3 DEF ReplacePadEncoder, PadEncoderTypeOK, NoFile

LEMMA ReceiveRequestIInv == IInv /\ ReceiveRequest => IInv'
  <1> SUFFICES ASSUME IInv, ReceiveRequest PROVE IInv'
    OBVIOUS
  <1> USE DEF IInv
  <1> DEFINE dg == Head(sock)
             p  == Buffer(dg)[2]
  <1>1. /\ UNCHANGED <<opt, silence, wanted, request_files, happened, dump_completed, aired>>
        /\ pc = "receive" /\ sock # <<>> /\ sock' = Tail(sock)
        /\ buffer' = <<0, 0>> /\ buflen' = 4
        /\ Buffer(dg)[1] = MESSAGE_REQUEST
        /\ CountRequest(dg)
        /\ padlen' = p
        /\ previous_padlen' = IF p > 0 THEN p ELSE previous_padlen
        /\ IF CheckPADLen(p) /\ p # previous_padlen
           THEN ReplacePadEncoder
           ELSE UNCHANGED <<dump_current, enc, requested, since_label>>
        /\ pc' = IF p = 0 THEN "receive" ELSE IF CheckPADLen(p) THEN "complete" ELSE "exit"
    BY DEF ReceiveRequest, FreshBuffer
  <1>2. /\ buffer \in [1 .. 2 -> Nat] /\ buflen \in 0 .. 4 /\ wanted \in Nat \ {0}
        /\ MaxLag \in Nat /\ MaxUnusual \in Nat
        /\ happened["short"] \in Nat /\ unanswered \in Int /\ previous_padlen \in Nat
    <2>1. wanted \in Nat \ {0}
      BY PadLensAssumption DEF PadEncoderTypeOK
    <2>2. MaxLag \in Nat /\ MaxUnusual \in Nat
      BY BoundsAssumption
    <2>q. QED
      BY <2>1, <2>2 DEF PadEncoderTypeOK, Events
  <1>3. \/ dg = Request(wanted) /\ sock' = <<>>
        \/ dg \in {<<>>, << 2 >>, <<2, 58>>}
    BY <1>1, NextDatagram
  <1> HIDE DEF dg
  <1>4. dg = Request(wanted) /\ sock' = <<>> /\ buflen > 0
    <2>1. wanted \in Nat /\ buffer[1] # MESSAGE_REQUEST /\ MESSAGE_REQUEST # 2
      BY <1>2 DEF BufferInv, MESSAGE_REQUEST
    <2>2. dg \notin {<<>>, << 2 >>, <<2, 58>>}
      BY <1>1, <1>2, <2>1, BufferOf
    <2>3. buflen # 0
      BY <1>1, <1>2, <1>3, <2>1, <2>2, BufferOf
    <2>q. QED
      BY <1>2, <1>3, <2>2, <2>3
  <1>5. p \in Nat /\ (buflen > 1 => p = wanted)
    BY <1>2, <1>4, BufferOf
  <1>6. happened["short"] = 0 => p = wanted
    BY <1>2, <1>4, <1>5 DEF BufferInv
  <1> HIDE DEF p
  <1>7. unanswered' = Least(unanswered + 1, MaxUnusual + 2)
    BY <1>1, <1>4 DEF CountRequest, IsRequest, Request
  <1>8. /\ unanswered' \in Int /\ unanswered' <= unanswered + 1
        /\ unanswered = 0 => unanswered' = 1
    BY <1>2, <1>7 DEF Least
  <1>9. FileInv' /\ DumpInv'
    <2>1. CASE CheckPADLen(p) /\ p # previous_padlen
      <3>1. /\ FileInv'
            /\ dump_current' \in {"none", "sent", "cut"}
            /\ dump_current' = "cut" => dump_current \in {"onair", "cut"}
        BY <1>1, <1>2, <2>1, ReplaceOK
      <3>2. dump_current = "onair" => Replaced
        <4>1. dump_current = "onair" => previous_padlen # 0
          BY DEF DumpInv
        <4>2. happened["padlen"] \in Nat /\ happened["short"] \in Nat
          BY DEF PadEncoderTypeOK, Events
        <4>q. QED
          BY <1>6, <2>1, <4>1, <4>2 DEF PadlenInv, Replaced
      <3>q. QED
        BY <1>1, <3>1, <3>2 DEF DumpInv, Replaced
    <2>2. CASE ~(CheckPADLen(p) /\ p # previous_padlen)
      <3>1. UNCHANGED <<dump_current, enc, requested, since_label>>
        BY <1>1, <2>2
      <3>2. previous_padlen # 0 => previous_padlen' # 0
        BY <1>1, <1>2, <1>5
      <3>q. QED
        BY <1>1, <3>1, <3>2 DEF FileInv, LabelHasFile, DumpInv, Replaced
    <2>q. QED
      BY <2>1, <2>2
  <1>10. /\ enc' \in PadEncoders' /\ since_label' \in 0 .. MaxLag /\ requested' \in Int
         /\ dump_current' \in {"none", "onair", "sent", "cut"}
    <2>1. CASE CheckPADLen(p) /\ p # previous_padlen
      BY <1>1, <1>2, <2>1, ReplaceOK DEF PadEncoders
    <2>2. CASE ~(CheckPADLen(p) /\ p # previous_padlen)
      BY <1>1, <2>2 DEF PadEncoderTypeOK, PadEncoders
    <2>q. QED
      BY <2>1, <2>2
  <1>11. PadEncoderTypeOK'
    <2>1. /\ sock' \in Seq(Seq(Nat)) /\ buffer' \in [1 .. 2 -> Nat] /\ buflen' \in 0 .. 4
          /\ pc' \in {"receive", "complete", "exit"}
      <3>1. <<>> \in Seq(Seq(Nat)) /\ <<0, 0>> \in [1 .. 2 -> Nat]
        OBVIOUS
      <3>2. pc' \in {"receive", "complete", "exit"}
        BY <1>1
      <3>3. sock' \in Seq(Seq(Nat)) /\ buffer' \in [1 .. 2 -> Nat]
        BY ONLY <1>1, <1>4, <3>1
      <3>q. QED
        BY <1>1, <3>2, <3>3
    <2>2. padlen' \in Nat /\ previous_padlen' \in Nat
      BY <1>1, <1>2, <1>5
    <2>q. QED
      BY <1>1, <1>8, <1>10, <2>1, <2>2 DEF PadEncoderTypeOK
  <1>12. SockInv' /\ BufferInv'
    BY <1>1, <1>4 DEF SockInv, BufferInv, MESSAGE_REQUEST
  <1>13. Encoding' => CheckPADLen(p) /\ p > 0
    BY <1>1, <1>5 DEF Encoding
  <1>14. PadlenInv'
    BY <1>1, <1>6, <1>13 DEF PadlenInv
  <1>15. CountInv'
    <2> SUFFICES ASSUME pc' # "exit", happened["empty"] = 0
                 PROVE  /\ happened["short"] = 0 => unanswered' = IF Encoding' THEN 1 ELSE 0
                        /\ unanswered' <= happened["short"] + (IF Encoding' THEN 1 ELSE 0)
      <3>1. Pending' = 0
        BY <1>1, <1>4 DEF Pending
      <3>2. unanswered' \in Int
        BY <1>8
      <3>q. QED
        BY <1>1, <3>1, <3>2 DEF CountInv
    <2>1. ~Encoding /\ unanswered + Pending <= happened["short"] /\ Pending \in Nat
          /\ (happened["short"] = 0 => unanswered = 0)
      <3>1. ~Encoding
        BY <1>1 DEF Encoding
      <3>2. Pending \in Nat
        BY DEF Pending
      <3>q. QED
        BY <1>1, <1>2, <3>1, <3>2 DEF CountInv
    <2>2. CASE p = 0
      <3>1. buflen = 1 /\ happened["short"] > 0 /\ Pending >= 1
        BY <1>2, <1>4, <1>5, <2>2 DEF BufferInv, Pending
      <3>q. QED
        BY <1>2, <1>8, <2>1, <3>1
    <2>3. CASE p # 0
      <3>1. Encoding'
        BY <1>1, <2>3 DEF Encoding
      <3>q. QED
        BY <1>2, <1>8, <2>1, <3>1
    <2>q. QED
      BY <2>2, <2>3
  <1>q. QED
    BY <1>9, <1>11, <1>12, <1>14, <1>15

-----------------------------------------------------------------------------
LEMMA CompleteSlideIInv == IInv /\ CompleteSlide => IInv'
  <1> SUFFICES ASSUME IInv, CompleteSlide PROVE IInv'
    OBVIOUS
  <1> USE DEF IInv
  <1>1. /\ UNCHANGED <<opt, sock, silence, wanted, request_files, aired, requested, since_label>>
        /\ UNCHANGED <<buffer, buflen, padlen, previous_padlen, unanswered, enc>>
        /\ pc = "complete" /\ pc' = "slide"
    BY DEF CompleteSlide, loopVars, labelVars
  <1>2. SameCounts
    BY HarmlessEvent DEF CompleteSlide, PadEncoderTypeOK
  <1>3. \/ UNCHANGED <<dump_current, dump_completed>>
        \/ /\ ~(enc.slide_left > 0)
           /\ dump_completed' = dump_current /\ dump_current' = "none"
    BY DEF CompleteSlide, dumpVars, Transmitted, SlideQueued
  <1>4. PadEncoderTypeOK'
    BY <1>1, <1>2, <1>3 DEF PadEncoderTypeOK, PadEncoders, SameCounts
  <1>5. DumpInv'
    BY <1>1, <1>2, <1>3 DEF DumpInv, Replaced, SameCounts
  <1>q. QED
    BY <1>1, <1>2, <1>4, <1>5, RequestsKept, FilesKept DEF Encoding

LEMMA HandleSLSIInv == IInv /\ HandleSLS => IInv'
  <1> SUFFICES ASSUME IInv, HandleSLS PROVE IInv'
    OBVIOUS
  <1> USE DEF IInv
  <1>1. /\ UNCHANGED <<opt, sock, silence, wanted, request_files, aired, requested, since_label>>
        /\ UNCHANGED <<buffer, buflen, padlen, previous_padlen, unanswered, happened, dump_completed>>
        /\ pc = "slide" /\ pc' = "label"
    BY DEF HandleSLS, outsideVars, loopVars, labelVars
  <1>2. SameCounts
    BY <1>1, HarmlessEvent DEF PadEncoderTypeOK
  <1>3. PICK timeline \in Int :
            \/ enc' = [enc EXCEPT !.next_slide = timeline] /\ UNCHANGED dump_current
            \/ \E slide \in SlideUnits :
                  /\ enc' = [enc EXCEPT !.next_slide = timeline, !.slide_left = slide]
                  /\ dump_current' = "onair"
    <2> DEFINE t == IF SlideDue /\ opt.slide_interval > 0
                    THEN enc.next_slide + opt.slide_interval ELSE enc.next_slide
    <2>1. enc.next_slide \in Int /\ opt.slide_interval \in Int
      <3>1. opt.slide_interval \in Nat
        BY OptTypes DEF PadEncoderTypeOK
      <3>q. QED
        BY <3>1 DEF PadEncoderTypeOK, PadEncoders
    <2>2. t \in Int
      BY <2>1
    <2>3. \/ enc' = [enc EXCEPT !.next_slide = t] /\ UNCHANGED dump_current
          \/ \E slide \in SlideUnits :
                /\ enc' = [enc EXCEPT !.next_slide = t, !.slide_left = slide]
                /\ dump_current' = "onair"
      BY DEF HandleSLS
    <2>q. QED
      BY <2>2, <2>3
  <1>4. previous_padlen # 0
    BY <1>1 DEF PadlenInv, Encoding, CheckPADLen
  <1>5. /\ enc' \in PadEncoders
        /\ enc'.curr_dls_file = enc.curr_dls_file /\ enc'.label_left = enc.label_left
        /\ enc'.next_label = enc.next_label
        /\ \/ enc'.slide_left = enc.slide_left /\ UNCHANGED dump_current
           \/ enc'.slide_left > 0 /\ dump_current' = "onair"
    <2>1. enc \in PadEncoders
      BY DEF PadEncoderTypeOK
    <2>2. CASE enc' = [enc EXCEPT !.next_slide = timeline] /\ UNCHANGED dump_current
      BY <2>1, <2>2 DEF PadEncoders
    <2>3. ASSUME NEW slide \in SlideUnits,
                 enc' = [enc EXCEPT !.next_slide = timeline, !.slide_left = slide]
          PROVE  /\ enc' \in PadEncoders /\ enc'.slide_left > 0
                 /\ enc'.curr_dls_file = enc.curr_dls_file /\ enc'.label_left = enc.label_left
                 /\ enc'.next_label = enc.next_label
      <3>1. slide \in Nat /\ slide > 0
        BY UnitsAssumption
      <3>q. QED
        BY <2>1, <2>3, <3>1 DEF PadEncoders
    <2>q. QED
      BY <1>3, <2>2, <2>3
  <1>6. PadEncoderTypeOK'
    BY <1>1, <1>2, <1>5 DEF PadEncoderTypeOK, PadEncoders, SameCounts
  <1>7. DumpInv'
    BY <1>1, <1>4, <1>5 DEF DumpInv, Replaced
  <1>q. QED
    BY <1>1, <1>2, <1>5, <1>6, <1>7, RequestsKept, FilesKept DEF Encoding

\* Once a label is looked for there is a file, by request or by turn.
LEMMA FileChosen ==
    ASSUME opt \in Options, enc \in PadEncoders, FileInv,
           NEW r \in {NoFile} \cup 0 .. opt.dls_files - 1
    PROVE  /\ Switch(Reread(r)) \in PadEncoders
           /\ Switch(Reread(r)).curr_dls_file # NoFile
           /\ Switch(Reread(r)).label_left = enc.label_left
           /\ Switch(Reread(r)).slide_left = enc.slide_left
  <1> DEFINE e == Reread(r)
  <1>1. /\ opt.label_interval \in Nat /\ opt.dls_files \in Nat \ {0}
        /\ r # NoFile => r \in 0 .. opt.dls_files - 1
    BY OptTypes
  <1>2. /\ e \in PadEncoders
        /\ e.label_left = enc.label_left /\ e.slide_left = enc.slide_left
        /\ e.curr_dls_file = NoFile => Rotates(e)
    <2>1. CASE r = NoFile
      BY <2>1 DEF Reread, FileInv, Rotates
    <2>2. CASE r # NoFile
      <3>1. /\ e = [enc EXCEPT !.curr_dls_file = r, !.next_label = opt.label_interval,
                               !.next_label_insertion = 0]
            /\ r \in NoFile .. opt.dls_files - 1
        BY <1>1, <2>2 DEF Reread, NoFile
      <3>q. QED
        <4>1. enc \in PadEncoders /\ opt.label_interval \in Int /\ 0 \in Int
          BY <1>1
        <4>2. e \in PadEncoders
          BY ONLY <3>1, <4>1 DEF PadEncoders
        <4>3. /\ e.label_left = enc.label_left /\ e.slide_left = enc.slide_left
              /\ e.curr_dls_file = r
          BY ONLY <3>1, <4>1 DEF PadEncoders
        <4>q. QED
          BY <2>2, <4>2, <4>3
    <2>q. QED
      BY <2>1, <2>2
  <1> HIDE DEF e
  <1>3. CASE Rotates(e)
    <2>1. e.curr_dls_file + 1 \in Int /\ e.next_label \in Int
      BY <1>1, <1>2 DEF PadEncoders, NoFile
    <2>2. (e.curr_dls_file + 1) % opt.dls_files \in 0 .. opt.dls_files - 1
      BY <1>1, <2>1, Modulo
    <2>3. e.next_label + opt.label_interval \in Int
      BY <1>1, <2>1
    <2> DEFINE f == (e.curr_dls_file + 1) % opt.dls_files
               t == e.next_label + opt.label_interval
    <2>4. Switch(e) = [e EXCEPT !.curr_dls_file = f, !.next_label = t,
                                !.next_label_insertion = 0]
      BY <1>3 DEF Switch
    <2> HIDE DEF f, t
    <2>5. f \in NoFile .. opt.dls_files - 1 /\ f # NoFile /\ t \in Int
      BY <1>1, <2>2, <2>3 DEF f, t, NoFile
    <2>q. QED
      <3>1. Switch(e) \in PadEncoders
        <4>1. e \in PadEncoders /\ f \in NoFile .. opt.dls_files - 1 /\ t \in Int /\ 0 \in Int
          BY <1>2, <2>5
        <4>q. QED
          BY ONLY <2>4, <4>1 DEF PadEncoders
      <3>2. /\ Switch(e).curr_dls_file = f /\ Switch(e).label_left = e.label_left
            /\ Switch(e).slide_left = e.slide_left
        BY ONLY <1>2, <2>4 DEF PadEncoders
      <3>q. QED
        BY <1>2, <2>5, <3>1, <3>2 DEF e
  <1>4. CASE ~Rotates(e)
    BY <1>2, <1>4 DEF Switch, e
  <1>q. QED
    BY <1>3, <1>4

LEMMA HandleDLSIInv == IInv /\ HandleDLS => IInv'
  <1> SUFFICES ASSUME IInv, HandleDLS PROVE IInv'
    OBVIOUS
  <1> USE DEF IInv
  <1>1. /\ UNCHANGED <<opt, sock, silence, wanted, dump_current, dump_completed>>
        /\ UNCHANGED <<buffer, buflen, padlen, previous_padlen, unanswered>>
        /\ pc = "label" /\ pc' = "pad" /\ request_files' \subseteq request_files
    BY DEF HandleDLS, CheckRereadFiles, loopVars, dumpVars
  <1>2. SameCounts
    BY HarmlessEvent DEF HandleDLS, CheckRereadFiles, PadEncoderTypeOK
  <1>3. PICK r \in request_files \cup {NoFile}, label \in LabelUnits :
            LET e == Switch(Reread(r))
            IN  /\ enc' = InsertLabel(e, label)
                /\ aired' = IF LabelDue(e) THEN e.curr_dls_file ELSE aired
                /\ requested' \in {NoFile, r, requested}
                /\ since_label' \in {0, since_label}
    BY DEF HandleDLS, CheckRereadFiles
  <1> DEFINE e == Switch(Reread(r))
  <1>4. /\ opt.label_insertion \in Nat /\ opt.dls_files \in Nat /\ label \in Nat
        /\ r \in {NoFile} \cup 0 .. opt.dls_files - 1
    BY <1>3, OptTypes, UnitsAssumption DEF PadEncoderTypeOK
  <1>5. /\ e \in PadEncoders /\ e.curr_dls_file # NoFile
        /\ e.label_left = enc.label_left /\ e.slide_left = enc.slide_left
    BY <1>4, FileChosen DEF PadEncoderTypeOK
  <1>6. /\ enc' = InsertLabel(e, label)
        /\ aired' = IF LabelDue(e) THEN e.curr_dls_file ELSE aired
    BY <1>3
  <1> HIDE DEF e
  <1>7. e.curr_dls_file \in 0 .. opt.dls_files - 1
    BY <1>4, <1>5 DEF PadEncoders, NoFile
  <1>8. /\ enc' \in PadEncoders /\ enc'.slide_left = enc.slide_left
         /\ aired' \in Int /\ FileInv'
    <2>1. CASE LabelDue(e)
      <3>1. /\ enc' = [e EXCEPT !.next_label_insertion = @ + opt.label_insertion,
                                !.label_left = label]
            /\ aired' = e.curr_dls_file
        BY <1>6, <2>1 DEF InsertLabel
      <3>2. enc' \in PadEncoders
        <4>1. e.next_label_insertion + opt.label_insertion \in Int
          BY <1>4, <1>5 DEF PadEncoders
        <4>q. QED
          BY <1>4, <1>5, <3>1, <4>1 DEF PadEncoders
      <3>3. enc'.curr_dls_file = e.curr_dls_file /\ enc'.slide_left = e.slide_left
        BY <1>5, <3>1 DEF PadEncoders
      <3>4. FileInv'
        BY <1>1, <1>5, <1>7, <3>1, <3>3 DEF FileInv, LabelHasFile
      <3>q. QED
        BY <1>5, <1>7, <3>1, <3>2, <3>3, <3>4
    <2>2. CASE ~LabelDue(e)
      <3>1. enc' = e /\ aired' = aired
        BY <1>6, <2>2 DEF InsertLabel
      <3>2. FileInv'
        BY <1>1, <1>5, <3>1 DEF FileInv, LabelHasFile
      <3>q. QED
        BY <1>5, <3>1, <3>2 DEF PadEncoderTypeOK
    <2>q. QED
      BY <2>1, <2>2
  <1>9. PadEncoderTypeOK'
    <2>1. requested' \in Int /\ since_label' \in 0 .. MaxLag
      BY <1>3, <1>4, BoundsAssumption DEF PadEncoderTypeOK, NoFile
    <2>q. QED
      BY <1>1, <1>2, <1>8, <2>1 DEF PadEncoderTypeOK, PadEncoders, SameCounts
  <1>10. DumpInv'
    BY <1>1, <1>2, <1>8, DumpsKept
  <1>q. QED
    BY <1>1, <1>2, <1>8, <1>9, <1>10, RequestsKept DEF Encoding

LEMMA SendPADIInv == IInv /\ SendPAD => IInv'
  <1> SUFFICES ASSUME IInv, SendPAD PROVE IInv'
    OBVIOUS
  <1> USE DEF IInv
  <1> DEFINE carried == IF enc.xpad_interval_counter = 0 THEN Capacity[padlen] ELSE 0
             label   == Least(enc.label_left, carried)
             slide   == Least(enc.slide_left, carried - label)
             counter == (enc.xpad_interval_counter + 1) % opt.xpad_interval
  <1>1. /\ UNCHANGED <<opt, sock, silence, wanted, request_files, happened, dump_completed>>
        /\ UNCHANGED <<buffer, buflen, padlen, previous_padlen, aired, requested, since_label>>
        /\ pc = "pad" /\ pc' = "receive" /\ unanswered' = unanswered - 1
        /\ enc' = [enc EXCEPT !.label_left = @ - label, !.slide_left = @ - slide,
                              !.xpad_interval_counter = (@ + 1) % opt.xpad_interval]
        /\ dump_current' = IF dump_current = "onair" /\ enc.slide_left = slide THEN "sent"
                           ELSE dump_current
    BY DEF SendPAD, outsideVars, labelVars
  <1>2. /\ enc.label_left \in Nat /\ enc.slide_left \in Nat
        /\ enc.xpad_interval_counter + 1 \in Int
    BY OptTypes DEF PadEncoderTypeOK, PadEncoders
  <1>3. carried \in Nat
    <2>1. padlen \in 6 .. 196
      BY <1>1 DEF PadlenInv, Encoding, CheckPADLen, PadEncoderTypeOK
    <2>q. QED
      BY <2>1, UnitsAssumption
  <1> HIDE DEF carried
  <1>4. /\ label \in Nat /\ label <= enc.label_left /\ label <= carried
    BY <1>2, <1>3 DEF Least
  <1> HIDE DEF label
  <1>5. slide \in Nat /\ slide <= enc.slide_left
    BY <1>2, <1>3, <1>4 DEF Least
  <1>6. counter \in 0 .. opt.xpad_interval - 1
    BY <1>2, OptTypes, Modulo DEF PadEncoderTypeOK
  <1>7. enc' = [enc EXCEPT !.label_left = enc.label_left - label,
                           !.slide_left = enc.slide_left - slide,
                           !.xpad_interval_counter = counter]
    BY <1>1
  <1> HIDE DEF slide, counter
  <1>8. enc.label_left - label \in Nat /\ enc.slide_left - slide \in Nat
    BY <1>2, <1>4, <1>5
  <1>9. /\ enc' \in PadEncoders
        /\ enc'.curr_dls_file = enc.curr_dls_file /\ enc'.next_label = enc.next_label
        /\ enc'.label_left = enc.label_left - label /\ enc'.slide_left = enc.slide_left - slide
    BY <1>6, <1>7, <1>8 DEF PadEncoderTypeOK, PadEncoders
  <1>10. PadEncoderTypeOK'
    <2>1. enc' \in PadEncoders'
      BY <1>1, <1>9 DEF PadEncoders
    <2>2. /\ unanswered' \in Int /\ pc' \in {"receive"}
          /\ dump_current' \in {"none", "onair", "sent", "cut"}
      BY <1>1 DEF PadEncoderTypeOK
    <2>q. QED
      BY <1>1, <2>1, <2>2 DEF PadEncoderTypeOK
  <1>11. SockInv' /\ BufferInv' /\ PadlenInv'
    BY <1>1 DEF SockInv, BufferInv, PadlenInv, Encoding
  <1>12. CountInv'
    <2>1. Pending' = Pending /\ Pending \in Nat /\ unanswered \in Int /\ happened["short"] \in Nat
      <3>1. Pending' = Pending
        BY <1>1 DEF Pending
      <3>2. Pending \in Nat
        BY DEF Pending
      <3>q. QED
        BY <3>1, <3>2 DEF PadEncoderTypeOK, Events
    <2>q. QED
      BY <1>1, <2>1 DEF CountInv, Encoding
  <1>13. FileInv'
    BY <1>1, <1>2, <1>4, <1>9 DEF FileInv, LabelHasFile
  <1>14. DumpInv'
    <2>1. dump_current' = "onair" => enc'.slide_left > 0
      BY <1>1, <1>2, <1>5, <1>9
    <2>q. QED
      BY <1>1, <2>1 DEF DumpInv, Replaced
  <1>q. QED
    BY <1>10, <1>11, <1>12, <1>13, <1>14

LEMMA FailIInv == IInv /\ Fail => IInv'
  <1> SUFFICES ASSUME IInv, Fail PROVE IInv'
    OBVIOUS
  <1> USE DEF IInv
  <1>1. /\ UNCHANGED <<opt, sock, silence, wanted, request_files, dump_current, dump_completed>>
        /\ UNCHANGED <<buffer, buflen, padlen, previous_padlen, unanswered>>
        /\ UNCHANGED <<aired, requested, since_label, enc>>
        /\ pc' = "exit"
    BY DEF Fail, loopVars, dumpVars, labelVars
  <1>2. SameCounts
    BY HarmlessEvent DEF Fail, PadEncoderTypeOK
  <1>3. PadEncoderTypeOK'
    BY <1>1, <1>2 DEF PadEncoderTypeOK, PadEncoders, SameCounts
  <1>q. QED
    BY <1>1, <1>2, <1>3, RequestsKept, FilesKept, DumpsKept

LEMMA RestartIInv == IInv /\ Restart => IInv'
  <1> SUFFICES ASSUME IInv, Restart PROVE IInv'
    OBVIOUS
  <1> USE DEF IInv
  <1>1. /\ UNCHANGED <<opt, wanted, request_files, dump_completed, aired>>
        /\ pc' = "receive" /\ sock' = <<>> /\ silence' = 0
        /\ buffer' = <<0, 0>> /\ buflen' = 4
        /\ padlen' = 0 /\ previous_padlen' = 0 /\ unanswered' = 0
        /\ ReplacePadEncoder
    BY DEF Restart, FreshBuffer
  <1>2. happened' \in [Events -> Nat] /\ happened'["restart"] > 0
    <2>1. "restart" \in Events /\ happened \in [Events -> Nat] /\ Unusual("restart")
      BY DEF Restart, Events, PadEncoderTypeOK
    <2>2. happened["restart"] \in Nat
      BY <2>1
    <2>q. QED
      BY <2>1, <2>2, Counted
  <1>3. /\ enc' \in PadEncoders /\ since_label' \in 0 .. MaxLag /\ requested' \in Int
        /\ FileInv'
        /\ dump_current' \in {"none", "sent", "cut"}
    BY <1>1, ReplaceOK, BoundsAssumption
  <1>4. PadEncoderTypeOK'
    <2>1. sock' \in Seq(Seq(Nat)) /\ buffer' \in [1 .. 2 -> Nat]
      BY ONLY <1>1
    <2>2. silence' \in 0 .. TIMEOUT
      BY <1>1, BoundsAssumption
    <2>3. enc' \in PadEncoders'
      BY <1>1, <1>3 DEF PadEncoders
    <2>4. MaxLag' = MaxLag /\ dump_current' \in {"none", "onair", "sent", "cut"}
      BY <1>3
    <2>q. QED
      BY <1>1, <1>2, <1>3, <2>1, <2>2, <2>3, <2>4 DEF PadEncoderTypeOK
  <1>5. SockInv' /\ BufferInv' /\ PadlenInv' /\ DumpInv'
    BY <1>1, <1>2, <1>3
    DEF SockInv, BufferInv, PadlenInv, DumpInv, Replaced, Encoding, MESSAGE_REQUEST
  <1>6. CountInv'
    BY <1>1, <1>2 DEF CountInv, Pending, Encoding, Events
  <1>q. QED
    BY <1>3, <1>4, <1>5, <1>6

\* The state that does not change keeps the invariant.
LEMMA StutterIInv == IInv /\ UNCHANGED encoderVars => IInv'
  <1> SUFFICES ASSUME IInv, UNCHANGED encoderVars PROVE IInv'
    OBVIOUS
  <1>1. /\ UNCHANGED <<opt, sock, silence, wanted, request_files, happened>>
        /\ UNCHANGED <<buffer, buflen, padlen, previous_padlen, unanswered>>
        /\ UNCHANGED <<dump_current, dump_completed, aired, requested, since_label, pc, enc>>
    BY DEF encoderVars, outsideVars, loopVars, dumpVars, labelVars
  <1>2. PadEncoderTypeOK'
    BY <1>1 DEF IInv, PadEncoderTypeOK, PadEncoders
  <1>3. SockInv' /\ BufferInv' /\ PadlenInv' /\ CountInv'
    BY <1>1 DEF IInv, SockInv, BufferInv, PadlenInv, CountInv, Pending, Encoding
  <1>4. FileInv' /\ DumpInv'
    BY <1>1 DEF IInv, FileInv, LabelHasFile, DumpInv, Replaced
  <1>q. QED
    BY <1>2, <1>3, <1>4 DEF IInv

-----------------------------------------------------------------------------
\* The inductive invariant: what the socket and the request buffer can hold, how many
\* requests that has cost, which label file is on, and whose dump files there are.
THEOREM Invariant == EncoderSpec => []IInv
  <1>1. IInv /\ [EncoderNext]_encoderVars => IInv'
    BY FrameIInv, PauseIInv, IntrudeIInv, RequestRereadIInv, SkipMessageIInv, TimeoutIInv,
       ReceiveRequestIInv, CompleteSlideIInv, HandleSLSIInv, HandleDLSIInv, SendPADIInv,
       FailIInv, RestartIInv, StutterIInv
    DEF EncoderNext, Program
  <1>q. QED
    BY <1>1, InitIInv, PTL DEF EncoderSpec

\* Type correctness.
THEOREM TypeCorrect == EncoderSpec => []PadEncoderTypeOK
  <1>1. IInv => PadEncoderTypeOK
    BY DEF IInv
  <1>q. QED
    BY <1>1, Invariant, PTL

\* The completed dump is of a slide sent in whole, unless its PadEncoder was replaced
\* (Encode's test before rename).
THEOREM CompletedDumps == EncoderSpec => []CompletedIsSent
  <1>1. IInv => CompletedIsSent
    BY DEF IInv, DumpInv, CompletedIsSent, Replaced
  <1>q. QED
    BY <1>1, Invariant, PTL

\* Every request gets one PAD of its length, and a short datagram costs at most one
\* request (receive_request's buffer, the main loop).
THEOREM Answers == EncoderSpec => []RequestsAnswered
  <1>1. IInv => RequestsAnswered
    <2> SUFFICES ASSUME IInv PROVE RequestsAnswered
      OBVIOUS
    <2>1. Pending \in Nat /\ unanswered \in Int /\ happened["short"] \in Nat
      BY DEF IInv, Pending, PadEncoderTypeOK, Events
    <2>q. QED
      BY <2>1 DEF IInv, CountInv, PadlenInv, Encoding, RequestsAnswered
  <1>q. QED
    BY <1>1, Invariant, PTL

\* A label in transmission is from one of the files (the constructor's
\* curr_dls_file = -1, Encode's first rotation).
THEOREM LabelFiles == EncoderSpec => []LabelHasFile
  <1>1. IInv => LabelHasFile
    BY DEF IInv, FileInv
  <1>q. QED
    BY <1>1, Invariant, PTL

-----------------------------------------------------------------------------
(***************************************************************************)
(* Steps: dumps are moved before the next slide, and label files change in *)
(* time.                                                                   *)
(***************************************************************************)
\* A slide that has been sent is out of the queue, and past its renaming only if that
\* failed.
SentInv == dump_current = "sent" => enc.slide_left = 0 /\ (pc = "slide" => happened["rename"] > 0)

\* A frame has begun whose request has not come as far as the timelines yet.
Behind ==
    \/ sock # <<>> /\ IsRequest(sock[Len(sock)])
    \/ pc \in {"complete", "slide", "label"}

\* A PadEncoder is at work among several label files, and gets each request in time.
Timely == Undisturbed /\ previous_padlen # 0 /\ pc # "exit" /\ opt.dls_files > 1

\* The timeline of the label files is never late, and it is due an interval after the last
\* change.
OnTimeInv ==
    Timely /\ opt.label_interval > 0 =>
        /\ enc.next_label >= IF Behind THEN 0 ELSE 1
        /\ \/ since_label >= opt.label_interval
           \/ enc.next_label + since_label >= opt.label_interval

\* Steps that do nothing about the label files and the time.
SameTiming ==
    /\ Timely
    /\ UNCHANGED <<opt, requested, since_label>>
    /\ enc'.next_label = enc.next_label
    /\ enc'.next_label_insertion = enc.next_label_insertion
    /\ enc'.curr_dls_file = enc.curr_dls_file
    /\ enc'.label_left = enc.label_left
    /\ enc'.xpad_interval_counter = enc.xpad_interval_counter
    /\ Behind => Behind'
    /\ pc' = "pad" <=> pc = "pad"

LEMMA OnTimeKept ==
    ASSUME IInv, OnTimeInv, Timely' => SameTiming
    PROVE  OnTimeInv'
  <1>1. enc.next_label \in Int
    BY DEF IInv, PadEncoderTypeOK, PadEncoders
  <1>q. QED
    BY <1>1 DEF OnTimeInv, SameTiming

\* Counts never fall.
LEMMA CountsGrow ==
    ASSUME IInv, [EncoderNext]_encoderVars
    PROVE  /\ \A e \in Events : happened[e] \in Nat /\ happened'[e] \in Nat /\ happened[e] <= happened'[e]
           /\ Undisturbed' => Undisturbed
           /\ Undisturbed' => ~Pause
  <1>1. happened \in [Events -> Nat]
    BY DEF IInv, PadEncoderTypeOK
  <1>2. happened' = happened \/ \E e \in Events : Unusual(e)
    BY DEF EncoderNext, Program, Frame, Pause, Intrude, RequestReread, SkipMessage, Timeout,
           ReceiveRequest, CompleteSlide, HandleSLS, HandleDLS, CheckRereadFiles, SendPAD, Fail, Restart,
           encoderVars, outsideVars, Events
  <1>3. \A e \in Events : happened[e] \in Nat /\ happened'[e] \in Nat /\ happened[e] <= happened'[e]
    BY <1>1, <1>2, Counted
  <1>4. Undisturbed' => Undisturbed
    BY <1>3 DEF Undisturbed, Events
  <1>5. Pause => happened'["pause"] > 0
    BY <1>1, Counted DEF Pause, Events
  <1>q. QED
    BY <1>3, <1>4, <1>5 DEF Undisturbed

\* What the socket holds while nothing disturbs.
LEMMA SockUndisturbed ==
    ASSUME IInv, Undisturbed
    PROVE  /\ sock \in {<<>>, <<Request(wanted)>>, <<<<2, 58>>>>, <<<<2, 58>>, Request(wanted)>>}
           /\ buflen >= 2 /\ buflen \in Nat
  <1>1. happened["empty"] = 0 /\ happened["short"] = 0
    BY DEF Undisturbed
  <1>q. QED
    BY <1>1 DEF IInv, SockInv, BufferInv, PadEncoderTypeOK

\* A request, whole in the buffer, is read as what it is, and not skipped.
LEMMA ReadUndisturbed ==
    ASSUME IInv, Undisturbed, sock # <<>>
    PROVE  /\ SkipMessage => (Behind => Behind')
           /\ ReceiveRequest => previous_padlen' # 0 /\ pc' \in {"complete", "exit"}
  <1>1. CASE sock = <<Request(wanted)>>
    <2>1. Buffer(Head(sock))[1] = 1 /\ Buffer(Head(sock))[2] = wanted
      BY <1>1, SockUndisturbed DEF Buffer, Received, Least, Request, MESSAGE_REQUEST
    <2>2. wanted \in Nat /\ wanted > 0
      BY PadLensAssumption DEF IInv, PadEncoderTypeOK
    <2>q. QED
      BY <2>1, <2>2 DEF SkipMessage, ReceiveRequest, MESSAGE_REQUEST
  <1>2. CASE sock \in {<<<<2, 58>>>>, <<<<2, 58>>, Request(wanted)>>}
    <2>1. Buffer(Head(sock))[1] = 2
      BY <1>2, SockUndisturbed DEF Buffer, Received, Least
    <2>2. ~ReceiveRequest
      BY <2>1 DEF ReceiveRequest, MESSAGE_REQUEST
    <2>3. ASSUME SkipMessage, Behind PROVE Behind'
      <3>1. sock' = Tail(sock) /\ pc = "receive"
        BY <2>3 DEF SkipMessage
      <3>2. sock = <<<<2, 58>>, Request(wanted)>>
        BY <1>2, <2>3, <3>1 DEF Behind, IsRequest, MESSAGE_REQUEST
      <3>3. sock' = <<Request(wanted)>>
        BY <3>1, <3>2
      <3>q. QED
        BY <3>3 DEF Behind, IsRequest, Request, MESSAGE_REQUEST
    <2>q. QED
      BY <2>2, <2>3
  <1>q. QED
    BY <1>1, <1>2, SockUndisturbed

\* Label files change, if at all, when encode reaches them, and in time.
LEMMA RotationInTime ==
    ASSUME IInv, OnTimeInv, Undisturbed, HandleDLS,
           NEW r \in request_files \cup {NoFile}, opt.label_interval > 0, opt.dls_files > 1
    PROVE  LET e == Switch(Reread(r))
           IN  /\ e.next_label >= 1
               /\ \/ /\ r = NoFile /\ ~Rotates(enc)
                     /\ e.next_label = enc.next_label
                     /\ \/ since_label >= opt.label_interval
                        \/ enc.next_label + since_label >= opt.label_interval
                  \/ /\ r # NoFile \/ Rotates(Reread(r))
                     /\ e.next_label = opt.label_interval
               /\ r = NoFile /\ Rotates(enc) => since_label >= opt.label_interval
               /\ r # NoFile => e = Reread(r)
  <1>1. /\ opt.label_interval \in Nat /\ enc \in PadEncoders /\ enc.next_label \in Int
        /\ since_label \in Nat
    BY OptTypes, BoundsAssumption DEF IInv, PadEncoderTypeOK, PadEncoders
  <1>2. previous_padlen # 0 /\ Behind /\ pc = "label"
    BY DEF HandleDLS, Behind, IInv, PadlenInv, Encoding, CheckPADLen
  <1>3. /\ enc.next_label >= 0
        /\ since_label >= opt.label_interval \/ enc.next_label + since_label >= opt.label_interval
    BY <1>1, <1>2 DEF OnTimeInv, Timely
  <1>4. CASE r # NoFile
    <2>1. Reread(r).next_label = opt.label_interval
      BY <1>1, <1>4 DEF Reread, PadEncoders
    <2>2. ~Rotates(Reread(r))
      BY <1>1, <2>1 DEF Rotates
    <2>q. QED
      BY <1>1, <1>4, <2>1, <2>2 DEF Switch
  <1>5. CASE r = NoFile /\ Rotates(enc)
    <2>1. Reread(r) = enc
      BY <1>5 DEF Reread
    <2>2. enc.next_label = 0
      BY <1>1, <1>3, <1>5 DEF Rotates
    <2>3. Switch(enc).next_label = enc.next_label + opt.label_interval
      <3>1. Switch(enc) = [enc EXCEPT !.curr_dls_file = (@ + 1) % opt.dls_files,
                                      !.next_label = @ + opt.label_interval,
                                      !.next_label_insertion = 0]
        BY <1>5 DEF Switch
      <3>q. QED
        BY <1>1, <3>1 DEF PadEncoders
    <2>q. QED
      BY <1>1, <1>3, <1>5, <2>1, <2>2, <2>3
  <1>6. CASE r = NoFile /\ ~Rotates(enc)
    <2>1. Reread(r) = enc /\ Switch(enc) = enc
      BY <1>6 DEF Reread, Switch
    <2>2. enc.next_label > 0
      BY <1>1, <1>6 DEF Rotates
    <2>q. QED
      BY <1>1, <1>3, <1>6, <2>1, <2>2
  <1>q. QED
    BY <1>4, <1>5, <1>6

LEMMA HandleDLSOnTime == IInv /\ OnTimeInv /\ HandleDLS => OnTimeInv'
  <1> SUFFICES ASSUME IInv, OnTimeInv, HandleDLS, Timely', opt'.label_interval > 0
               PROVE  /\ enc'.next_label >= IF Behind' THEN 0 ELSE 1
                      /\ \/ since_label' >= opt'.label_interval
                         \/ enc'.next_label + since_label' >= opt'.label_interval
    BY DEF OnTimeInv
  <1>1. PICK r \in request_files \cup {NoFile}, label \in LabelUnits :
          /\ enc' = InsertLabel(Switch(Reread(r)), label)
          /\ since_label' = IF r # NoFile \/ Rotates(Reread(r)) THEN 0 ELSE since_label
    BY DEF HandleDLS
  <1> DEFINE e == Switch(Reread(r))
  <1>2. opt' = opt /\ opt.label_interval \in Nat /\ enc.next_label \in Int /\ since_label \in Nat
    BY OptTypes, BoundsAssumption DEF HandleDLS, IInv, PadEncoderTypeOK, PadEncoders
  <1>3. Undisturbed /\ opt.dls_files > 1
    <2>1. [EncoderNext]_encoderVars
      BY DEF EncoderNext, Program
    <2>q. QED
      BY <1>2, <2>1, CountsGrow DEF Timely
  <1>4. /\ e.next_label >= 1
        /\ \/ /\ r = NoFile /\ ~Rotates(enc)
              /\ e.next_label = enc.next_label
              /\ \/ since_label >= opt.label_interval
                 \/ enc.next_label + since_label >= opt.label_interval
           \/ /\ r # NoFile \/ Rotates(Reread(r))
              /\ e.next_label = opt.label_interval
    BY <1>2, <1>3, RotationInTime
  <1>5. e \in PadEncoders
    <2>1. request_files \subseteq 0 .. opt.dls_files - 1
      BY DEF IInv, PadEncoderTypeOK
    <2>q. QED
      BY <2>1, FileChosen DEF IInv, PadEncoderTypeOK
  <1>6. r = NoFile => Reread(r) = enc
    BY DEF Reread
  <1> HIDE DEF e
  <1>7. enc'.next_label = e.next_label /\ e.next_label \in Int
    <2>1. enc' = InsertLabel(e, label)
      BY <1>1 DEF e
    <2>q. QED
      BY <1>5, <2>1 DEF InsertLabel, PadEncoders
  <1>q. QED
    BY <1>1, <1>2, <1>4, <1>6, <1>7

\* The request of a frame is the first one in the socket.
LEMMA FrameBehind == IInv /\ Frame => ~Behind /\ Behind'
  <1> SUFFICES ASSUME IInv, Frame PROVE ~Behind /\ Behind'
    OBVIOUS
  <1>1. /\ pc = "receive" /\ wanted' \in PadLens
        /\ \A i \in 1 .. Len(sock) : ~IsRequest(sock[i])
        /\ sock' = Append(sock, Request(wanted'))
    BY DEF Frame
  <1>2. sock \in Seq(Seq(Nat)) /\ Request(wanted') \in Seq(Nat)
    BY <1>1, PadLensAssumption DEF IInv, PadEncoderTypeOK, Request, MESSAGE_REQUEST
  <1>3. sock # <<>> => Len(sock) \in 1 .. Len(sock)
    BY <1>2
  <1>4. Len(sock') = Len(sock) + 1 /\ sock'[Len(sock) + 1] = Request(wanted') /\ sock' # <<>>
    <2>1. /\ Len(sock') = Len(sock) + 1
          /\ sock'[Len(sock) + 1] = Request(wanted')
          /\ Len(sock) \in Nat
      BY ONLY <1>1, <1>2, AppendProperties
    <2>q. QED
      BY ONLY <2>1
  <1>q. QED
    BY <1>1, <1>3, <1>4 DEF Behind, IsRequest, Request, MESSAGE_REQUEST

\* A frame makes the timeline one earlier, and is behind until its request is answered.
LEMMA FrameOnTime == IInv /\ OnTimeInv /\ Frame => OnTimeInv'
  <1> SUFFICES ASSUME IInv, OnTimeInv, Frame, Timely', opt'.label_interval > 0
               PROVE  /\ enc'.next_label >= IF Behind' THEN 0 ELSE 1
                      /\ \/ since_label' >= opt'.label_interval
                         \/ enc'.next_label + since_label' >= opt'.label_interval
    BY DEF OnTimeInv
  <1>1. /\ UNCHANGED <<opt, pc, previous_padlen>> /\ pc = "receive"
        /\ sock' = Append(sock, Request(wanted')) /\ TimePasses
        /\ wanted' \in PadLens
    BY DEF Frame, loopVars
  <1>2. Timely
    <2>1. [EncoderNext]_encoderVars
      BY DEF EncoderNext
    <2>q. QED
      BY <1>1, <2>1, CountsGrow DEF Timely
  <1>3. ~Behind /\ Behind'
    BY FrameBehind
  <1>4. /\ enc.next_label >= 1
        /\ \/ since_label >= opt.label_interval
           \/ enc.next_label + since_label >= opt.label_interval
    BY <1>1, <1>2, <1>3 DEF OnTimeInv
  <1>5. /\ opt.label_interval \in Nat /\ enc.next_label \in Int /\ since_label \in Nat
        /\ MaxLag \in Nat
    BY OptTypes, BoundsAssumption DEF IInv, PadEncoderTypeOK, PadEncoders
  <1>6. opt.label_interval <= MaxLag
    BY BoundsAssumption DEF IInv, PadEncoderTypeOK
  <1>7. enc'.next_label = enc.next_label - 1
    <2> DEFINE Earlier(t) == IF t > -MaxLag THEN t - 1 ELSE t
    <2>1. enc' = [enc EXCEPT !.next_slide = Earlier(@), !.next_label = Earlier(@),
                             !.next_label_insertion = Earlier(@)]
      BY <1>1 DEF TimePasses
    <2>2. Earlier(enc.next_label) = enc.next_label - 1
      BY <1>4, <1>5
    <2> HIDE DEF Earlier
    <2>3. enc'.next_label = Earlier(enc.next_label)
      BY <2>1 DEF IInv, PadEncoderTypeOK, PadEncoders
    <2>q. QED
      BY <2>2, <2>3
  <1>8. since_label' = Least(since_label + 1, MaxLag)
    BY <1>1 DEF TimePasses
  <1>q. QED
    BY <1>1, <1>3, <1>4, <1>5, <1>7, <1>8, <1>6 DEF Least

Others == \/ Intrude \/ RequestReread \/ SkipMessage \/ Timeout \/ CompleteSlide \/ HandleSLS
          \/ Fail \/ UNCHANGED encoderVars
          \/ ReceiveRequest /\ ~(CheckPADLen(padlen') /\ padlen' # previous_padlen)

LEMMA OthersQuiet ==
    ASSUME IInv, [EncoderNext]_encoderVars, Others, Timely'
    PROVE  SameTiming
  <1>1. Undisturbed /\ Undisturbed'
    BY CountsGrow DEF Timely
  <1>2. CASE Intrude
    BY <1>1, <1>2 DEF Intrude, Timely, SameTiming, Behind, loopVars, labelVars
  <1>3. CASE RequestReread
    BY <1>1, <1>3 DEF RequestReread, Timely, SameTiming, Behind, loopVars, labelVars
  <1>4. CASE SkipMessage
    BY <1>1, <1>4, ReadUndisturbed DEF SkipMessage, Timely, SameTiming, labelVars
  <1>5. CASE Timeout
    BY <1>1, <1>5 DEF Timeout, Timely, SameTiming, Behind, labelVars
  <1>6. CASE CompleteSlide
    BY <1>1, <1>6 DEF CompleteSlide, Timely, SameTiming, Behind, loopVars, labelVars
  <1>7. CASE HandleSLS
    <2>1. enc \in PadEncoders
      BY DEF IInv, PadEncoderTypeOK
    <2>2. /\ UNCHANGED <<opt, sock, happened, previous_padlen, requested, since_label>>
          /\ pc = "slide" /\ pc' = "label"
          /\ \E next, left : \/ enc' = [enc EXCEPT !.next_slide = next, !.slide_left = left]
                             \/ enc' = [enc EXCEPT !.next_slide = next]
      BY <1>7 DEF HandleSLS, outsideVars, loopVars, labelVars
    <2>3. /\ enc'.next_label = enc.next_label /\ enc'.label_left = enc.label_left
          /\ enc'.next_label_insertion = enc.next_label_insertion
          /\ enc'.curr_dls_file = enc.curr_dls_file
          /\ enc'.xpad_interval_counter = enc.xpad_interval_counter
      BY <2>1, <2>2 DEF PadEncoders
    <2>q. QED
      BY <1>1, <2>2, <2>3 DEF Timely, SameTiming, Behind
  <1>8. CASE Fail
    BY <1>8 DEF Fail, Timely
  <1>9. CASE UNCHANGED encoderVars
    BY <1>1, <1>9 DEF encoderVars, outsideVars, loopVars, labelVars, Timely, SameTiming, Behind
  <1>10. CASE ReceiveRequest /\ ~(CheckPADLen(padlen') /\ padlen' # previous_padlen)
    <2>1. /\ pc = "receive" /\ sock # <<>> /\ UNCHANGED <<opt, happened>>
          /\ UNCHANGED <<enc, requested, since_label>>
          /\ pc' = IF padlen' = 0 THEN "receive" ELSE IF CheckPADLen(padlen') THEN "complete" ELSE "exit"
          /\ previous_padlen' = IF padlen' > 0 THEN padlen' ELSE previous_padlen
      BY <1>10 DEF ReceiveRequest
    <2>2. pc' = "complete"
      BY <1>1, <1>10, <2>1, ReadUndisturbed DEF Timely
    <2>3. previous_padlen' = previous_padlen
      BY <1>10, <2>1, <2>2 DEF CheckPADLen
    <2>q. QED
      BY <1>1, <2>1, <2>2, <2>3 DEF Timely, SameTiming, Behind
  <1>q. QED
    BY <1>2, <1>3, <1>4, <1>5, <1>6, <1>7, <1>8, <1>9, <1>10 DEF Others

\* A PadEncoder that is replaced starts anew, without a label.
LEMMA ReplacedAnew ==
    ASSUME IInv, ReplacePadEncoder, opt' = opt
    PROVE  /\ enc'.next_label = 0 /\ enc'.label_left = 0 /\ enc'.slide_left = 0
           /\ requested' = NoFile /\ since_label' = MaxLag /\ opt.label_interval <= MaxLag
           /\ opt.label_interval \in Nat /\ MaxLag \in Nat
           /\ dump_current' # "sent" \/ dump_current = "sent"
  BY OptTypes, BoundsAssumption DEF ReplacePadEncoder, NewPadEncoder, IInv, PadEncoderTypeOK

LEMMA ReplaceOnTime ==
    ASSUME IInv, ReceiveRequest, CheckPADLen(padlen'), padlen' # previous_padlen
    PROVE  /\ pc' = "complete" /\ ReplacePadEncoder /\ opt' = opt
           /\ OnTimeInv'
  <1>1. pc' = "complete" /\ ReplacePadEncoder /\ opt' = opt
    <2>1. /\ opt' = opt
          /\ pc' = IF padlen' = 0 THEN "receive" ELSE IF CheckPADLen(padlen') THEN "complete" ELSE "exit"
          /\ CheckPADLen(padlen') /\ padlen' # previous_padlen => ReplacePadEncoder
      BY DEF ReceiveRequest
    <2>2. padlen' # 0
      BY DEF CheckPADLen
    <2>q. QED
      BY <2>1, <2>2
  <1>q. QED
    BY <1>1, ReplacedAnew DEF OnTimeInv, Behind

LEMMA SendPADOnTime ==
    ASSUME IInv, OnTimeInv, SendPAD, [EncoderNext]_encoderVars
    PROVE  /\ OnTimeInv'
           /\ pc = "pad" /\ pc' = "receive" /\ Behind' = Behind
           /\ enc'.next_label = enc.next_label
           /\ enc'.next_label_insertion = enc.next_label_insertion
           /\ enc'.curr_dls_file = enc.curr_dls_file
           /\ UNCHANGED <<opt, requested>>
           /\ Timely' => Timely
  <1>1. /\ UNCHANGED <<opt, sock, happened, previous_padlen, requested, since_label>>
        /\ pc = "pad" /\ pc' = "receive" /\ Behind' = Behind
    BY DEF SendPAD, outsideVars, labelVars, Behind
  <1>2. \E left, gone, counter : enc' = [enc EXCEPT !.label_left = left, !.slide_left = gone,
                                                   !.xpad_interval_counter = counter]
    BY DEF SendPAD
  <1>3. /\ enc'.next_label = enc.next_label
        /\ enc'.next_label_insertion = enc.next_label_insertion
        /\ enc'.curr_dls_file = enc.curr_dls_file /\ enc.next_label \in Int
    BY <1>2 DEF IInv, PadEncoderTypeOK, PadEncoders
  <1>4. Timely' => Timely
    BY <1>1, CountsGrow DEF Timely
  <1>q. QED
    BY <1>1, <1>3, <1>4 DEF OnTimeInv

LEMMA NextOnTime == IInv /\ OnTimeInv /\ [EncoderNext]_encoderVars => OnTimeInv'
  <1> SUFFICES ASSUME IInv, OnTimeInv, [EncoderNext]_encoderVars PROVE OnTimeInv'
    OBVIOUS
  <1>1. CASE Frame
    BY <1>1, FrameOnTime
  <1>2. CASE HandleDLS
    BY <1>2, HandleDLSOnTime
  <1>3. CASE SendPAD
    BY <1>3, SendPADOnTime
  <1>4. CASE Pause
    BY <1>4, CountsGrow DEF OnTimeInv, Timely
  <1>5. CASE Restart
    BY <1>5 DEF Restart, OnTimeInv, Timely
  <1>6. CASE ReceiveRequest /\ CheckPADLen(padlen') /\ padlen' # previous_padlen
    BY <1>6, ReplaceOnTime
  <1>7. CASE Others
    BY <1>7, OthersQuiet, OnTimeKept
  <1>q. QED
    BY <1>1, <1>2, <1>3, <1>4, <1>5, <1>6, <1>7 DEF EncoderNext, Program, Others

-----------------------------------------------------------------------------
(***************************************************************************)
(* A label takes less than an interval: at most K PADs with X-PAD, of at   *)
(* least C units each.                                                     *)
(***************************************************************************)
ShortLabels(C, K) ==
    /\ C \in Nat \ {0} /\ K \in Nat
    /\ \A label \in LabelUnits : label <= K * C
    /\ \A p \in 6 .. 196 : CheckPADLen(p) => Capacity[p] >= C
    /\ opt.dls_files > 1 => K * opt.xpad_interval < opt.label_interval

\* The frames in which k PADs with X-PAD are sent.
FramesFor(k) ==
    IF k = 0 THEN 0
    ELSE (IF enc.xpad_interval_counter = 0 THEN 0
          ELSE opt.xpad_interval - enc.xpad_interval_counter)
         + (k - 1) * opt.xpad_interval + 1

\* A label file asked for waits for the label before to be transmitted, and that is in time.
AiringInv(C, K) ==
    /\ Timely => enc.label_left <= K * C
    /\ Timely /\ requested # NoFile =>
           /\ enc.curr_dls_file = requested /\ enc.next_label_insertion <= 0
           /\ \E k \in 0 .. K :
                 /\ enc.label_left <= k * C
                 /\ enc.next_label >= FramesFor(k) + IF Behind \/ pc = "pad" THEN 1 ELSE 2
           /\ pc = "pad" => enc.label_left > 0

LEMMA CounterStep ==
    ASSUME NEW x \in Nat \ {0}, NEW c \in 0 .. x - 1
    PROVE  (c + 1) % x = IF c + 1 = x THEN 0 ELSE c + 1
  OBVIOUS

\* The types of what AiringInv is about.
LEMMA AiringTypes ==
    ASSUME IInv
    PROVE  /\ opt \in Options /\ enc \in PadEncoders
           /\ enc.label_left \in Nat /\ enc.next_label \in Int /\ enc.next_label_insertion \in Int
           /\ opt.xpad_interval \in Nat \ {0}
           /\ enc.xpad_interval_counter \in 0 .. opt.xpad_interval - 1
           /\ \A k \in Nat : FramesFor(k) \in Nat /\ FramesFor(k) <= k * opt.xpad_interval
                             /\ (k > 0 => FramesFor(k) > 0)
  <1>1. opt \in Options /\ enc \in PadEncoders
    BY DEF IInv, PadEncoderTypeOK
  <1>2. /\ enc.label_left \in Nat /\ enc.next_label \in Int /\ enc.next_label_insertion \in Int
        /\ opt.xpad_interval \in Nat \ {0}
        /\ enc.xpad_interval_counter \in 0 .. opt.xpad_interval - 1
    BY <1>1, OptTypes DEF PadEncoders
  <1>3. ASSUME NEW k \in Nat
        PROVE  /\ FramesFor(k) \in Nat /\ FramesFor(k) <= k * opt.xpad_interval
               /\ k > 0 => FramesFor(k) > 0
    <2>1. CASE k = 0
      BY <1>2, <2>1 DEF FramesFor
    <2>2. CASE k # 0
      <3> DEFINE x == opt.xpad_interval
                 c == enc.xpad_interval_counter
                 y == (k - 1) * x
      <3>1. y \in Nat /\ k * x = y + x
        BY <1>2, <2>2
      <3>2. FramesFor(k) = (IF c = 0 THEN 0 ELSE x - c) + y + 1
        BY <2>2 DEF FramesFor
      <3> HIDE DEF y
      <3>q. QED
        BY <1>2, <3>1, <3>2
    <2>q. QED
      BY <2>1, <2>2
  <1>q. QED
    BY <1>1, <1>2, <1>3

\* A PAD is one frame of those.
LEMMA FrameLess ==
    ASSUME NEW x \in Nat \ {0}, NEW c \in 0 .. x - 1, NEW k \in Nat \ {0}, NEW C \in Nat \ {0},
           NEW l \in Nat, l <= k * C, NEW sent \in Nat, sent <= l,
           c = 0 => sent >= C \/ sent = l
    PROVE  LET d == (c + 1) % x
               Frames(n, b) == IF n = 0 THEN 0
                               ELSE (IF b = 0 THEN 0 ELSE x - b) + (n - 1) * x + 1
           IN  \E n \in 0 .. k : l - sent <= n * C /\ Frames(n, d) <= Frames(k, c) - 1
  <1> DEFINE d == (c + 1) % x
             Frames(n, b) == IF n = 0 THEN 0 ELSE (IF b = 0 THEN 0 ELSE x - b) + (n - 1) * x + 1
             y == (k - 1) * x
  <1>1. d = IF c + 1 = x THEN 0 ELSE c + 1
    BY CounterStep
  <1>2. y \in Nat
    OBVIOUS
  <1>3. Frames(k, c) = (IF c = 0 THEN 0 ELSE x - c) + y + 1
    OBVIOUS
  <1>4. CASE c # 0
    <2>1. Frames(k, d) = (IF d = 0 THEN 0 ELSE x - d) + y + 1
      OBVIOUS
    <2>2. l - sent <= k * C
      <3> DEFINE m == k * C
      <3>1. m \in Nat /\ l <= m
        OBVIOUS
      <3> HIDE DEF m
      <3>q. QED
        BY <3>1
    <2> HIDE DEF d, y, Frames
    <2>3. Frames(k, d) <= Frames(k, c) - 1
      BY <1>1, <1>2, <1>3, <1>4, <2>1
    <2>q. QED
      BY <2>2, <2>3 DEF Frames, d
  <1>5. CASE c = 0
    <2>1. l - sent <= (k - 1) * C
      <3> DEFINE m == (k - 1) * C
      <3>1. m \in Nat /\ k * C = m + C
        OBVIOUS
      <3>2. l <= m + C
        BY <3>1
      <3> HIDE DEF m
      <3>q. QED
        BY <1>5, <3>1, <3>2
    <2>2. Frames(k - 1, d) <= Frames(k, c) - 1
      <3>1. CASE k = 1
        BY <1>2, <1>3, <1>5, <3>1
      <3>2. CASE k # 1
        <4>1. (k - 1 - 1) * x = y - x
          OBVIOUS
        <4>2. Frames(k - 1, d) = (IF d = 0 THEN 0 ELSE x - d) + (y - x) + 1
          BY <3>2, <4>1
        <4> HIDE DEF d, y, Frames
        <4>q. QED
          BY <1>1, <1>2, <1>3, <1>5, <4>2
      <3>q. QED
        BY <3>1, <3>2
    <2>3. k - 1 \in 0 .. k
      OBVIOUS
    <2> HIDE DEF d, y, Frames
    <2>4. \E n \in 0 .. k : l - sent <= n * C /\ Frames(n, d) <= Frames(k, c) - 1
      BY <2>1, <2>2, <2>3
    <2>q. QED
      BY <2>4 DEF Frames, d
  <1>q. QED
    BY <1>4, <1>5

LEMMA AiringKept ==
    ASSUME NEW C, NEW K, IInv, AiringInv(C, K), Timely' => SameTiming, pc = "pad" => pc' = "pad" \/ ~Timely'
    PROVE  AiringInv(C, K)'
  <1> SUFFICES ASSUME SameTiming, Timely' PROVE AiringInv(C, K)'
    BY DEF AiringInv
  <1>1. \A k : FramesFor(k)' = FramesFor(k)
    BY DEF FramesFor, SameTiming
  <1>2. Behind \/ pc = "pad" => Behind' \/ pc' = "pad"
    BY DEF SameTiming
  <1>3. CASE Behind' \/ pc' = "pad" <=> Behind \/ pc = "pad"
    BY <1>1, <1>3 DEF AiringInv, SameTiming
  <1>4. CASE ~(Behind \/ pc = "pad")
    <2>1. enc.next_label \in Int /\ \A k \in 0 .. K : FramesFor(k) \in Int
      BY AiringTypes
    <2>2. \A k \in 0 .. K : enc.next_label >= FramesFor(k) + 2 => enc.next_label >= FramesFor(k) + 1
      BY <2>1
    <2>q. QED
      BY <1>1, <1>4, <2>2 DEF AiringInv, SameTiming
  <1>q. QED
    BY <1>2, <1>3, <1>4

LEMMA FrameAiring ==
    ASSUME NEW C \in Nat \ {0}, NEW K \in Nat, IInv, AiringInv(C, K), Frame
    PROVE  AiringInv(C, K)'
  <1> SUFFICES ASSUME Timely' PROVE AiringInv(C, K)'
    BY DEF AiringInv
  <1>1. /\ UNCHANGED <<opt, pc, previous_padlen, requested>> /\ pc = "receive"
        /\ sock' = Append(sock, Request(wanted')) /\ wanted' \in PadLens
    BY DEF Frame, loopVars
  <1>2. Timely
    <2>1. [EncoderNext]_encoderVars
      BY DEF EncoderNext
    <2>q. QED
      BY <1>1, <2>1, CountsGrow DEF Timely
  <1>3. ~Behind /\ Behind'
    BY FrameBehind
  <1>4. /\ enc'.label_left = enc.label_left /\ enc'.curr_dls_file = enc.curr_dls_file
        /\ enc'.xpad_interval_counter = enc.xpad_interval_counter
        /\ enc'.next_label >= enc.next_label - 1 /\ enc'.next_label \in Int
        /\ enc.next_label_insertion <= 0 => enc'.next_label_insertion <= 0
    <2> DEFINE Earlier(t) == IF t > -MaxLag THEN t - 1 ELSE t
    <2>1. enc' = [enc EXCEPT !.next_slide = Earlier(@), !.next_label = Earlier(@),
                             !.next_label_insertion = Earlier(@)]
      BY DEF Frame, TimePasses
    <2>2. \A t \in Int : Earlier(t) \in Int /\ Earlier(t) <= t /\ Earlier(t) >= t - 1
      BY BoundsAssumption
    <2> HIDE DEF Earlier
    <2>3. /\ enc'.label_left = enc.label_left /\ enc'.curr_dls_file = enc.curr_dls_file
          /\ enc'.xpad_interval_counter = enc.xpad_interval_counter
          /\ enc'.next_label = Earlier(enc.next_label)
          /\ enc'.next_label_insertion = Earlier(enc.next_label_insertion)
      BY <2>1, AiringTypes DEF PadEncoders
    <2>q. QED
      BY <2>2, <2>3, AiringTypes
  <1>5. \A k : FramesFor(k)' = FramesFor(k)
    BY <1>1, <1>4 DEF FramesFor
  <1>6. \A k \in 0 .. K : enc.next_label >= FramesFor(k) + 2 => enc'.next_label >= FramesFor(k)' + 1
    BY <1>4, <1>5, AiringTypes
  <1>q. QED
    BY <1>1, <1>2, <1>3, <1>4, <1>6 DEF AiringInv

LEMMA HandleDLSAiring ==
    ASSUME NEW C \in Nat \ {0}, NEW K \in Nat, ShortLabels(C, K), IInv, OnTimeInv,
           AiringInv(C, K), HandleDLS
    PROVE  AiringInv(C, K)'
  <1> SUFFICES ASSUME Timely' PROVE AiringInv(C, K)'
    BY DEF AiringInv
  <1>1. PICK r \in request_files \cup {NoFile}, label \in LabelUnits :
          LET e == Switch(Reread(r))
              awaited == IF r = NoFile THEN requested ELSE r
          IN  /\ enc' = InsertLabel(e, label)
              /\ requested' = IF LabelDue(e) /\ e.curr_dls_file = awaited THEN NoFile ELSE awaited
    BY DEF HandleDLS
  <1> DEFINE e == Switch(Reread(r))
             awaited == IF r = NoFile THEN requested ELSE r
  <1>2. /\ UNCHANGED <<opt, sock, previous_padlen>> /\ pc = "label" /\ pc' = "pad" /\ Behind
    BY DEF HandleDLS, loopVars, Behind
  <1>3. Timely
    <2>1. [EncoderNext]_encoderVars
      BY DEF EncoderNext, Program
    <2>q. QED
      BY <1>2, <2>1, CountsGrow DEF Timely
  <1>4. /\ opt.label_interval \in Nat /\ opt.dls_files > 1 /\ opt.label_interval > 0
        /\ K * opt.xpad_interval < opt.label_interval /\ label \in Nat /\ label <= K * C
    BY <1>1, <1>3, OptTypes, AiringTypes, UnitsAssumption DEF ShortLabels, Timely
  <1>5. r \in {NoFile} \cup 0 .. opt.dls_files - 1 /\ enc.label_left <= K * C
    BY <1>3 DEF IInv, PadEncoderTypeOK, AiringInv
  <1>6. e \in PadEncoders /\ e.label_left = enc.label_left
    BY <1>5, FileChosen, AiringTypes DEF IInv
  <1>7. /\ r = NoFile /\ ~Rotates(enc) => e = enc
        /\ r # NoFile => e = Reread(r)
    BY <1>3, <1>4, RotationInTime DEF Timely, Switch, Reread
  <1>8. requested # NoFile => /\ enc.next_label > 0 /\ ~Rotates(enc)
                              /\ enc.curr_dls_file = requested /\ enc.next_label_insertion <= 0
                              /\ \E k \in 0 .. K :
                                    enc.label_left <= k * C /\ enc.next_label >= FramesFor(k) + 1
    BY <1>2, <1>3, AiringTypes DEF AiringInv, Rotates
  <1>9. enc' = InsertLabel(e, label)
        /\ requested' = IF LabelDue(e) /\ e.curr_dls_file = awaited THEN NoFile ELSE awaited
    BY <1>1
  <1>10. r # NoFile => /\ e.next_label = opt.label_interval /\ e.next_label_insertion = 0
                       /\ e.curr_dls_file = r /\ e.xpad_interval_counter = enc.xpad_interval_counter
    BY <1>7, AiringTypes DEF Reread, PadEncoders
  <1> HIDE DEF e
  <1>11. enc'.label_left <= K * C
    <2>1. enc'.label_left \in {e.label_left, label}
      BY <1>6, <1>9 DEF InsertLabel, PadEncoders
    <2>q. QED
      BY <1>4, <1>5, <1>6, <2>1
  <1>12. ASSUME requested' # NoFile
         PROVE  /\ enc'.curr_dls_file = requested' /\ enc'.next_label_insertion <= 0
                /\ \E k \in 0 .. K : enc'.label_left <= k * C /\ enc'.next_label >= FramesFor(k)' + 1
                /\ enc'.label_left > 0
    <2>1. /\ e.curr_dls_file = awaited /\ e.next_label_insertion <= 0
          /\ e.xpad_interval_counter = enc.xpad_interval_counter
          /\ r = NoFile => e = enc
      BY <1>7, <1>8, <1>9, <1>10, <1>12
    <2>2. ~LabelDue(e) /\ requested' = awaited
      BY <1>9, <1>12, <2>1
    <2>3. enc' = e /\ e.label_left > 0
      BY <1>6, <1>9, <2>1, <2>2, AiringTypes DEF InsertLabel, LabelDue
    <2>4. \A k : FramesFor(k)' = FramesFor(k)
      BY <1>2, <2>1, <2>3 DEF FramesFor
    <2>5. \E k \in 0 .. K : enc'.label_left <= k * C /\ enc'.next_label >= FramesFor(k) + 1
      <3>1. CASE r = NoFile
        BY <1>8, <1>12, <2>1, <2>2, <2>3, <3>1
      <3>2. CASE r # NoFile
        <4>1. FramesFor(K) \in Nat /\ FramesFor(K) <= K * opt.xpad_interval
          BY AiringTypes
        <4>2. enc'.next_label = opt.label_interval
          BY <1>10, <2>3, <3>2
        <4> DEFINE m == K * opt.xpad_interval
        <4>3. m \in Nat /\ FramesFor(K) <= m /\ m < opt.label_interval
          BY <1>4, <4>1, AiringTypes
        <4> HIDE DEF m
        <4>4. enc'.next_label >= FramesFor(K) + 1
          BY <1>4, <4>1, <4>2, <4>3
        <4>5. K \in 0 .. K
          OBVIOUS
        <4>q. QED
          BY <1>11, <4>4, <4>5
      <3>q. QED
        BY <3>1, <3>2
    <2>q. QED
      BY <2>1, <2>2, <2>3, <2>4, <2>5
  <1>q. QED
    BY <1>2, <1>11, <1>12 DEF AiringInv

LEMMA SendPADAiring ==
    ASSUME NEW C \in Nat \ {0}, NEW K \in Nat, ShortLabels(C, K), IInv, OnTimeInv,
           AiringInv(C, K), SendPAD
    PROVE  AiringInv(C, K)'
  <1> SUFFICES ASSUME Timely' PROVE AiringInv(C, K)'
    BY DEF AiringInv
  <1> DEFINE x == opt.xpad_interval
             c == enc.xpad_interval_counter
             carried == IF c = 0 THEN Capacity[padlen] ELSE 0
             sent == Least(enc.label_left, carried)
             slide == Least(enc.slide_left, carried - sent)
  <1>1. /\ pc = "pad" /\ pc' = "receive" /\ Timely
        /\ enc'.next_label = enc.next_label
        /\ enc'.next_label_insertion = enc.next_label_insertion
        /\ enc'.curr_dls_file = enc.curr_dls_file
        /\ UNCHANGED <<opt, requested>>
    BY SendPADOnTime DEF EncoderNext, Program
  <1>2. /\ x \in Nat \ {0} /\ c \in 0 .. x - 1 /\ enc.label_left \in Nat
        /\ enc.next_label \in Int
    BY AiringTypes
  <1>3. (c + 1) % x \in Int
    <2> HIDE DEF x, c
    <2>q. QED
      BY <1>2, CounterStep
  <1>4. /\ carried \in Nat
        /\ c = 0 => carried >= C
    <2>1. padlen \in 6 .. 196 /\ CheckPADLen(padlen)
      BY <1>1 DEF IInv, PadlenInv, Encoding, CheckPADLen, PadEncoderTypeOK
    <2>2. Capacity[padlen] \in Nat /\ Capacity[padlen] >= C
      BY <2>1, UnitsAssumption DEF ShortLabels
    <2>q. QED
      BY <2>2
  <1>5. /\ enc'.label_left = enc.label_left - sent
        /\ enc'.xpad_interval_counter = (c + 1) % x
    <2>1. enc' = [enc EXCEPT !.label_left = @ - sent, !.slide_left = @ - slide,
                             !.xpad_interval_counter = (@ + 1) % x]
      BY DEF SendPAD
    <2> HIDE DEF sent, slide, x
    <2>q. QED
      BY <2>1, AiringTypes DEF PadEncoders
  <1> HIDE DEF carried
  <1>6. sent \in Nat /\ sent <= enc.label_left /\ (c = 0 => sent >= C \/ sent = enc.label_left)
    BY <1>2, <1>4 DEF Least
  <1> HIDE DEF sent, slide
  <1>7. enc'.label_left <= K * C
    <2> DEFINE m == K * C
    <2>1. m \in Nat /\ enc.label_left <= m
      BY <1>1 DEF AiringInv
    <2> HIDE DEF m
    <2>2. enc'.label_left <= m
      BY <1>2, <1>5, <1>6, <2>1
    <2>q. QED
      BY <2>2 DEF m
  <1>8. ASSUME requested # NoFile
        PROVE  \E n \in 0 .. K : enc'.label_left <= n * C /\ enc'.next_label >= FramesFor(n)' + 2
    <2>1. PICK k \in 0 .. K : enc.label_left <= k * C /\ enc.next_label >= FramesFor(k) + 1
      BY <1>1, <1>8 DEF AiringInv
    <2>2. enc.label_left > 0
      BY <1>1, <1>8 DEF AiringInv
    <2>3. k # 0
      BY <1>2, <2>1, <2>2
    <2> DEFINE d == (c + 1) % x
               Frames(n, b) == IF n = 0 THEN 0 ELSE (IF b = 0 THEN 0 ELSE x - b) + (n - 1) * x + 1
    <2>4. \E n \in 0 .. k : enc.label_left - sent <= n * C /\ Frames(n, d) <= Frames(k, c) - 1
      <3> DEFINE l == enc.label_left
      <3>1. /\ x \in Nat \ {0} /\ c \in 0 .. x - 1 /\ k \in Nat \ {0} /\ l \in Nat
            /\ sent \in Nat /\ l <= k * C /\ sent <= l /\ (c = 0 => sent >= C \/ sent = l)
        BY <1>2, <1>6, <2>1, <2>3
      <3> HIDE DEF x, c, l
      <3>2. \E n \in 0 .. k : l - sent <= n * C /\ Frames(n, d) <= Frames(k, c) - 1
        BY ONLY <3>1, C \in Nat \ {0}, FrameLess
      <3>q. QED
        BY <3>2 DEF l
    <2>5. FramesFor(k) = Frames(k, c) /\ \A n : FramesFor(n)' = Frames(n, d)
      BY <1>1, <1>5 DEF FramesFor
    <2> HIDE DEF d, Frames
    <2>6. PICK n \in 0 .. k : enc.label_left - sent <= n * C /\ FramesFor(n)' <= FramesFor(k) - 1
      BY <2>4, <2>5
    <2>7. FramesFor(k) \in Nat /\ FramesFor(n)' \in Int
      <3>1. Frames(n, d) \in Int
        <4>1. d \in Int
          BY <1>3 DEF d
        <4>2. (n - 1) * x \in Int
          BY <1>2
        <4>q. QED
          BY <1>2, <4>1, <4>2 DEF Frames
      <3>q. QED
        BY <2>5, <3>1, AiringTypes
    <2>8. enc'.next_label >= FramesFor(n)' + 2
      BY <1>1, <1>2, <2>1, <2>6, <2>7
    <2>q. QED
      BY <1>5, <2>6, <2>8
  <1>9. \A n \in 0 .. K : enc'.next_label >= FramesFor(n)' + 2 =>
            enc'.next_label >= FramesFor(n)' + (IF Behind' \/ pc' = "pad" THEN 1 ELSE 2)
    <2>1. \A n \in 0 .. K : FramesFor(n)' \in Int
      <3>1. enc'.xpad_interval_counter \in Int /\ opt'.xpad_interval \in Int
        BY <1>1, <1>2, <1>5, <1>3
      <3>2. \A n \in 0 .. K : (n - 1) * opt'.xpad_interval \in Int
        BY <3>1
      <3>q. QED
        BY <3>1, <3>2 DEF FramesFor
    <2>q. QED
      BY <1>1, <1>2, <2>1
  <1>10. /\ requested' = requested /\ requested # NoFile =>
             enc.curr_dls_file = requested /\ enc.next_label_insertion <= 0
    BY <1>1 DEF AiringInv
  <1>q. QED
    BY <1>1, <1>7, <1>8, <1>9, <1>10 DEF AiringInv

LEMMA NextAiring ==
    ASSUME NEW C \in Nat \ {0}, NEW K \in Nat, ShortLabels(C, K)
    PROVE  IInv /\ OnTimeInv /\ AiringInv(C, K) /\ [EncoderNext]_encoderVars => AiringInv(C, K)'
  <1> SUFFICES ASSUME IInv, OnTimeInv, AiringInv(C, K), [EncoderNext]_encoderVars
               PROVE  AiringInv(C, K)'
    OBVIOUS
  <1>1. CASE Frame
    BY <1>1, FrameAiring
  <1>2. CASE HandleDLS
    BY <1>2, HandleDLSAiring
  <1>3. CASE SendPAD
    BY <1>3, SendPADAiring
  <1>4. CASE Pause
    BY <1>4, CountsGrow DEF AiringInv, Timely
  <1>5. CASE Restart
    BY <1>5 DEF Restart, AiringInv, Timely
  <1>6. CASE ReceiveRequest /\ CheckPADLen(padlen') /\ padlen' # previous_padlen
    <2>1. enc'.label_left = 0 /\ requested' = NoFile
      BY <1>6, ReplaceOnTime, ReplacedAnew
    <2>2. 0 <= K * C
      OBVIOUS
    <2>q. QED
      BY <2>1, <2>2 DEF AiringInv
  <1>7. CASE Others
    <2>1. Timely' => SameTiming
      BY <1>7, OthersQuiet
    <2>q. QED
      BY <2>1, AiringKept DEF SameTiming
  <1>q. QED
    BY <1>1, <1>2, <1>3, <1>4, <1>5, <1>6, <1>7 DEF EncoderNext, Program, Others

-----------------------------------------------------------------------------
LEMMA NextSent == IInv /\ SentInv /\ [EncoderNext]_encoderVars => SentInv'
  <1> SUFFICES ASSUME IInv, SentInv, [EncoderNext]_encoderVars, dump_current' = "sent"
               PROVE  enc'.slide_left = 0 /\ (pc' = "slide" => happened'["rename"] > 0)
    BY DEF SentInv
  <1>1. enc \in PadEncoders /\ happened["rename"] \in Nat /\ happened'["rename"] >= happened["rename"]
        /\ happened'["rename"] \in Nat
    BY CountsGrow DEF IInv, PadEncoderTypeOK, Events
  <1>2. CASE Frame \/ Pause
    <2>1. enc'.slide_left = enc.slide_left
      BY <1>2, TimeKeeps DEF Frame, Pause, IInv, PadEncoderTypeOK
    <2>q. QED
      BY <1>2, <2>1 DEF Frame, Pause, dumpVars, SentInv
  <1>3. CASE CompleteSlide
    <2>1. enc' = enc /\ pc' = "slide"
      BY <1>3 DEF CompleteSlide
    <2>2. dump_current = "sent" /\ enc.slide_left = 0
      BY <1>3 DEF CompleteSlide, SentInv, dumpVars
    <2>3. Unusual("rename")
      BY <1>3, <2>2 DEF CompleteSlide, Transmitted, SlideQueued
    <2>4. happened'["rename"] = happened["rename"] + 1
      BY <2>3, Counted DEF IInv, PadEncoderTypeOK, Events
    <2>q. QED
      BY <1>1, <2>1, <2>2, <2>4
  <1>4. CASE HandleSLS
    <2>1. /\ dump_current = "sent" /\ pc' = "label"
          /\ \E next : enc' = [enc EXCEPT !.next_slide = next]
      BY <1>4 DEF HandleSLS
    <2>2. enc'.slide_left = enc.slide_left
      BY <1>1, <2>1 DEF PadEncoders
    <2>q. QED
      BY <2>1, <2>2 DEF SentInv
  <1>5. CASE HandleDLS
    <2>1. /\ dump_current = "sent" /\ pc' = "pad"
          /\ \E r \in request_files \cup {NoFile}, label \in LabelUnits :
                enc' = InsertLabel(Switch(Reread(r)), label)
      BY <1>5 DEF HandleDLS, dumpVars
    <2>2. PICK r \in request_files \cup {NoFile}, label \in LabelUnits :
                enc' = InsertLabel(Switch(Reread(r)), label)
      BY <2>1
    <2> DEFINE e == Switch(Reread(r))
    <2>3. e \in PadEncoders /\ e.slide_left = enc.slide_left
      <3>1. r \in {NoFile} \cup 0 .. opt.dls_files - 1
        BY DEF IInv, PadEncoderTypeOK
      <3>q. QED
        BY <3>1, FileChosen DEF IInv, PadEncoderTypeOK
    <2> HIDE DEF e
    <2>4. enc'.slide_left = e.slide_left
      <3>1. enc' = InsertLabel(e, label)
        BY <2>2 DEF e
      <3>q. QED
        BY <2>3, <3>1 DEF InsertLabel, PadEncoders
    <2>q. QED
      BY <2>1, <2>3, <2>4 DEF SentInv
  <1>6. CASE SendPAD
    <2> DEFINE carried == IF enc.xpad_interval_counter = 0 THEN Capacity[padlen] ELSE 0
               label   == Least(enc.label_left, carried)
               slide   == Least(enc.slide_left, carried - label)
               counter == (enc.xpad_interval_counter + 1) % opt.xpad_interval
    <2>1. /\ pc = "pad" /\ pc' = "receive"
          /\ enc' = [enc EXCEPT !.label_left = @ - label, !.slide_left = @ - slide,
                                !.xpad_interval_counter = counter]
          /\ dump_current = "sent" \/ enc.slide_left = slide
      BY <1>6 DEF SendPAD
    <2>2. enc.label_left \in Nat /\ enc.slide_left \in Nat
      BY <1>1 DEF PadEncoders
    <2>3. carried \in Nat
      <3>1. padlen \in 6 .. 196
        BY <2>1 DEF IInv, PadlenInv, Encoding, CheckPADLen, PadEncoderTypeOK
      <3>q. QED
        BY <3>1, UnitsAssumption
    <2> HIDE DEF carried
    <2>4. label \in Nat /\ label <= carried
      BY <2>2, <2>3 DEF Least
    <2> HIDE DEF label
    <2>5. enc.slide_left = 0 => slide = 0
      BY <2>2, <2>3, <2>4 DEF Least
    <2> HIDE DEF slide, counter
    <2>6. enc'.slide_left = enc.slide_left - slide
      BY <1>1, <2>1 DEF PadEncoders
    <2>7. enc.slide_left = slide
      BY <2>1, <2>5 DEF SentInv
    <2>q. QED
      BY <2>1, <2>2, <2>6, <2>7
  <1>7. CASE Restart \/ ReceiveRequest
    <2>1. pc' # "slide"
      BY <1>7 DEF Restart, ReceiveRequest
    <2>2. \/ enc'.slide_left = 0
          \/ enc' = enc /\ dump_current' = dump_current
      <3>1. ReplacePadEncoder => enc'.slide_left = 0
        BY DEF ReplacePadEncoder, NewPadEncoder
      <3>q. QED
        BY <1>7, <3>1 DEF Restart, ReceiveRequest
    <2>q. QED
      BY <2>1, <2>2 DEF SentInv
  <1>8. CASE \/ Intrude \/ RequestReread \/ SkipMessage \/ Timeout \/ Fail
             \/ UNCHANGED encoderVars
    <2>1. enc' = enc /\ dump_current' = dump_current /\ (pc' = pc \/ pc' = "exit")
      BY <1>8 DEF Intrude, RequestReread, SkipMessage, Timeout, Fail, encoderVars, outsideVars, dumpVars
    <2>q. QED
      BY <1>1, <2>1 DEF SentInv
  <1>q. QED
    BY <1>2, <1>3, <1>4, <1>5, <1>6, <1>7, <1>8 DEF EncoderNext, Program

LEMMA InitTiming == EncoderInit => SentInv /\ OnTimeInv /\ \A C, K : AiringInv(C, K)
  BY DEF EncoderInit, SentInv, OnTimeInv, AiringInv, Timely

\* The dump of a slide that has been sent is moved away before the dump of the next one is
\* written, also when slides follow each other at once (Encode: rename before HandleSLS).
THEOREM DumpsMoved == EncoderSpec => CompletedIsMoved
  <1>1. IInv /\ SentInv /\ [EncoderNext]_encoderVars
            => [dump_current = "sent" /\ dump_current' = "onair" => happened["rename"] > 0]_encoderVars
    <2> SUFFICES ASSUME SentInv, EncoderNext, dump_current = "sent", dump_current' = "onair"
                 PROVE  happened["rename"] > 0
      OBVIOUS
    <2>1. HandleSLS
      BY DEF EncoderNext, Program, Frame, Pause, Intrude, RequestReread, SkipMessage, Timeout,
             ReceiveRequest, ReplacePadEncoder, CompleteSlide, HandleDLS, SendPAD, Fail, Restart, dumpVars
    <2>q. QED
      BY <2>1 DEF HandleSLS, SentInv
  <1>q. QED
    BY <1>1, InitTiming, NextSent, Invariant, PTL DEF EncoderSpec, CompletedIsMoved

\* The timeline of the label files is never late while requests come in time.
THEOREM OnTime == EncoderSpec => []OnTimeInv
  BY InitTiming, NextOnTime, Invariant, PTL DEF EncoderSpec

\* The step from "label" to "pad" is Encode's handling of labels.
LEMMA LabelStep ==
    ASSUME EncoderNext, pc = "label", pc' = "pad"
    PROVE  HandleDLS
  BY DEF EncoderNext, Program, Frame, Pause, Intrude, RequestReread, SkipMessage, Timeout,
         ReceiveRequest, CompleteSlide, HandleSLS, SendPAD, Fail, Restart

\* A label file is followed by the next one only when its interval is over, for all
\* intervals and also after a re-read out of turn (next_label in Encode).
THEOREM FileIntervals == EncoderSpec => FileKeepsInterval
  <1>1. IInv /\ OnTimeInv /\ [EncoderNext]_encoderVars
            => [Undisturbed /\ pc = "label" /\ pc' = "pad" /\ request_files = {} =>
                   \/ enc'.curr_dls_file = enc.curr_dls_file
                   \/ since_label >= opt.label_interval]_encoderVars
    <2> SUFFICES ASSUME IInv, OnTimeInv, EncoderNext, Undisturbed, pc = "label", pc' = "pad",
                        request_files = {}, enc'.curr_dls_file # enc.curr_dls_file
                 PROVE  since_label >= opt.label_interval
      OBVIOUS
    <2>1. HandleDLS
      BY LabelStep
    <2>2. PICK label \in LabelUnits : enc' = InsertLabel(Switch(Reread(NoFile)), label)
      BY <2>1 DEF HandleDLS
    <2>3. Reread(NoFile) = enc
      BY DEF Reread
    <2>4. enc \in PadEncoders /\ opt \in Options /\ since_label \in Nat /\ opt.label_interval \in Nat
      BY OptTypes, BoundsAssumption DEF IInv, PadEncoderTypeOK
    <2>5. Rotates(enc)
      <3> SUFFICES ASSUME ~Rotates(enc) PROVE FALSE
        OBVIOUS
      <3>1. enc' = InsertLabel(enc, label)
        BY <2>2, <2>3 DEF Switch
      <3>q. QED
        BY <2>4, <3>1 DEF InsertLabel, PadEncoders
    <2>6. opt.dls_files > 1
      BY <2>5 DEF Rotates
    <2>7. CASE opt.label_interval > 0
      BY <2>1, <2>5, <2>6, <2>7, RotationInTime
    <2>8. CASE opt.label_interval = 0
      BY <2>4, <2>8
    <2>q. QED
      BY <2>4, <2>7, <2>8
  <1>q. QED
    BY <1>1, OnTime, Invariant, PTL DEF EncoderSpec, FileKeepsInterval

\* AiringInv holds with all the bounds that the options allow, ...
AiredInv ==
    \A C \in Nat \ {0}, K \in Nat : ShortLabels(C, K) => AiringInv(C, K)

LEMMA NextAired == IInv /\ OnTimeInv /\ AiredInv /\ [EncoderNext]_encoderVars => AiredInv'
  <1> SUFFICES ASSUME IInv, OnTimeInv, AiredInv, [EncoderNext]_encoderVars,
                      NEW C \in Nat \ {0}, NEW K \in Nat, ShortLabels(C, K)'
               PROVE  AiringInv(C, K)'
    BY DEF AiredInv
  <1>1. opt' = opt
    BY DEF EncoderNext, Program, Frame, Pause, Intrude, RequestReread, SkipMessage, Timeout,
           ReceiveRequest, CompleteSlide, HandleSLS, HandleDLS, SendPAD, Fail, Restart, encoderVars, outsideVars
  <1>2. ShortLabels(C, K)
    BY <1>1 DEF ShortLabels
  <1>3. AiringInv(C, K)
    BY <1>2 DEF AiredInv
  <1>q. QED
    BY <1>2, <1>3, NextAiring

LEMMA TimesMonotone ==
    ASSUME NEW a \in Nat, NEW b \in Nat, NEW c \in Nat, a <= b
    PROVE  a * c <= b * c
  <1>1. PICK d \in Nat : b = a + d
    BY b - a \in Nat, b = a + (b - a)
  <1>2. b * c = a * c + d * c /\ d * c \in Nat /\ a * c \in Nat
    BY <1>1
  <1>q. QED
    BY <1>2

\* ... and they allow some if labels are in time.
LEMMA SomeBounds ==
    ASSUME IInv, opt \in LabelsInTime, LabelUnits # {}
    PROVE  \E C \in Nat \ {0}, K \in Nat : ShortLabels(C, K)
  <1> DEFINE Valid == {q \in 6 .. 196 : CheckPADLen(q)}
             S == {Capacity[p] : p \in Valid}
             x == opt.xpad_interval
             K == (opt.label_interval - 1) \div x
  <1>1. S \in SUBSET Nat /\ S # {} /\ \A p \in Valid : Capacity[p] \in Nat \ {0}
    <2>1. 6 \in Valid
      BY DEF CheckPADLen
    <2>2. \A p \in Valid : Capacity[p] \in Nat \ {0}
      BY UnitsAssumption
    <2>q. QED
      BY <2>1, <2>2
  <1>2. PICK least \in Valid : \A p \in Valid : Capacity[least] <= Capacity[p]
    <2>1. \E c \in S : \A d \in S : c <= d
      <3> HIDE DEF S
      <3>q. QED
        BY <1>1, Smallest
    <2>q. QED
      BY <2>1
  <1> HIDE DEF Valid
  <1>3. \A label \in LabelUnits :
            \E k \in 0 .. opt.label_interval : label <= k * Capacity[least] /\ k * x < opt.label_interval
    BY DEF LabelsInTime, Valid
  <1>4. opt.label_interval \in Nat /\ x \in Nat \ {0}
    BY OptTypes DEF IInv, PadEncoderTypeOK
  <1> HIDE DEF x
  <1>5. opt.label_interval > 0
    <2>1. PICK k \in 0 .. opt.label_interval : k * x < opt.label_interval
      BY <1>3
    <2>2. k * x \in Nat
      BY <1>4
    <2>q. QED
      BY <1>4, <2>1, <2>2
  <1>6. /\ K \in Nat /\ K * x <= opt.label_interval - 1
        /\ opt.label_interval - 1 < (K + 1) * x
    BY <1>4, <1>5
  <1> HIDE DEF K
  <1>7. ASSUME NEW label \in LabelUnits PROVE label <= K * Capacity[least]
    <2>1. PICK k \in 0 .. opt.label_interval : label <= k * Capacity[least] /\ k * x < opt.label_interval
      BY <1>3
    <2>2. k <= K
      <3> SUFFICES ASSUME K + 1 <= k PROVE FALSE
        BY <1>4, <1>6
      <3>1. (K + 1) * x <= k * x
        BY <1>4, <1>6, TimesMonotone
      <3>2. (K + 1) * x \in Nat /\ k * x \in Nat
        BY <1>4, <1>6
      <3>q. QED
        BY <1>4, <1>6, <2>1, <3>1, <3>2
    <2>3. k * Capacity[least] <= K * Capacity[least]
      BY <1>1, <1>4, <1>6, <2>2, TimesMonotone
    <2>4. label \in Nat /\ k * Capacity[least] \in Nat /\ K * Capacity[least] \in Nat
      BY <1>1, <1>4, <1>6, UnitsAssumption
    <2>q. QED
      BY <2>1, <2>3, <2>4
  <1>8. K * x < opt.label_interval
    <2>1. K * x \in Nat
      BY <1>4, <1>6
    <2>q. QED
      BY <1>4, <1>6, <2>1
  <1>9. ShortLabels(Capacity[least], K)
    <2>1. \A p \in 6 .. 196 : CheckPADLen(p) => Capacity[p] >= Capacity[least]
      BY <1>1, <1>2 DEF Valid
    <2>q. QED
      BY <1>1, <1>6, <1>7, <1>8, <2>1 DEF ShortLabels, x
  <1>q. QED
    BY <1>1, <1>6, <1>9

\* A label file asked for is aired before the next one has its turn, with all options for
\* which the X-PAD of less than an interval is enough for any label (next_label_insertion
\* in Encode).
THEOREM RereadsAired == EncoderSpec => RereadIsAired
  <1>1. EncoderInit => AiredInv
    BY InitTiming DEF AiredInv
  <1>2. IInv /\ AiredInv /\ [EncoderNext]_encoderVars
            => [Undisturbed /\ pc = "label" /\ pc' = "pad" /\ request_files = {} /\ requested # NoFile
                   /\ opt \in LabelsInTime => ~Rotates(enc)]_encoderVars
    <2> SUFFICES ASSUME IInv, AiredInv, EncoderNext, Undisturbed, pc = "label", pc' = "pad",
                        requested # NoFile, opt \in LabelsInTime, Rotates(enc)
                 PROVE  FALSE
      OBVIOUS
    <2>1. LabelUnits # {}
      BY LabelStep DEF HandleDLS
    <2>2. PICK C \in Nat \ {0}, K \in Nat : ShortLabels(C, K)
      BY <2>1, SomeBounds
    <2>3. AiringInv(C, K)
      BY <2>2 DEF AiredInv
    <2>4. Timely /\ Behind
      BY DEF Rotates, Timely, Behind, IInv, PadlenInv, Encoding, CheckPADLen
    <2>5. PICK k \in 0 .. K : enc.next_label >= FramesFor(k) + 1
      BY <2>3, <2>4 DEF AiringInv
    <2>6. enc.next_label > 0
      BY <2>2, <2>5, AiringTypes
    <2>q. QED
      BY <2>6, AiringTypes DEF Rotates
  <1>q. QED
    BY <1>1, <1>2, NextAired, OnTime, Invariant, PTL DEF EncoderSpec, RereadIsAired

=============================================================================
