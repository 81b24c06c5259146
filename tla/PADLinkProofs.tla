---------------------------- MODULE PADLinkProofs ----------------------------
(***************************************************************************)
(* Proofs about the packetizer and a receiver of its PADs: whatever labels *)
(* and slides are queued when, whatever PAD lengths and intervals are set, *)
(* and however many PADs are lost, each byte that arrives goes to the data *)
(* group it belongs to, the lengths of MOT data groups are known, and on   *)
(* each channel the data groups are received in order, once each, and all  *)
(* but damaged ones: AppChannel.                                           *)
(***************************************************************************)
EXTENDS PADLink, PADPacketizerProofs, NumberProofs

-----------------------------------------------------------------------------
(***************************************************************************)
(* The inductive invariant.                                                *)
(***************************************************************************)
AllChannels == Channels \cup {"dgli"}

\* A data group in the queue, and those of them of which a part has been written.
DGTypes == [app : {DGLI, DLS, MOT}, payload : Nat \ {0}, size : Nat \ {0}, written : Nat]

Of(dg) == <<Channel(dg.app.start), dg.payload>>

Begun == {i \in 1 .. Len(queue) : queue[i].written > 0}

Partial == {queue[i] : i \in Begun}

\* n data groups of a label are in front, behind them is what remains of a slide: length
\* indicators and MOT data groups in turn.  Only the first of each part can have been
\* begun, and no length indicator unless the X-PAD is short.
SlideAfter(n) ==
    /\ \A i \in 1 .. n : queue[i].app = DLS
    /\ \A i \in n + 1 .. Len(queue) :
          /\ queue[i].app = IF (Len(queue) - i) % 2 = 0 THEN MOT ELSE DGLI
          /\ queue[i].app = DGLI =>
                queue[i].size = DGLI_SIZE /\ queue[i + 1].payload = queue[i].payload
    /\ Begun \subseteq {1, n + 1}
    /\ ~short_xpad => \A i \in Begun : queue[i].app # DGLI

\* A receiver; a PAD under construction.
IsReceiver(r) ==
    /\ r = [last |-> r.last, size |-> r.size, buffer |-> r.buffer, length |-> r.length,
            broken |-> r.broken, unannounced |-> r.unannounced, got |-> r.got]
    /\ r.buffer = [c \in AllChannels |-> r.buffer[c]]
    /\ r.last \in AllChannels \cup {"none"}

PADTypes ==
    /\ pc \in {"idle", "fill", "flush"}
    /\ subfields_size \in Nat /\ xpad_size \in Nat /\ last_ci_size \in Nat
    /\ subfields \in Seq(Range(subfields)) /\ cis \in Seq(Range(cis))
    /\ pc = "idle" => subfields = <<>>
    /\ \/ Len(cis) = Len(subfields)
       \/ cis = <<>> /\ Len(subfields) = 1 /\ pc = "flush"
    /\ subfields = <<>> => subfields_size = 0
    /\ cis # <<>> => subfields_size > 0

LinkTypes ==
    /\ queue \in Seq(DGTypes)
    /\ \A i \in 1 .. Len(queue) : queue[i].written < queue[i].size
    /\ sent \in [Channels -> Seq(Nat)]
    /\ PADTypes
    /\ IsReceiver(rx)

\* If the data groups in h are damaged, what receiver r has of those begun is what has
\* been written of them, and of others it has nothing; it knows the length of a MOT data
\* group that comes next, and has confused nothing.
Damaged(h) == h \cup {<<c, NoBuffer.payload>> : c \in AllChannels}

Synced(r, h) ==
    \A dg \in Partial :
        \/ dg.app = DGLI
        \/ Of(dg) \in h
        \/ r.buffer[Channel(dg.app.start)] = [payload |-> dg.payload, have |-> dg.written]

Owned(r, h) ==
    /\ \A c \in Channels :
          <<c, r.buffer[c].payload>> \in Damaged(h) \cup {Of(dg) : dg \in Partial}
    /\ ~short_xpad => r.buffer["dgli"] = NoBuffer

Announced(r, h, n) ==
    ~short_xpad /\ n < Len(queue) =>
        LET dg == queue[n + 1]
        IN  dg.app = MOT /\ dg.written = 0 => r.length = dg.payload \/ Of(dg) \in h

Intact(r) ==
    /\ \A b \in r.broken : b[1] \in Channels \/ ~short_xpad => b \in Damaged(hit)
    /\ ~short_xpad => \A p \in r.unannounced : <<"mot", p>> \in hit

\* The receiver would not carry on dg in a PAD without CIs, but nothing that is not
\* damaged either.
Confused(r, dg) ==
    /\ Of(dg) \in hit
    /\ r.last # "none" => <<r.last, r.buffer[r.last].payload>> \in Damaged(hit)

\* The receiver once it has the sub-fields of the PAD under construction.
Ahead == RxSubFields(rx, PAD)

\* If the packetizer carried on without CIs, then with a data group that this receiver
\* would carry on, too.
Continued(r) ==
    last_ci_type # -1 =>
        \E dg \in Partial :
            /\ dg.app.cont = last_ci_type
            /\ subfields # <<>> => Of(dg) \in Pending
            /\ \/ /\ r.last = Channel(dg.app.start)
                  /\ subfields = <<>> => r.size = last_ci_size
               \/ Confused(r, dg)

\* Either the PAD under construction arrives, or what it carries is damaged.
Following(r, h, n) == Synced(r, h) /\ Owned(r, h) /\ Announced(r, h, n) /\ Intact(r)

LinkInv ==
    /\ LinkTypes
    /\ IsReceiver(Ahead)
    /\ \E n \in 0 .. Len(queue) :
          SlideAfter(n) /\ Following(rx, hit \cup Pending, n) /\ Following(Ahead, hit, n)
    /\ Continued(Ahead)

-----------------------------------------------------------------------------
(***************************************************************************)
(* The receiver.                                                           *)
(***************************************************************************)
LEMMA ChannelValues ==
    /\ Channel(1) = "dgli"
    /\ Channel(2) = "dls" /\ Channel(3) = "dls"
    /\ Channel(12) = "mot" /\ Channel(13) = "mot"
BY DEF Channel

\* The channel of a data group, by whichever of its application types.
LEMMA AppChannels ==
    ASSUME NEW dg \in DGTypes
    PROVE  /\ Channel(AppType(dg)) = Channel(dg.app.start)
           /\ Channel(dg.app.cont) = Channel(dg.app.start)
           /\ dg.app = DGLI => Channel(dg.app.start) = "dgli" /\ AppType(dg) = 1 /\ dg.app.cont = 1
           /\ dg.app = DLS => /\ Channel(dg.app.start) = "dls" /\ dg.app.cont = 3
                              /\ AppType(dg) = IF dg.written > 0 THEN 3 ELSE 2
           /\ dg.app = MOT => /\ Channel(dg.app.start) = "mot" /\ dg.app.cont = 13
                              /\ AppType(dg) = IF dg.written > 0 THEN 13 ELSE 12
           /\ dg.app \in {DGLI, DLS, MOT}
<1>1. dg.app \in {DGLI, DLS, MOT}
    BY DEF DGTypes
<1>2. CASE dg.app = DGLI
    BY <1>2, ChannelValues DEF AppType, DGLI, DLS, MOT
<1>3. CASE dg.app = DLS
    BY <1>3, ChannelValues DEF AppType, DGLI, DLS, MOT
<1>4. CASE dg.app = MOT
    BY <1>4, ChannelValues DEF AppType, DGLI, DLS, MOT
<1> QED
    BY <1>1, <1>2, <1>3, <1>4

\* What a receiver is after n sub-fields of a PAD, step by step.
Steps(g, r, pad, N) ==
    g = [n \in 0 .. N |-> IF n = 0 THEN r ELSE RxNext(g[n - 1], pad, n)]

LEMMA StepsExist ==
    ASSUME NEW N \in Nat, NEW r, NEW pad
    PROVE  \E g : Steps(g, r, pad, N)
<1> DEFINE P == {n \in 0 .. N : \E g : Steps(g, r, pad, n)}
<1>1. 0 \in P
    <2> DEFINE g == [n \in 0 .. 0 |-> r]
    <2>1. Steps(g, r, pad, 0)
        BY DEF Steps
    <2> QED
        BY <2>1
<1>2. ASSUME NEW n \in 0 .. N - 1, n \in P PROVE n + 1 \in P
    <2>1. PICK g : Steps(g, r, pad, n)
        BY <1>2
    <2> DEFINE f == [i \in 0 .. n + 1 |-> IF i = n + 1 THEN RxNext(g[n], pad, n + 1) ELSE g[i]]
    <2>2. \A i \in 0 .. n : g[i] = IF i = 0 THEN r ELSE RxNext(g[i - 1], pad, i)
        BY <2>1 DEF Steps
    <2>3. \A i \in 0 .. n + 1 : f[i] = IF i = 0 THEN r ELSE RxNext(f[i - 1], pad, i)
        <3> SUFFICES ASSUME NEW i \in 0 .. n + 1
                     PROVE  f[i] = IF i = 0 THEN r ELSE RxNext(f[i - 1], pad, i)
            OBVIOUS
        <3>1. CASE i = n + 1
            <4>1. i # 0 /\ i - 1 = n /\ n \in 0 .. n + 1 /\ n # n + 1
                BY <3>1
            <4> QED
                BY <3>1, <4>1
        <3>2. CASE i # n + 1
            <4>1. i \in 0 .. n /\ (i # 0 => i - 1 \in 0 .. n + 1 /\ i - 1 # n + 1)
                BY <3>2
            <4> QED
                BY <2>2, <3>2, <4>1
        <3> QED
            BY <3>1, <3>2
    <2>4. Steps(f, r, pad, n + 1)
        <3>1. f = [i \in 0 .. n + 1 |-> f[i]]
            OBVIOUS
        <3> HIDE DEF f
        <3>2. f = [i \in 0 .. n + 1 |-> IF i = 0 THEN r ELSE RxNext(f[i - 1], pad, i)]
            BY <2>3, <3>1
        <3> QED
            BY <3>2 DEF Steps
    <2>5. n + 1 \in 0 .. N
        OBVIOUS
    <2> HIDE DEF f
    <2> QED
        BY <2>4, <2>5
<1>3. \A n \in 0 .. N : n \in P
    <2> HIDE DEF P
    <2> QED
        BY <1>1, <1>2, Induction
<1>4. N \in P
    BY <1>3
<1> QED
    BY <1>4

LEMMA RxSteps ==
    ASSUME NEW r, NEW pad, Len(pad.subfields) \in Nat
    PROVE  \E g : Steps(g, r, pad, Len(pad.subfields)) /\ RxSubFields(r, pad) = g[Len(pad.subfields)]
<1> DEFINE N == Len(pad.subfields)
           h == CHOOSE g : Steps(g, r, pad, N)
<1>1. Steps(h, r, pad, N)
    BY StepsExist
<1>2. RxSubFields(r, pad) = h[N]
    BY DEF RxSubFields, Steps
<1> QED
    BY <1>1, <1>2

\* A PAD without sub-fields leaves the receiver as it is; one more sub-field is one more step.
LEMMA RxEmpty ==
    ASSUME NEW r, NEW pad, Len(pad.subfields) = 0
    PROVE  RxSubFields(r, pad) = r
BY RxSteps DEF Steps

LEMMA RxGrows ==
    ASSUME NEW r, NEW p, NEW q, NEW N \in Nat,
           Len(p.subfields) = N, Len(q.subfields) = N + 1,
           \A i \in 1 .. N : \A s : RxNext(s, p, i) = RxNext(s, q, i)
    PROVE  RxSubFields(r, q) = RxNext(RxSubFields(r, p), q, N + 1)
<1>1. PICK g : Steps(g, r, p, N) /\ RxSubFields(r, p) = g[N]
    BY RxSteps
<1>2. PICK h : Steps(h, r, q, N + 1) /\ RxSubFields(r, q) = h[N + 1]
    BY RxSteps
<1>3. /\ \A n \in 0 .. N : g[n] = IF n = 0 THEN r ELSE RxNext(g[n - 1], p, n)
      /\ \A n \in 0 .. N + 1 : h[n] = IF n = 0 THEN r ELSE RxNext(h[n - 1], q, n)
    BY <1>1, <1>2 DEF Steps
<1> DEFINE P == {n \in 0 .. N : g[n] = h[n]}
<1>4. 0 \in P
    BY <1>3
<1>5. ASSUME NEW n \in 0 .. N - 1, n \in P PROVE n + 1 \in P
    <2>1. n + 1 \in 0 .. N /\ n + 1 \in 0 .. N + 1 /\ n + 1 # 0 /\ n + 1 - 1 = n /\ n + 1 \in 1 .. N
        OBVIOUS
    <2>2. g[n + 1] = RxNext(g[n], p, n + 1) /\ h[n + 1] = RxNext(h[n], q, n + 1)
        BY <1>3, <2>1
    <2> QED
        BY <1>5, <2>1, <2>2
<1>6. \A n \in 0 .. N : n \in P
    <2> HIDE DEF P
    <2> QED
        BY <1>4, <1>5, Induction
<1>7. g[N] = h[N] /\ N + 1 \in 0 .. N + 1 /\ N + 1 # 0 /\ N + 1 - 1 = N
    BY <1>6
<1> QED
    BY <1>1, <1>2, <1>3, <1>7

-----------------------------------------------------------------------------
(***************************************************************************)
(* A sub-field of data group dg, and what it does to a receiver.           *)
(***************************************************************************)
PieceOf(dg, len) ==
    [app |-> AppType(dg), payload |-> dg.payload, first |-> dg.written,
     bytes |-> WrittenNow(dg, len), total |-> dg.size, len |-> len]

Rest(dg, len) == [dg EXCEPT !.written = @ + WrittenNow(dg, len)]

\* Of the data groups begun, dg is replaced by what is left of it.
Replaced(dg, len) ==
    /\ \A e \in Partial : e = dg \/ (e \in Partial' /\ Channel(e.app.start) # Channel(dg.app.start))
    /\ \A e \in Partial' :
          \/ e = Rest(dg, len) /\ ~Exhausted(dg, len)
          \/ e \in Partial /\ Channel(e.app.start) # Channel(dg.app.start)
    /\ ~Exhausted(dg, len) => Rest(dg, len) \in Partial'

LEMMA RestOf ==
    ASSUME NEW dg \in DGTypes, NEW len \in Nat
    PROVE  LET rest == Rest(dg, len)
           IN  /\ rest.app = dg.app /\ rest.payload = dg.payload /\ rest.size = dg.size
               /\ rest.written = dg.written + WrittenNow(dg, len)
               /\ Of(rest) = Of(dg)
               /\ dg.written < dg.size =>
                      /\ rest.written \in Nat
                      /\ rest.written = dg.size <=> Exhausted(dg, len)
                      /\ ~Exhausted(dg, len) => rest.written = dg.written + len /\ rest.written < dg.size
                      /\ rest \in DGTypes
<1>1. /\ dg = [app |-> dg.app, payload |-> dg.payload, size |-> dg.size, written |-> dg.written]
      /\ dg.size \in Nat \ {0} /\ dg.written \in Nat
      /\ dg.app \in {DGLI, DLS, MOT} /\ dg.payload \in Nat \ {0}
    BY DEF DGTypes
<1> DEFINE w == dg.written + WrittenNow(dg, len)
<1>2. Rest(dg, len) = [app |-> dg.app, payload |-> dg.payload, size |-> dg.size, written |-> w]
    BY <1>1 DEF Rest
<1>3. dg.written < dg.size =>
          /\ w \in Nat
          /\ w = dg.size <=> Exhausted(dg, len)
          /\ ~Exhausted(dg, len) => w = dg.written + len /\ w < dg.size
    BY <1>1 DEF WrittenNow, Available, Exhausted
<1> HIDE DEF w
<1>4. dg.written < dg.size => Rest(dg, len) \in DGTypes
    BY <1>1, <1>2, <1>3 DEF DGTypes
<1>5. Of(Rest(dg, len)) = Of(dg)
    BY <1>2 DEF Of
<1> QED
    BY <1>2, <1>3, <1>4, <1>5 DEF w

\* What changes in a receiver that takes a sub-field for its channel, s being r after it.
Takes(s, r, dg, len, c, begins) ==
    LET b    == r.buffer[c]
        fits == IF begins THEN dg.written = 0 ELSE b.payload = dg.payload /\ b.have = dg.written
    IN  /\ IsReceiver(s) /\ s.last = c /\ s.size = r.size
        /\ \A d \in AllChannels \ {c} : s.buffer[d] = r.buffer[d]
        /\ s.buffer[c] = IF fits /\ ~Exhausted(dg, len)
                         THEN [payload |-> dg.payload, have |-> Rest(dg, len).written] ELSE NoBuffer
        /\ s.length = IF fits /\ Exhausted(dg, len) /\ c = "dgli" THEN dg.payload ELSE r.length
        /\ s.broken \subseteq r.broken \cup (IF fits THEN {} ELSE {Of(dg), <<c, b.payload>>})
        /\ s.unannounced \subseteq r.unannounced \cup {dg.payload}
        /\ s.unannounced = r.unannounced \/ (c = "mot" /\ begins /\ r.length # dg.payload)
        /\ s.got = IF fits /\ Exhausted(dg, len) /\ c # "dgli"
                   THEN [r.got EXCEPT ![c] = Append(@, dg.payload)] ELSE r.got

\* What receiver s has got, that was r before the sub-field: data group dg, too, if that is
\* complete, or else it is damaged; and s does not hold anything new but dg.
Gets(s, r, dg, len) ==
    LET c == Channel(dg.app.start)
    IN  \/ /\ s.got = r.got
           /\ Exhausted(dg, len) => dg.app = DGLI \/ Of(dg) \in hit
           /\ \A d \in Channels :
                 \/ s.buffer[d] \in {r.buffer[d], NoBuffer}
                 \/ d = c /\ s.buffer[d].payload = dg.payload
        \/ /\ dg.app # DGLI /\ Exhausted(dg, len)
           /\ s.got = [r.got EXCEPT ![c] = Append(@, dg.payload)]
           /\ \A d \in Channels : s.buffer[d] = IF d = c THEN NoBuffer ELSE r.buffer[d]

LEMMA Taking ==
    ASSUME NEW r, IsReceiver(r), NEW dg \in DGTypes, NEW len \in Nat,
           NEW c, c = Channel(dg.app.start), NEW begins \in BOOLEAN,
           dg.written < dg.size
    PROVE  Takes(RxSubField(r, c, begins, PieceOf(dg, len)), r, dg, len, c, begins)
<1> DEFINE piece == PieceOf(dg, len)
           b == r.buffer[c]
           old == IF begins THEN [payload |-> dg.payload, have |-> 0] ELSE b
           fits == old.payload = dg.payload /\ old.have = dg.written
           have == old.have + WrittenNow(dg, len)
           complete == fits /\ have = dg.size
           nb == IF fits /\ ~complete THEN [payload |-> dg.payload, have |-> have] ELSE NoBuffer
           length == IF complete /\ c = "dgli" THEN dg.payload ELSE r.length
           broken == IF fits THEN r.broken ELSE r.broken \cup {<<c, dg.payload>>, <<c, old.payload>>}
           unann == IF c = "mot" /\ begins /\ r.length # dg.payload
                    THEN r.unannounced \cup {dg.payload} ELSE r.unannounced
           got == IF complete /\ c # "dgli" THEN [r.got EXCEPT ![c] = Append(@, dg.payload)] ELSE r.got
           s == RxSubField(r, c, begins, piece)
<1>1. /\ piece.payload = dg.payload /\ piece.first = dg.written
      /\ piece.bytes = WrittenNow(dg, len) /\ piece.total = dg.size
    BY DEF PieceOf
<1>2. c \in AllChannels
    BY AppChannels DEF AllChannels, Channels
<1>3. s = [last |-> c, size |-> r.size, buffer |-> [r.buffer EXCEPT ![c] = nb],
           length |-> length, broken |-> broken, unannounced |-> unann, got |-> got]
    <2> HIDE DEF piece
    <2> QED
        BY <1>1 DEF RxSubField
<1>4. fits <=> IF begins THEN dg.written = 0 ELSE b.payload = dg.payload /\ b.have = dg.written
    OBVIOUS
<1>5. fits => have = Rest(dg, len).written /\ (complete <=> Exhausted(dg, len))
    BY RestOf
<1>6. old.payload = dg.payload \/ old = b
    OBVIOUS
<1> HIDE DEF nb, length, broken, unann, got, s
<1>7. /\ s.last = c /\ s.size = r.size /\ s.buffer = [r.buffer EXCEPT ![c] = nb]
      /\ s.length = length /\ s.broken = broken /\ s.unannounced = unann /\ s.got = got
      /\ s = [last |-> s.last, size |-> s.size, buffer |-> s.buffer, length |-> s.length,
              broken |-> s.broken, unannounced |-> s.unannounced, got |-> s.got]
    BY <1>3
<1>8. /\ s.buffer = [d \in AllChannels |-> s.buffer[d]]
      /\ \A d \in AllChannels \ {c} : s.buffer[d] = r.buffer[d]
      /\ s.buffer[c] = nb
    <2>1. r.buffer = [d \in AllChannels |-> r.buffer[d]]
        BY DEF IsReceiver
    <2> QED
        BY <1>2, <1>7, <2>1
<1>9. IsReceiver(s)
    BY <1>2, <1>7, <1>8 DEF IsReceiver
<1> HIDE DEF fits, have, old, complete
<1>10. s.buffer[c] = IF fits /\ ~Exhausted(dg, len)
                     THEN [payload |-> dg.payload, have |-> Rest(dg, len).written] ELSE NoBuffer
    BY <1>5, <1>8 DEF nb
<1>11. s.length = IF fits /\ Exhausted(dg, len) /\ c = "dgli" THEN dg.payload ELSE r.length
    <2>1. complete => fits
        BY DEF complete
    <2> QED
        BY <1>5, <1>7, <2>1 DEF length
<1>12. s.broken \subseteq r.broken \cup (IF fits THEN {} ELSE {Of(dg), <<c, b.payload>>})
    BY <1>6, <1>7 DEF broken, Of
<1>13. /\ s.unannounced \subseteq r.unannounced \cup {dg.payload}
       /\ s.unannounced = r.unannounced \/ (c = "mot" /\ begins /\ r.length # dg.payload)
    BY <1>7 DEF unann
<1>14. s.got = IF fits /\ Exhausted(dg, len) /\ c # "dgli"
               THEN [r.got EXCEPT ![c] = Append(@, dg.payload)] ELSE r.got
    <2>1. complete => fits
        BY DEF complete
    <2> QED
        BY <1>5, <1>7, <2>1 DEF got
<1> QED
    BY <1>4, <1>7, <1>8, <1>9, <1>10, <1>11, <1>12, <1>13, <1>14 DEF s, Takes

\* It is taken, and the receiver still follows.
LEMMA TakenOK ==
    ASSUME NEW r, IsReceiver(r), NEW dg \in DGTypes, NEW len \in Nat,
           NEW c, c = Channel(dg.app.start), NEW begins \in BOOLEAN,
           begins => dg.written = 0 \/ (short_xpad /\ dg.app = DGLI),
           ~begins => dg \in Partial, dg.written < dg.size,
           ~short_xpad /\ dg.app = DGLI => begins /\ Exhausted(dg, len),
           ~short_xpad /\ dg.app = MOT /\ begins => r.length = dg.payload \/ Of(dg) \in hit,
           \A e \in Partial : e \in DGTypes,
           Synced(r, hit), Owned(r, hit), Intact(r), Replaced(dg, len),
           hit' = hit, pad_size' = pad_size
    PROVE  LET s == RxSubField(r, c, begins, PieceOf(dg, len))
           IN  /\ Synced(s, hit)' /\ Owned(s, hit)' /\ Intact(s)'
               /\ s.length = IF ~short_xpad /\ c = "dgli" THEN dg.payload
                             ELSE IF c # "dgli" THEN r.length ELSE s.length
               /\ Gets(s, r, dg, len)
<1> DEFINE s == RxSubField(r, c, begins, PieceOf(dg, len))
           b == r.buffer[c]
           fits == IF begins THEN dg.written = 0 ELSE b.payload = dg.payload /\ b.have = dg.written
           rest == Rest(dg, len)
<1>1. /\ \A d \in AllChannels \ {c} : s.buffer[d] = r.buffer[d]
      /\ s.buffer[c] = IF fits /\ ~Exhausted(dg, len)
                       THEN [payload |-> dg.payload, have |-> rest.written] ELSE NoBuffer
      /\ s.length = IF fits /\ Exhausted(dg, len) /\ c = "dgli" THEN dg.payload ELSE r.length
      /\ s.broken \subseteq r.broken \cup (IF fits THEN {} ELSE {Of(dg), <<c, b.payload>>})
      /\ s.unannounced \subseteq r.unannounced \cup {dg.payload}
      /\ s.unannounced = r.unannounced \/ (c = "mot" /\ begins /\ r.length # dg.payload)
      /\ s.got = IF fits /\ Exhausted(dg, len) /\ c # "dgli"
                 THEN [r.got EXCEPT ![c] = Append(@, dg.payload)] ELSE r.got
    <2>1. Takes(s, r, dg, len, c, begins)
        BY Taking
    <2> QED
        BY <2>1 DEF Takes
<1>2. /\ dg.app \in {DGLI, DLS, MOT} /\ c \in AllChannels
      /\ c = "dgli" <=> dg.app = DGLI
      /\ c = "mot" <=> dg.app = MOT
    BY AppChannels DEF AllChannels, Channels
<1>3. rest.app = dg.app /\ rest.payload = dg.payload /\ Of(rest) = Of(dg) /\ Of(dg) = <<c, dg.payload>>
    BY RestOf DEF Of
<1>4. fits \/ Of(dg) \in hit \/ dg.app = DGLI
    <2>1. CASE begins
        BY <2>1
    <2>2. CASE ~begins
        <3>1. \/ dg.app = DGLI \/ Of(dg) \in hit
              \/ b = [payload |-> dg.payload, have |-> dg.written]
            BY <2>2 DEF Synced
        <3> QED
            BY <3>1
    <2> QED
        BY <2>1, <2>2
<1>5. short_xpad' = short_xpad
    BY DEF short_xpad
<1> HIDE DEF s, fits, rest
<1>6. \A e \in Partial' :
          \/ e = rest /\ ~Exhausted(dg, len)
          \/ e \in Partial /\ Channel(e.app.start) # c
    BY DEF Replaced, rest
<1>7. Synced(s, hit)'
    <2> SUFFICES ASSUME NEW e \in Partial', e.app # DGLI, Of(e) \notin hit
                 PROVE  s.buffer[Channel(e.app.start)] = [payload |-> e.payload, have |-> e.written]
        BY DEF Synced, Of
    <2>1. CASE e = rest /\ ~Exhausted(dg, len)
        BY <1>1, <1>3, <1>4, <2>1
    <2>2. CASE e \in Partial /\ Channel(e.app.start) # c
        <3>1. r.buffer[Channel(e.app.start)] = [payload |-> e.payload, have |-> e.written]
            BY <2>2 DEF Synced
        <3>2. Channel(e.app.start) \in AllChannels
            BY <2>2, AppChannels DEF AllChannels, Channels
        <3> QED
            BY <1>1, <2>2, <3>1, <3>2
    <2> QED
        BY <1>6, <2>1, <2>2
<1>8. \A d \in Channels :
          <<d, s.buffer[d].payload>> \in Damaged(hit) \cup {Of(e) : e \in Partial'}
    <2> SUFFICES ASSUME NEW d \in Channels
                 PROVE  <<d, s.buffer[d].payload>> \in Damaged(hit) \cup {Of(e) : e \in Partial'}
        OBVIOUS
    <2>1. CASE d # c
        <3>1. s.buffer[d] = r.buffer[d]
            BY <1>1, <2>1 DEF AllChannels
        <3>2. <<d, r.buffer[d].payload>> \in Damaged(hit) \cup {Of(e) : e \in Partial}
            BY DEF Owned
        <3>3. ASSUME NEW e \in Partial, <<d, r.buffer[d].payload>> = Of(e) PROVE e \in Partial'
            <4>1. e # dg
                BY <1>3, <2>1, <3>3
            <4> QED
                BY <4>1 DEF Replaced
        <3> QED
            BY <3>1, <3>2, <3>3
    <2>2. CASE d = c
        <3>1. CASE fits /\ ~Exhausted(dg, len)
            <4>1. s.buffer[c].payload = dg.payload
                BY <1>1, <3>1
            <4>2. rest \in Partial'
                BY <3>1 DEF Replaced, rest
            <4> QED
                BY <1>3, <2>2, <4>1, <4>2
        <3>2. CASE ~(fits /\ ~Exhausted(dg, len))
            BY <1>1, <1>2, <2>2, <3>2 DEF Damaged
        <3> QED
            BY <3>1, <3>2
    <2> QED
        BY <2>1, <2>2
<1>9. ~short_xpad => s.buffer["dgli"] = NoBuffer
    <2> SUFFICES ASSUME ~short_xpad PROVE s.buffer["dgli"] = NoBuffer
        OBVIOUS
    <2>1. CASE c = "dgli"
        BY <1>1, <1>2, <2>1
    <2>2. CASE c # "dgli"
        BY <1>1, <2>2 DEF Owned, AllChannels
    <2> QED
        BY <2>1, <2>2
<1>10. Owned(s, hit)'
    <2>1. Damaged(hit)' = Damaged(hit)
        BY DEF Damaged
    <2>2. {Of(e) : e \in Partial}' = {Of(e) : e \in Partial'}
        BY DEF Of
    <2> QED
        BY <1>5, <1>8, <1>9, <2>1, <2>2 DEF Owned
<1>11. \A x \in s.broken : x[1] \in Channels \/ ~short_xpad => x \in Damaged(hit)
    <2>1. CASE fits
        BY <1>1, <2>1 DEF Intact
    <2>2. CASE ~fits /\ dg.app # DGLI
        <3>1. Of(dg) \in hit
            BY <1>4, <2>2
        <3>2. <<c, b.payload>> \in Damaged(hit)
            <4>1. c \in Channels
                BY <1>2, <2>2 DEF AllChannels
            <4>2. <<c, b.payload>> \in Damaged(hit) \cup {Of(e) : e \in Partial}
                BY <4>1 DEF Owned
            <4>3. ASSUME NEW e \in Partial, <<c, b.payload>> = Of(e) PROVE e = dg
                BY <4>3 DEF Replaced, Of
            <4> QED
                BY <3>1, <4>2, <4>3 DEF Damaged
        <3> QED
            BY <1>1, <2>2, <3>1, <3>2 DEF Intact, Damaged
    <2>3. CASE ~fits /\ dg.app = DGLI
        <3>1. short_xpad
            BY <2>3 DEF fits
        <3>2. c = "dgli" /\ "dgli" \notin Channels
            BY <1>2, <2>3 DEF Channels
        <3>3. \A x \in s.broken : x \in r.broken \/ x[1] = "dgli"
            BY <1>1, <1>3, <3>2
        <3> QED
            BY <3>1, <3>2, <3>3 DEF Intact
    <2> QED
        BY <2>1, <2>2, <2>3
<1>12. ~short_xpad => \A p \in s.unannounced : <<"mot", p>> \in hit
    <2> SUFFICES ASSUME ~short_xpad, NEW p \in s.unannounced PROVE <<"mot", p>> \in hit
        OBVIOUS
    <2>1. CASE s.unannounced = r.unannounced
        BY <2>1 DEF Intact
    <2>2. CASE c = "mot" /\ begins /\ r.length # dg.payload
        BY <1>1, <1>2, <1>3, <2>2 DEF Intact
    <2> QED
        BY <1>1, <2>1, <2>2
<1>13. Intact(s)'
    <2>1. Damaged(hit)' = Damaged(hit)
        BY DEF Damaged
    <2> QED
        BY <1>5, <1>11, <1>12, <2>1 DEF Intact
<1>14. s.length = IF ~short_xpad /\ c = "dgli" THEN dg.payload
                  ELSE IF c # "dgli" THEN r.length ELSE s.length
    BY <1>1, <1>2 DEF fits
<1>15. Gets(s, r, dg, len)
    <2>1. \A d \in Channels \ {c} : s.buffer[d] = r.buffer[d]
        BY <1>1 DEF AllChannels
    <2>2. CASE fits /\ Exhausted(dg, len) /\ c # "dgli"
        BY <1>1, <1>2, <2>1, <2>2 DEF Gets
    <2>3. CASE ~(fits /\ Exhausted(dg, len) /\ c # "dgli")
        <3>1. s.got = r.got
            BY <1>1, <2>3
        <3>2. s.buffer[c] = NoBuffer \/ s.buffer[c].payload = dg.payload
            BY <1>1
        <3> QED
            BY <1>2, <1>4, <2>1, <2>3, <3>1, <3>2 DEF Gets
    <2> QED
        BY <2>2, <2>3
<1> QED
    BY <1>7, <1>10, <1>13, <1>14, <1>15 DEF s

\* It is not, because the receiver does not carry on where the packetizer does.
LEMMA SpoiltOK ==
    ASSUME NEW r, IsReceiver(r), NEW dg \in DGTypes, NEW len \in Nat, dg \in Partial,
           Confused(r, dg), \A e \in Partial : e \in DGTypes,
           Synced(r, hit), Owned(r, hit), Intact(r), Replaced(dg, len),
           hit' = hit, pad_size' = pad_size
    PROVE  LET s == Spoil(r, r.last, PieceOf(dg, len))
           IN  /\ IsReceiver(s) /\ s.length = r.length
               /\ Synced(s, hit)' /\ Owned(s, hit)' /\ Intact(s)'
               /\ s.last # "none" => <<s.last, s.buffer[s.last].payload>> \in Damaged(hit)
               /\ Gets(s, r, dg, len)
<1> DEFINE s == Spoil(r, r.last, PieceOf(dg, len))
           b == r.buffer[r.last]
<1>1. Channel(PieceOf(dg, len).app) = Channel(dg.app.start) /\ PieceOf(dg, len).payload = dg.payload
    BY AppChannels DEF PieceOf
<1>2. /\ r = [last |-> r.last, size |-> r.size, buffer |-> r.buffer, length |-> r.length,
              broken |-> r.broken, unannounced |-> r.unannounced, got |-> r.got]
      /\ r.buffer = [c \in AllChannels |-> r.buffer[c]]
      /\ r.last \in AllChannels \cup {"none"}
    BY DEF IsReceiver
<1> DEFINE spoilt == {Of(dg)} \cup IF r.last = "none" THEN {} ELSE {<<r.last, b.payload>>}
           buffer == [d \in AllChannels |-> IF d = r.last THEN NoBuffer ELSE r.buffer[d]]
<1>3. s = [last |-> r.last, size |-> r.size, buffer |-> buffer, length |-> r.length,
           broken |-> r.broken \cup spoilt, unannounced |-> r.unannounced, got |-> r.got]
    <2>1. CASE r.last = "none"
        <3>1. s = [r EXCEPT !.broken = @ \cup {Of(dg)}]
            BY <1>1, <2>1 DEF Spoil, Of
        <3>2. buffer = r.buffer
            <4>1. "none" \notin AllChannels
                BY DEF AllChannels, Channels
            <4> QED
                BY <1>2, <2>1, <4>1
        <3>3. r.broken \cup spoilt = r.broken \cup {Of(dg)}
            BY <2>1
        <3> HIDE DEF buffer, spoilt, s
        <3> QED
            BY <1>2, <3>1, <3>2, <3>3
    <2>2. CASE r.last # "none"
        <3>1. s = [r EXCEPT !.broken = @ \cup {Of(dg)} \cup {<<r.last, b.payload>>},
                            !.buffer[r.last] = NoBuffer]
            BY <1>1, <2>2 DEF Spoil, Of
        <3>2. buffer = [r.buffer EXCEPT ![r.last] = NoBuffer]
            BY <1>2
        <3>3. r.broken \cup spoilt = r.broken \cup {Of(dg)} \cup {<<r.last, b.payload>>}
            BY <2>2
        <3> HIDE DEF buffer, spoilt, s
        <3> QED
            BY <1>2, <3>1, <3>2, <3>3
    <2> QED
        BY <2>1, <2>2
<1>4. spoilt \subseteq Damaged(hit) /\ Of(dg) \in hit
    BY DEF Confused, Damaged
<1> HIDE DEF s, buffer, spoilt
<1>5. /\ s.last = r.last /\ s.size = r.size /\ s.buffer = buffer /\ s.length = r.length
      /\ s.broken = r.broken \cup spoilt /\ s.unannounced = r.unannounced /\ s.got = r.got
      /\ s = [last |-> s.last, size |-> s.size, buffer |-> s.buffer, length |-> s.length,
              broken |-> s.broken, unannounced |-> s.unannounced, got |-> s.got]
    BY <1>3
<1>6. /\ s.buffer = [d \in AllChannels |-> s.buffer[d]]
      /\ \A d \in AllChannels : s.buffer[d] = IF d = r.last THEN NoBuffer ELSE r.buffer[d]
    BY <1>5 DEF buffer
<1>7. IsReceiver(s)
    BY <1>2, <1>5, <1>6 DEF IsReceiver
<1>8. s.last # "none" => <<s.last, s.buffer[s.last].payload>> \in Damaged(hit)
    <2> SUFFICES ASSUME s.last # "none" PROVE <<s.last, s.buffer[s.last].payload>> \in Damaged(hit)
        OBVIOUS
    <2>1. s.last \in AllChannels /\ s.buffer[s.last] = NoBuffer
        BY <1>2, <1>5, <1>6
    <2> QED
        BY <2>1 DEF Damaged
<1>9. Damaged(hit)' = Damaged(hit) /\ short_xpad' = short_xpad
    BY DEF Damaged, short_xpad
<1>10. \A e \in Partial' : Of(e) = Of(dg) \/ e \in Partial
    <2>1. Of(Rest(dg, len)) = Of(dg)
        BY RestOf
    <2> QED
        BY <2>1 DEF Replaced
<1>11. Synced(s, hit)'
    <2> SUFFICES ASSUME NEW e \in Partial', e.app # DGLI, Of(e) \notin hit
                 PROVE  s.buffer[Channel(e.app.start)] = [payload |-> e.payload, have |-> e.written]
        BY DEF Synced, Of
    <2>1. e \in Partial /\ e \in DGTypes
        BY <1>4, <1>10
    <2> DEFINE c == Channel(e.app.start)
    <2>2. c \in AllChannels
        BY <2>1, AppChannels DEF AllChannels, Channels
    <2>3. r.buffer[c] = [payload |-> e.payload, have |-> e.written]
        BY <2>1 DEF Synced
    <2>4. c # r.last
        <3> SUFFICES ASSUME c = r.last PROVE FALSE
            OBVIOUS
        <3>1. <<c, e.payload>> \in Damaged(hit)
            BY <1>2, <2>2, <2>3 DEF Confused, AllChannels, Channels
        <3>2. e.payload # NoBuffer.payload
            BY <2>1 DEF DGTypes, NoBuffer
        <3> QED
            BY <3>1, <3>2 DEF Damaged, Of
    <2> QED
        BY <1>6, <2>2, <2>3, <2>4
<1>12. Owned(s, hit)'
    <2>1. \A d \in Channels :
              <<d, s.buffer[d].payload>> \in Damaged(hit) \cup {Of(e) : e \in Partial'}
        <3> SUFFICES ASSUME NEW d \in Channels
                     PROVE  <<d, s.buffer[d].payload>> \in Damaged(hit) \cup {Of(e) : e \in Partial'}
            OBVIOUS
        <3>1. d \in AllChannels
            BY DEF AllChannels
        <3>2. CASE d = r.last
            BY <1>6, <3>1, <3>2 DEF Damaged
        <3>3. CASE d # r.last
            <4>1. <<d, s.buffer[d].payload>> \in Damaged(hit) \cup {Of(e) : e \in Partial}
                BY <1>6, <3>1, <3>3 DEF Owned
            <4>2. ASSUME NEW e \in Partial PROVE Of(e) = Of(dg) \/ e \in Partial'
                BY DEF Replaced
            <4> QED
                BY <1>4, <4>1, <4>2 DEF Damaged
        <3> QED
            BY <3>2, <3>3
    <2>2. {Of(e) : e \in Partial}' = {Of(e) : e \in Partial'}
        BY DEF Of
    <2>3. ~short_xpad => s.buffer["dgli"] = NoBuffer
        BY <1>6 DEF Owned, AllChannels
    <2> QED
        BY <1>9, <2>1, <2>2, <2>3 DEF Owned
<1>13. Intact(s)'
    <2>1. \A x \in s.broken : x[1] \in Channels \/ ~short_xpad => x \in Damaged(hit)
        BY <1>4, <1>5 DEF Intact
    <2>2. ~short_xpad => \A p \in s.unannounced : <<"mot", p>> \in hit
        BY <1>5 DEF Intact
    <2> QED
        BY <1>9, <2>1, <2>2 DEF Intact
<1>14. Gets(s, r, dg, len)
    <2>1. \A d \in Channels : s.buffer[d] \in {r.buffer[d], NoBuffer}
        BY <1>6 DEF AllChannels
    <2> QED
        BY <1>4, <1>5, <2>1 DEF Gets
<1> QED
    BY <1>5, <1>7, <1>8, <1>11, <1>12, <1>13, <1>14 DEF s

-----------------------------------------------------------------------------
(***************************************************************************)
(* Taking len bytes from the front of the queue.                           *)
(***************************************************************************)
\* What a slide goes on with behind m data groups of a label, once len bytes of the front
\* data group dg are gone; n data groups of the label were there before.
NextUp(m, n, dg, len) ==
    m < Len(queue') =>
        \/ dg.app = DLS /\ n < Len(queue) /\ queue'[m + 1] = queue[n + 1]
        \/ dg.app = DGLI /\ Exhausted(dg, len) /\ queue'[m + 1].payload = dg.payload
        \/ queue'[m + 1].app = DGLI
        \/ queue'[m + 1].written > 0

\* How many of n data groups of a label in front are left then.
Left(n, dg, len) == IF Exhausted(dg, len) /\ n > 0 THEN n - 1 ELSE n

FrontGone(n, len) ==
    /\ queue' \in Seq(DGTypes)
    /\ \A i \in 1 .. Len(queue') : queue'[i].written < queue'[i].size
    /\ Replaced(Head(queue), len)
    /\ \E m \in 0 .. Len(queue') : /\ m = Left(n, Head(queue), len)
                                 /\ SlideAfter(m)' /\ NextUp(m, n, Head(queue), len)

\* Behind a label there is the slide only.
LEMMA FrontApart ==
    ASSUME queue \in Seq(DGTypes), NEW n \in 0 .. Len(queue), SlideAfter(n),
           NEW i \in Begun, i # 1
    PROVE  Channel(queue[i].app.start) # Channel(queue[1].app.start)
<1>1. i = n + 1 /\ i \in 1 .. Len(queue) /\ Len(queue) \in Nat
    BY DEF SlideAfter, Begun
<1>2. queue[1].app = DLS
    <2>1. 1 \in 1 .. n
        BY <1>1
    <2> QED
        BY <2>1 DEF SlideAfter
<1>3. queue[i].app \in {MOT, DGLI}
    BY <1>1 DEF SlideAfter
<1> QED
    BY <1>2, <1>3, ChannelValues DEF DLS, MOT, DGLI

\* The data group in front is not written to its end.
LEMMA FrontShorter ==
    ASSUME queue \in Seq(DGTypes), queue # <<>>,
           \A i \in 1 .. Len(queue) : queue[i].written < queue[i].size,
           NEW n \in 0 .. Len(queue), SlideAfter(n), NEW len \in Nat,
           ~Exhausted(Head(queue), len), Rest(Head(queue), len).written > 0,
           ~short_xpad => Head(queue).app # DGLI,
           queue' = <<Rest(Head(queue), len)>> \o Tail(queue), pad_size' = pad_size
    PROVE  FrontGone(n, len)
<1> DEFINE dg == Head(queue)
           rest == Rest(dg, len)
           N == Len(queue)
<1>1. N \in Nat /\ N >= 1 /\ dg = queue[1] /\ dg \in DGTypes /\ dg.written < dg.size
    BY LenProperties, EmptySeq
<1>2. /\ rest \in DGTypes /\ rest.written < rest.size /\ Of(rest) = Of(dg)
      /\ rest.app = dg.app /\ rest.size = dg.size /\ rest.payload = dg.payload
    BY <1>1, RestOf
<1> HIDE DEF rest
<1>3. /\ queue' \in Seq(DGTypes) /\ Len(queue') = N
      /\ queue'[1] = rest /\ \A i \in 2 .. N : queue'[i] = queue[i]
    BY <1>1, <1>2 DEF rest
<1> HIDE DEF dg
<1>4. short_xpad' = short_xpad
    BY DEF short_xpad
<1>5. Begun' = Begun \cup {1} /\ Begun \subseteq 1 .. N
    <2>1. \A i \in 1 .. N : queue'[i].written > 0 <=> i = 1 \/ queue[i].written > 0
        BY <1>3 DEF rest, dg
    <2> QED
        BY <1>1, <1>3, <2>1 DEF Begun
<1>6. Begun \subseteq {1, n + 1} /\ (\A i \in 1 .. n : queue[i].app = DLS)
    BY DEF SlideAfter
<1>7. SlideAfter(n)'
    <2>1. \A i \in 1 .. N : queue'[i].app = queue[i].app /\ queue'[i].size = queue[i].size
                            /\ queue'[i].payload = queue[i].payload
        BY <1>1, <1>2, <1>3
    <2>2. \A i \in 1 .. n : queue'[i].app = DLS
        BY <1>6, <2>1
    <2>3. \A i \in n + 1 .. N :
              /\ queue'[i].app = IF (N - i) % 2 = 0 THEN MOT ELSE DGLI
              /\ queue'[i].app = DGLI =>
                    queue'[i].size = DGLI_SIZE /\ queue'[i + 1].payload = queue'[i].payload
        <3> SUFFICES ASSUME NEW i \in n + 1 .. N
                     PROVE  /\ queue'[i].app = IF (N - i) % 2 = 0 THEN MOT ELSE DGLI
                            /\ queue'[i].app = DGLI =>
                                  /\ queue'[i].size = DGLI_SIZE
                                  /\ queue'[i + 1].payload = queue'[i].payload
            OBVIOUS
        <3>1. /\ queue[i].app = IF (N - i) % 2 = 0 THEN MOT ELSE DGLI
              /\ queue[i].app = DGLI =>
                    queue[i].size = DGLI_SIZE /\ queue[i + 1].payload = queue[i].payload
            BY DEF SlideAfter
        <3>2. queue[i].app = DGLI => i + 1 \in 1 .. N
            <4>1. i = N => (N - i) % 2 = 0
                BY <1>1
            <4>2. MOT # DGLI
                BY DEF MOT, DGLI
            <4> QED
                BY <1>1, <3>1, <4>1, <4>2
        <3> QED
            BY <1>1, <2>1, <3>1, <3>2
    <2>4. Begun' \subseteq {1, n + 1}
        BY <1>5, <1>6
    <2>5. ~short_xpad => \A i \in Begun' : queue'[i].app # DGLI
        <3>1. ~short_xpad => \A i \in Begun : queue[i].app # DGLI
            BY DEF SlideAfter
        <3> QED
            BY <1>1, <1>5, <2>1, <3>1 DEF dg
    <2> QED
        BY <1>3, <1>4, <2>2, <2>3, <2>4, <2>5 DEF SlideAfter
<1>8. Replaced(dg, len)
    <2>1. \A i \in Begun : i # 1 => Channel(queue[i].app.start) # Channel(dg.app.start)
        BY <1>1, <1>5, <1>6, FrontApart
    <2>2. \A e \in Partial : \E i \in Begun : e = queue[i]
        BY DEF Partial
    <2>3. \A e \in Partial' : \E i \in Begun' : e = queue'[i]
        BY DEF Partial
    <2>4. \A i \in Begun' : queue'[i] \in Partial'
        BY DEF Partial
    <2>5. \A i \in Begun : queue[i] \in Partial
        BY DEF Partial
    <2>6. \A i \in Begun : i # 1 => i \in 2 .. N /\ i \in Begun'
        BY <1>5
    <2>7. \A e \in Partial : e = dg \/ (e \in Partial' /\ Channel(e.app.start) # Channel(dg.app.start))
        BY <1>1, <1>3, <2>1, <2>2, <2>4, <2>6
    <2>8. \A e \in Partial' :
              e = rest \/ (e \in Partial /\ Channel(e.app.start) # Channel(dg.app.start))
        BY <1>3, <1>5, <2>1, <2>3, <2>5, <2>6
    <2>9. rest \in Partial'
        BY <1>3, <1>5, <2>4
    <2> QED
        BY <2>7, <2>8, <2>9 DEF Replaced, rest, dg
<1>9. NextUp(n, n, dg, len)
    <2>1. CASE n = 0
        BY <1>1, <1>3, <2>1 DEF NextUp, rest, dg
    <2>2. CASE n > 0
        <3>1. dg.app = DLS
            BY <1>1, <1>6, <2>2
        <3>2. n < N => n + 1 \in 2 .. N
            BY <1>1, <2>2
        <3> QED
            BY <1>1, <1>3, <3>1, <3>2 DEF NextUp
    <2> QED
        BY <2>1, <2>2
<1>10. \A i \in 1 .. Len(queue') : queue'[i].written < queue'[i].size
    BY <1>1, <1>2, <1>3
<1>11. n = Left(n, dg, len)
    BY DEF Left, dg
<1> QED
    BY <1>1, <1>3, <1>7, <1>8, <1>9, <1>10, <1>11 DEF FrontGone, dg

\* The data group in front is written to its end and removed.
LEMMA FrontRemoved ==
    ASSUME queue \in Seq(DGTypes), queue # <<>>,
           \A i \in 1 .. Len(queue) : queue[i].written < queue[i].size,
           NEW n \in 0 .. Len(queue), SlideAfter(n), NEW len \in Nat,
           Exhausted(Head(queue), len),
           queue' = Tail(queue), pad_size' = pad_size
    PROVE  FrontGone(n, len)
<1> DEFINE dg == Head(queue)
           N == Len(queue)
           m == IF n = 0 THEN 0 ELSE n - 1
<1>1. N \in Nat /\ N >= 1 /\ dg = queue[1] /\ dg \in DGTypes
    BY LenProperties, EmptySeq
<1>2. /\ queue' \in Seq(DGTypes) /\ Len(queue') = N - 1
      /\ \A i \in 1 .. N - 1 : queue'[i] = queue[i + 1]
    BY <1>1
<1>3. m \in 0 .. N - 1 /\ \A i \in m + 1 .. N - 1 : i + 1 \in n + 1 .. N /\ (N - 1) - i = N - (i + 1)
    BY <1>1
<1>4. n > 0 => m = n - 1
    OBVIOUS
<1>5. n = 0 => m = 0
    OBVIOUS
<1>6. m = Left(n, dg, len)
    BY DEF Left
<1> HIDE DEF dg, m
<1>7. short_xpad' = short_xpad
    BY DEF short_xpad
<1>8. /\ Begun' = {i \in 1 .. N - 1 : i + 1 \in Begun} /\ Begun \subseteq 1 .. N
      /\ Begun \subseteq {1, n + 1} /\ (\A i \in 1 .. n : queue[i].app = DLS)
    <2>1. \A i \in 1 .. N - 1 : i + 1 \in 1 .. N /\ (queue'[i].written > 0 <=> queue[i + 1].written > 0)
        BY <1>1, <1>2
    <2> QED
        BY <1>1, <1>2, <2>1 DEF Begun, SlideAfter
<1>9. SlideAfter(m)'
    <2>1. \A i \in 1 .. m : queue'[i].app = DLS
        <3> SUFFICES ASSUME NEW i \in 1 .. m PROVE queue'[i].app = DLS
            OBVIOUS
        <3>1. n > 0 /\ i \in 1 .. N - 1 /\ i + 1 \in 1 .. n
            BY <1>1, <1>3, <1>4, <1>5
        <3> QED
            BY <1>2, <1>8, <3>1
    <2>2. \A i \in m + 1 .. N - 1 :
              /\ queue'[i].app = IF ((N - 1) - i) % 2 = 0 THEN MOT ELSE DGLI
              /\ queue'[i].app = DGLI =>
                    queue'[i].size = DGLI_SIZE /\ queue'[i + 1].payload = queue'[i].payload
        <3> SUFFICES ASSUME NEW i \in m + 1 .. N - 1
                     PROVE  /\ queue'[i].app = IF ((N - 1) - i) % 2 = 0 THEN MOT ELSE DGLI
                            /\ queue'[i].app = DGLI =>
                                  /\ queue'[i].size = DGLI_SIZE
                                  /\ queue'[i + 1].payload = queue'[i].payload
            OBVIOUS
        <3>1. i + 1 \in n + 1 .. N /\ (N - 1) - i = N - (i + 1) /\ i \in 1 .. N - 1
            BY <1>1, <1>3
        <3> DEFINE j == i + 1
        <3>2. queue'[i] = queue[j] /\ j \in n + 1 .. N /\ (N - 1) - i = N - j
            BY <1>2, <3>1
        <3>3. /\ queue[j].app = IF (N - j) % 2 = 0 THEN MOT ELSE DGLI
              /\ queue[j].app = DGLI =>
                    queue[j].size = DGLI_SIZE /\ queue[j + 1].payload = queue[j].payload
            BY <3>2 DEF SlideAfter
        <3>4. queue[j].app = DGLI => queue'[i + 1] = queue[j + 1]
            <4>1. j = N => (N - j) % 2 = 0
                BY <1>1
            <4>2. MOT # DGLI
                BY DEF MOT, DGLI
            <4>3. queue[j].app = DGLI => j # N
                BY <3>3, <4>1, <4>2
            <4>4. j # N => i + 1 \in 1 .. N - 1
                <5>1. i \in Int /\ i >= 1 /\ i + 1 <= N
                    BY <1>1, <3>1
                <5> HIDE DEF N
                <5> QED
                    BY <1>1, <5>1
            <4> QED
                BY <1>2, <4>3, <4>4
        <3> HIDE DEF j
        <3> QED
            BY <3>2, <3>3, <3>4
    <2>3. Begun' \subseteq {1, m + 1}
        <3> SUFFICES ASSUME NEW i \in Begun' PROVE i = m + 1
            OBVIOUS
        <3>1. i \in 1 .. N - 1 /\ i + 1 \in {1, n + 1}
            BY <1>8
        <3> QED
            BY <1>4, <3>1
    <2>4. ~short_xpad => \A i \in Begun' : queue'[i].app # DGLI
        <3>1. ~short_xpad => \A i \in Begun : queue[i].app # DGLI
            BY DEF SlideAfter
        <3> QED
            BY <1>2, <1>8, <3>1
    <2> QED
        BY <1>2, <1>7, <2>1, <2>2, <2>3, <2>4 DEF SlideAfter
<1>10. Replaced(dg, len)
    <2>1. \A i \in Begun : i # 1 => Channel(queue[i].app.start) # Channel(dg.app.start)
        BY <1>1, FrontApart
    <2>2. \A e \in Partial : \E i \in Begun : e = queue[i]
        BY DEF Partial
    <2>3. \A e \in Partial' : \E i \in Begun' : e = queue'[i]
        BY DEF Partial
    <2>4. \A i \in Begun' : queue'[i] \in Partial'
        BY DEF Partial
    <2>5. \A i \in Begun : queue[i] \in Partial
        BY DEF Partial
    <2>6. \A i \in Begun : i # 1 => i - 1 \in Begun' /\ queue[i] = queue'[i - 1]
        BY <1>1, <1>2, <1>8
    <2>7. \A i \in Begun' : i + 1 \in Begun /\ i + 1 # 1 /\ queue'[i] = queue[i + 1]
        BY <1>2, <1>8
    <2>8. \A e \in Partial : e = dg \/ (e \in Partial' /\ Channel(e.app.start) # Channel(dg.app.start))
        <3> SUFFICES ASSUME NEW e \in Partial, e # dg
                     PROVE  e \in Partial' /\ Channel(e.app.start) # Channel(dg.app.start)
            OBVIOUS
        <3>1. PICK i \in Begun : e = queue[i]
            BY <2>2
        <3>2. i # 1
            BY <1>1, <3>1
        <3> QED
            BY <1>1, <2>1, <2>4, <2>6, <3>1, <3>2
    <2>9. \A e \in Partial' : e \in Partial /\ Channel(e.app.start) # Channel(dg.app.start)
        <3> SUFFICES ASSUME NEW e \in Partial'
                     PROVE  e \in Partial /\ Channel(e.app.start) # Channel(dg.app.start)
            OBVIOUS
        <3>1. PICK i \in Begun' : e = queue'[i]
            BY <2>3
        <3>2. PICK j \in Begun : j # 1 /\ e = queue[j]
            BY <2>7, <3>1
        <3> QED
            BY <1>1, <2>1, <2>5, <3>2
    <2> QED
        BY <2>8, <2>9 DEF Replaced, dg
<1>11. NextUp(m, n, dg, len)
    <2> SUFFICES ASSUME m < N - 1 PROVE NextUp(m, n, dg, len)
        BY <1>2 DEF NextUp
    <2>1. m + 1 \in 1 .. N - 1 /\ queue'[m + 1] = queue[m + 2]
        BY <1>1, <1>2, <1>3
    <2>2. CASE n > 0
        <3>1. dg.app = DLS /\ m + 2 = n + 1 /\ n < N
            BY <1>1, <1>4, <1>8, <2>1, <2>2
        <3> QED
            BY <2>1, <3>1 DEF NextUp
    <2>3. CASE n = 0
        <3>1. m = 0 /\ 1 \in n + 1 .. N /\ 2 \in n + 1 .. N
            BY <1>1, <1>5, <2>1, <2>3
        <3>2. /\ queue[1].app = IF (N - 1) % 2 = 0 THEN MOT ELSE DGLI
              /\ queue[1].app = DGLI => queue[2].payload = queue[1].payload
              /\ queue[2].app = IF (N - 2) % 2 = 0 THEN MOT ELSE DGLI
            BY <3>1 DEF SlideAfter
        <3>3. (N - 1) % 2 = 0 => (N - 2) % 2 # 0
            BY <1>1
        <3>4. queue[1].app = DGLI \/ queue[2].app = DGLI
            BY <3>2, <3>3
        <3> QED
            BY <1>1, <2>1, <3>1, <3>2, <3>4 DEF NextUp, dg
    <2> QED
        BY <2>2, <2>3, <1>1
<1>12. \A i \in 1 .. Len(queue') : queue'[i].written < queue'[i].size
    BY <1>1, <1>2
<1> QED
    BY <1>1, <1>2, <1>3, <1>9, <1>10, <1>11, <1>12, <1>6 DEF FrontGone, dg

-----------------------------------------------------------------------------
(***************************************************************************)
(* One more sub-field in the PAD under construction.                       *)
(***************************************************************************)
PADFields ==
    /\ PAD.ci_flag <=> subfields_size > 0 /\ cis # <<>>
    /\ PAD.xpad = IF subfields_size = 0 THEN "none" ELSE IF short_xpad THEN "short" ELSE "variable"
    /\ PAD.cis = cis /\ PAD.subfields = subfields /\ PAD.used = xpad_size + FPAD_LEN

LEMMA PADIs ==
    ASSUME subfields_size \in Nat, cis \in Seq(Range(cis))
    PROVE  PADFields
<1>1. used_cis > 0 <=> cis # <<>>
    BY LenProperties, EmptySeq DEF used_cis
<1>2. subfields_size > 0 <=> subfields_size # 0
    OBVIOUS
<1> QED
    BY <1>1, <1>2 DEF PADFields, PAD

\* With CIs or, as the only one, without, a sub-field takes the receiver one step further.
LEMMA AheadGrows ==
    ASSUME PADTypes, pc = "fill", rx' = rx, pad_size' = pad_size, NEW piece,
           subfields' = Append(subfields, piece), subfields_size' \in Nat,
           NEW ci,
           \/ cis = <<>> /\ cis' = <<>>
           \/ cis' = Append(cis, ci) /\ subfields_size' > 0
    PROVE  /\ Ahead' = RxNext(Ahead, PAD', Len(subfields) + 1)
           /\ PADFields'
           /\ PAD'.subfields[Len(subfields) + 1] = piece
           /\ cis' # <<>> => PAD'.cis[Len(subfields) + 1] = ci
<1> DEFINE N == Len(subfields)
<1>1. /\ subfields \in Seq(Range(subfields)) /\ cis \in Seq(Range(cis)) /\ N \in Nat
      /\ subfields_size \in Nat /\ Len(cis) = N
      /\ cis # <<>> => subfields_size > 0
    BY LenProperties DEF PADTypes
<1>2. PADFields
    BY <1>1, PADIs
<1>3. /\ Len(subfields') = N + 1 /\ subfields'[N + 1] = piece
      /\ \A i \in 1 .. N : subfields'[i] = subfields[i]
    <2>1. PICK S : subfields \in Seq(S) /\ piece \in S
        <3>1. subfields \in Seq(Range(subfields) \cup {piece})
            BY <1>1, SeqMonotonic
        <3> QED
            BY <3>1
    <2> QED
        BY <2>1
<1>4. \/ N = 0 /\ cis = <<>> /\ cis' = <<>>
      \/ /\ subfields_size' > 0 /\ cis' # <<>> /\ cis' \in Seq(Range(cis) \cup {ci})
         /\ cis'[N + 1] = ci
         /\ \A i \in 1 .. N : cis'[i] = cis[i]
    <2>1. CASE cis = <<>> /\ cis' = <<>>
        BY <1>1, <2>1
    <2>2. CASE cis' = Append(cis, ci) /\ subfields_size' > 0
        <3>1. cis \in Seq(Range(cis) \cup {ci})
            BY <1>1, SeqMonotonic
        <3> QED
            BY <1>1, <2>2, <3>1
    <2> QED
        BY <2>1, <2>2
<1>5. PADFields'
    <2>1. used_cis' > 0 <=> cis' # <<>>
        <3>1. cis' \in Seq(Range(cis) \cup {ci})
            BY <1>4, EmptySeq
        <3> QED
            BY <3>1, LenProperties, EmptySeq DEF used_cis
    <2>2. subfields_size' > 0 <=> subfields_size' # 0
        OBVIOUS
    <2> QED
        BY <2>1, <2>2 DEF PADFields, PAD
<1>6. short_xpad' = short_xpad
    BY DEF short_xpad
<1>7. PICK p : p = PAD
    OBVIOUS
<1>8. PICK q : q = PAD'
    OBVIOUS
<1>9. /\ Len(p.subfields) = N /\ Len(q.subfields) = N + 1
      /\ q.subfields[N + 1] = piece
      /\ \A i \in 1 .. N : q.subfields[i] = p.subfields[i]
    BY <1>2, <1>3, <1>5, <1>7, <1>8 DEF PADFields
<1>10. ASSUME NEW i \in 1 .. N, NEW s PROVE RxNext(s, p, i) = RxNext(s, q, i)
    <2>1. cis # <<>> /\ cis' # <<>> /\ subfields_size > 0 /\ subfields_size' > 0 /\ cis'[i] = cis[i]
        BY <1>1, <1>4, EmptySeq
    <2>2. /\ p.ci_flag /\ q.ci_flag /\ q.xpad = p.xpad /\ q.cis[i] = p.cis[i]
          /\ q.subfields[i] = p.subfields[i]
        BY <1>2, <1>5, <1>6, <1>7, <1>8, <1>9, <2>1 DEF PADFields
    <2> QED
        BY <2>2 DEF RxNext
<1>11. RxSubFields(rx, q) = RxNext(RxSubFields(rx, p), q, N + 1)
    <2>1. \A i \in 1 .. N : \A s : RxNext(s, p, i) = RxNext(s, q, i)
        BY <1>10
    <2>2. N \in Nat
        BY <1>1
    <2> HIDE DEF N
    <2> QED
        BY <1>9, <2>1, <2>2, RxGrows
<1>12. Ahead' = RxNext(Ahead, PAD', N + 1)
    BY <1>7, <1>8, <1>11 DEF Ahead
<1>13. cis' # <<>> => q.cis[N + 1] = ci
    BY <1>4, <1>5, <1>8 DEF PADFields
<1> QED
    BY <1>5, <1>8, <1>9, <1>12, <1>13

\* What is announced stays so, what the front data group announces is announced, or else
\* damaged.
LEMMA StillAnnounced ==
    ASSUME NEW r, NEW s, NEW h, NEW k, h \subseteq k, NEW dg, NEW len \in Nat, NEW n \in Nat,
           NEW m, Announced(r, h, n), NextUp(m, n, dg, len), pad_size' = pad_size,
           queue' \in Seq(DGTypes), m \in 0 .. Len(queue'),
           dg.app = DLS => s.length = r.length,
           ~short_xpad /\ dg.app = DGLI /\ Exhausted(dg, len) =>
               s.length = dg.payload \/ <<"mot", dg.payload>> \in k
    PROVE  Announced(s, k, m)'
<1> SUFFICES ASSUME ~short_xpad, m < Len(queue'),
                    queue'[m + 1].app = MOT, queue'[m + 1].written = 0
             PROVE  s.length = queue'[m + 1].payload \/ Of(queue'[m + 1]) \in k
    BY DEF Announced, short_xpad, Of
<1> DEFINE e == queue'[m + 1]
<1>1. Of(e) = <<"mot", e.payload>>
    BY ChannelValues DEF Of, MOT
<1>2. MOT # DGLI
    BY DEF MOT, DGLI
<1>3. \/ dg.app = DLS /\ n < Len(queue) /\ e = queue[n + 1]
      \/ dg.app = DGLI /\ Exhausted(dg, len) /\ e.payload = dg.payload
    BY <1>2 DEF NextUp
<1> HIDE DEF e
<1>4. CASE dg.app = DLS /\ n < Len(queue) /\ e = queue[n + 1]
    <2>1. r.length = e.payload \/ Of(e) \in h
        BY <1>4 DEF Announced, e
    <2> QED
        BY <1>4, <2>1 DEF e
<1>5. CASE dg.app = DGLI /\ Exhausted(dg, len) /\ e.payload = dg.payload
    BY <1>1, <1>5 DEF e
<1> QED
    BY <1>3, <1>4, <1>5

\* A receiver that does not get the sub-field still follows, if what the sub-field carries
\* is damaged.
LEMMA KeptOK ==
    ASSUME NEW r, NEW h, NEW k, h \subseteq k, NEW dg \in DGTypes, NEW len \in Nat, Of(dg) \in k,
           Synced(r, h), Owned(r, h), Replaced(dg, len), pad_size' = pad_size
    PROVE  Synced(r, k)' /\ Owned(r, k)'
<1>1. \A e \in Partial' : Of(e) = Of(dg) \/ e \in Partial
    <2>1. Of(Rest(dg, len)) = Of(dg)
        BY RestOf
    <2> QED
        BY <2>1 DEF Replaced
<1>2. Synced(r, k)'
    <2> SUFFICES ASSUME NEW e \in Partial', e.app # DGLI, Of(e) \notin k
                 PROVE  r.buffer[Channel(e.app.start)] = [payload |-> e.payload, have |-> e.written]
        BY DEF Synced, Of
    <2> QED
        BY <1>1 DEF Synced
<1>3. \A c \in Channels :
          <<c, r.buffer[c].payload>> \in Damaged(k) \cup {Of(e) : e \in Partial'}
    <2> SUFFICES ASSUME NEW c \in Channels
                 PROVE  <<c, r.buffer[c].payload>> \in Damaged(k) \cup {Of(e) : e \in Partial'}
        OBVIOUS
    <2>1. <<c, r.buffer[c].payload>> \in Damaged(h) \cup {Of(e) : e \in Partial}
        BY DEF Owned
    <2>2. ASSUME NEW e \in Partial PROVE Of(e) = Of(dg) \/ e \in Partial'
        BY DEF Replaced
    <2> QED
        BY <2>1, <2>2 DEF Damaged
<1>4. Owned(r, k)'
    <2>1. Damaged(k)' = Damaged(k) /\ {Of(e) : e \in Partial}' = {Of(e) : e \in Partial'}
        BY DEF Damaged, Of
    <2>2. short_xpad' = short_xpad /\ (~short_xpad => r.buffer["dgli"] = NoBuffer)
        BY DEF short_xpad, Owned
    <2> QED
        BY <1>3, <2>1, <2>2 DEF Owned
<1> QED
    BY <1>2, <1>4

\* What is at stake when the PAD under construction is lost.
LEMMA PendingGrows ==
    ASSUME PADTypes, NEW dg \in DGTypes, NEW len, subfields' = Append(subfields, PieceOf(dg, len))
    PROVE  /\ Pending' = Pending \cup Hit(PieceOf(dg, len))
           /\ Of(dg) \in Pending'
           /\ dg.app = DGLI => <<"mot", dg.payload>> \in Pending'
<1> DEFINE piece == PieceOf(dg, len)
           N == Len(subfields)
<1>1. /\ Len(subfields') = N + 1 /\ subfields'[N + 1] = piece /\ N \in Nat
      /\ \A i \in 1 .. N : subfields'[i] = subfields[i]
    <2>1. subfields \in Seq(Range(subfields) \cup {piece})
        BY SeqMonotonic DEF PADTypes
    <2>2. subfields' = Append(subfields, piece) /\ N \in Nat
        BY LenProperties DEF PADTypes
    <2> HIDE DEF piece
    <2> QED
        BY <2>1, <2>2
<1> HIDE DEF piece
<1>2. Pending' = UNION {Hit(subfields'[i]) : i \in 1 .. N + 1}
    BY <1>1 DEF Pending, Hit
<1>3. 1 .. N + 1 = (1 .. N) \cup {N + 1}
    BY <1>1
<1> HIDE DEF N
<1>4. Pending' = Pending \cup Hit(piece)
    BY <1>1, <1>2, <1>3 DEF Pending, N
<1>5. piece.app = AppType(dg) /\ piece.payload = dg.payload
    BY DEF piece, PieceOf
<1>6. Of(dg) \in Hit(piece) /\ (dg.app = DGLI => <<"mot", dg.payload>> \in Hit(piece))
    BY <1>5, AppChannels DEF Hit, Of, DGLI
<1> QED
    BY <1>4, <1>6 DEF piece

LEMMA OptimalIndex ==
    ASSUME NEW available \in Nat
    PROVE  OptimalSubFieldSizeIndex(available) \in 1 .. 8
<1> DEFINE Holding == {i \in 1 .. 8 : SUBFIELD_LENS[i] >= available} \cup {8}
           Fitting == {i \in 1 .. Min(Holding) :
                          SUBFIELD_LENS[i] + AddCINeededBytes(used_cis) <= Room} \cup {1}
           best    == Max(Fitting)
<1>1. Holding \in SUBSET (1 .. 8) /\ Holding # {}
    OBVIOUS
<1>2. Min(Holding) \in 1 .. 8
    <2> HIDE DEF Holding
    <2> QED
        BY <1>1, ExtremeIndex
<1> HIDE DEF Holding
<1>3. Fitting \in SUBSET (1 .. 8) /\ Fitting # {}
    BY <1>2
<1>4. best \in 1 .. 8
    <2> HIDE DEF Fitting
    <2> QED
        BY <1>3, ExtremeIndex
<1>5. OptimalSubFieldSizeIndex(available) \in {best} \cup (IF best > 1 THEN {best - 1} ELSE {})
    BY DEF OptimalSubFieldSizeIndex, Holding
<1> HIDE DEF best
<1> QED
    BY <1>4, <1>5

\* A sub-field of len bytes is added, without a CI or with CI ci.
WithoutCI(len) ==
    OmitCIs(Head(queue)) /\ len = last_ci_size /\ cis = <<>> /\ cis' = <<>> /\ pc' = "flush"

WithCI(len, ci) ==
    /\ cis' = Append(cis, ci) /\ ci.type = AppType(Head(queue))
    /\ len = IF short_xpad THEN 3 ELSE SUBFIELD_LENS[ci.len_index]
    /\ len >= IF short_xpad THEN 3 ELSE 4
    /\ pc' \in {"fill", "flush"}

LEMMA AppendCases ==
    ASSUME LinkTypes, AppendDG
    PROVE  \E len \in Nat : /\ WriteDGToSubField(len) /\ xpad_size' \in Nat
                            /\ WithoutCI(len) \/ \E ci : WithCI(len, ci)
<1>1. /\ queue \in Seq(DGTypes) /\ queue # <<>> /\ cis \in Seq(Range(cis))
      /\ last_ci_size \in Nat /\ xpad_size \in Nat
    BY DEF LinkTypes, PADTypes, AppendDG
<1>2. CASE OmitCIs(Head(queue)) /\ AppendDGWithoutCI
    <2>1. cis = <<>>
        BY <1>1, <1>2, LenProperties, EmptySeq DEF OmitCIs, used_cis
    <2>2. WriteDGToSubField(last_ci_size) /\ WithoutCI(last_ci_size) /\ xpad_size' \in Nat
        BY <1>1, <1>2, <2>1 DEF AppendDGWithoutCI, WithoutCI
    <2> QED
        BY <1>1, <2>2
<1>3. CASE AppendDGWithCI
    <2> DEFINE index == IF short_xpad THEN 1
                        ELSE OptimalSubFieldSizeIndex(Available(Head(queue)))
               len   == IF short_xpad THEN 3 ELSE SUBFIELD_LENS[index]
               ci    == [type |-> AppType(Head(queue)), len_index |-> index]
    <2>1. Available(Head(queue)) \in Nat
        <3>1. Head(queue) \in DGTypes /\ Head(queue).written < Head(queue).size
            BY <1>1, LenProperties, EmptySeq DEF LinkTypes
        <3> QED
            BY <3>1 DEF Available, DGTypes
    <2>2. index \in 1 .. 8
        BY <2>1, OptimalIndex
    <2>3. /\ WriteDGToSubField(len) /\ cis' = Append(cis, ci)
          /\ xpad_size' = xpad_size + len + AddCINeededBytes(used_cis)
          /\ pc' \in {"fill", "flush"}
        BY <1>3 DEF AppendDGWithCI
    <2>4. ci.type = AppType(Head(queue)) /\ ci.len_index = index
        OBVIOUS
    <2> HIDE DEF index, ci
    <2>5. len \in Nat /\ len >= IF short_xpad THEN 3 ELSE 4
        BY <2>2 DEF SUBFIELD_LENS
    <2>6. len = IF short_xpad THEN 3 ELSE SUBFIELD_LENS[ci.len_index]
        BY <2>4
    <2> HIDE DEF len
    <2>7. xpad_size' \in Nat
        BY <1>1, <2>3, <2>5 DEF AddCINeededBytes
    <2> QED
        BY <2>3, <2>4, <2>5, <2>6, <2>7 DEF WithCI
<1> QED
    BY <1>2, <1>3 DEF AppendDG

\* What happens to the front data group, wherever the label in front ends.
Filled(len) ==
    LET dg == Head(queue)
    IN  /\ queue # <<>>
        /\ queue' = IF Exhausted(dg, len) THEN Tail(queue) ELSE <<Rest(dg, len)>> \o Tail(queue)
        /\ Pending' = Pending \cup Hit(PieceOf(dg, len)) /\ Of(dg) \in Pending'
        /\ Gets(Ahead', Ahead, dg, len)
        /\ \A n \in 0 .. Len(queue) : SlideAfter(n) => FrontGone(n, len)

LEMMA FillOK ==
    ASSUME LinkInv, AppendDG, UNCHANGED linkVars
    PROVE  LinkInv' /\ \E len \in Nat : Filled(len)
<1> DEFINE dg == Head(queue)
           N == Len(subfields)
<1>1. PICK len \in Nat : /\ WriteDGToSubField(len) /\ xpad_size' \in Nat
                         /\ WithoutCI(len) \/ \E ci : WithCI(len, ci)
    BY AppendCases DEF LinkInv
<1>2. PICK ci : WithoutCI(len) \/ WithCI(len, ci)
    BY <1>1
<1>3. PICK n \in 0 .. Len(queue) :
          SlideAfter(n) /\ Following(rx, hit \cup Pending, n) /\ Following(Ahead, hit, n)
    BY DEF LinkInv
<1>4. /\ hit' = hit /\ rx' = rx /\ sent' = sent
      /\ pad_size' = pad_size /\ last_ci_size' = last_ci_size
      /\ pc = "fill" /\ queue # <<>>
      /\ LinkTypes /\ PADTypes /\ IsReceiver(rx) /\ IsReceiver(Ahead) /\ Continued(Ahead)
    BY DEF AppendDG, linkVars, LinkInv, LinkTypes
<1>5. /\ queue \in Seq(DGTypes) /\ \A i \in 1 .. Len(queue) : queue[i].written < queue[i].size
      /\ dg = queue[1] /\ 1 \in 1 .. Len(queue) /\ Len(queue) \in Nat
      /\ dg \in DGTypes /\ dg.written < dg.size
      /\ dg.written \in Nat /\ dg.size \in Nat /\ dg.app \in {DGLI, DLS, MOT}
      /\ N \in Nat
    <2>1. queue \in Seq(DGTypes) /\ \A i \in 1 .. Len(queue) : queue[i].written < queue[i].size
        BY <1>4 DEF LinkTypes
    <2>2. dg = queue[1] /\ 1 \in 1 .. Len(queue) /\ Len(queue) \in Nat /\ dg \in DGTypes
        BY <1>4, <2>1, LenProperties, EmptySeq
    <2>3. N \in Nat
        BY <1>4, LenProperties DEF PADTypes
    <2> QED
        BY <2>1, <2>2, <2>3 DEF DGTypes
<1> HIDE DEF N
<1>6. /\ subfields' = Append(subfields, PieceOf(dg, len))
      /\ subfields_size' = subfields_size + len
      /\ last_ci_type' = IF Exhausted(dg, len) THEN -1 ELSE dg.app.cont
      /\ queue' = IF Exhausted(dg, len) THEN Tail(queue) ELSE <<Rest(dg, len)>> \o Tail(queue)
    BY <1>1 DEF WriteDGToSubField, PieceOf, Rest
<1>7. /\ \A e \in Partial : e \in DGTypes
      /\ dg.written > 0 => dg \in Partial
      /\ ~short_xpad /\ dg.written > 0 => dg.app # DGLI
    <2>1. dg.written > 0 => 1 \in Begun
        BY <1>5 DEF Begun
    <2>2. \A i \in Begun : i \in 1 .. Len(queue)
        BY DEF Begun
    <2>3. \A i \in Begun : queue[i] \in DGTypes
        BY <1>5, <2>2, ElementOfSeq
    <2> QED
        BY <1>3, <1>5, <2>1, <2>3 DEF Partial, SlideAfter
<1>8. ASSUME WithoutCI(len)
      PROVE  /\ subfields = <<>> /\ Ahead = rx /\ dg.written > 0
             /\ Confused(rx, dg) \/ (rx.last = Channel(dg.app.start) /\ rx.size = len)
    <2>1. subfields = <<>>
        BY <1>4, <1>5, <1>8, LenProperties, EmptySeq DEF PADTypes, WithoutCI
    <2>2. Ahead = rx
        <3>1. PAD.subfields = subfields
            BY DEF PAD
        <3>2. Len(PAD.subfields) = 0
            BY <2>1, <3>1
        <3> QED
            BY <3>2, RxEmpty DEF Ahead
    <2>3. last_ci_type # -1 /\ last_ci_type = dg.app.cont /\ len = last_ci_size
        BY <1>8 DEF WithoutCI, OmitCIs
    <2>4. PICK e \in Partial :
              /\ e.app.cont = last_ci_type
              /\ \/ /\ Ahead.last = Channel(e.app.start)
                    /\ subfields = <<>> => Ahead.size = last_ci_size
                 \/ Confused(Ahead, e)
        BY <1>4, <2>3 DEF Continued
    <2>5. e = dg
        <3>1. PICK i \in Begun : e = queue[i]
            BY <2>4 DEF Partial
        <3>2. e.app = dg.app
            <4>1. e.app \in {DGLI, DLS, MOT}
                BY <1>7, <2>4 DEF DGTypes
            <4> QED
                BY <1>5, <2>3, <2>4, <4>1 DEF DGLI, DLS, MOT
        <3>3. i = 1
            <4> SUFFICES ASSUME i # 1 PROVE FALSE
                OBVIOUS
            <4>1. Channel(queue[i].app.start) # Channel(queue[1].app.start)
                BY <1>3, <1>5, FrontApart
            <4> QED
                BY <1>5, <3>1, <3>2, <4>1
        <3> QED
            BY <1>5, <3>1, <3>3
    <2>6. dg.written > 0
        BY <2>5 DEF Partial, Begun
    <2> QED
        BY <2>1, <2>2, <2>3, <2>4, <2>5, <2>6
<1>9. /\ Rest(dg, len).written > 0
      /\ ~short_xpad /\ dg.app = DGLI => Exhausted(dg, len)
    <2>1. /\ Rest(dg, len).written = dg.written + WrittenNow(dg, len)
          /\ Rest(dg, len).written \in Nat
          /\ ~Exhausted(dg, len) => Rest(dg, len).written = dg.written + len
          /\ Rest(dg, len).written = dg.size <=> Exhausted(dg, len)
        BY <1>5, RestOf
    <2>2. CASE WithoutCI(len)
        BY <1>5, <1>7, <1>8, <2>1, <2>2
    <2>3. CASE WithCI(len, ci)
        <3>1. len >= 3 /\ (~short_xpad => len >= 4)
            BY <2>3 DEF WithCI
        <3>2. dg.app = DGLI => dg.size = 4
            <4>1. n = 0 \/ dg.app = DLS
                BY <1>3, <1>5 DEF SlideAfter
            <4>2. n = 0 /\ dg.app = DGLI => dg.size = DGLI_SIZE
                BY <1>3, <1>5 DEF SlideAfter
            <4>3. DLS # DGLI
                BY DEF DLS, DGLI
            <4> QED
                BY <4>1, <4>2, <4>3 DEF DGLI_SIZE
        <3> QED
            BY <1>5, <2>1, <3>1, <3>2 DEF Exhausted, Available
    <2> QED
        BY <1>2, <2>2, <2>3
<1>10. ASSUME NEW k \in 0 .. Len(queue), SlideAfter(k) PROVE FrontGone(k, len)
    <2>1. CASE Exhausted(dg, len)
        BY <1>4, <1>5, <1>6, <1>10, <2>1, FrontRemoved
    <2>2. CASE ~Exhausted(dg, len)
        <3>1. ~short_xpad => dg.app # DGLI
            BY <1>9, <2>2
        <3> QED
            BY <1>4, <1>5, <1>6, <1>9, <1>10, <2>2, <3>1, FrontShorter
    <2> QED
        BY <2>1, <2>2
<1>11. PICK m \in 0 .. Len(queue') : SlideAfter(m)' /\ NextUp(m, n, dg, len)
    BY <1>3, <1>10 DEF FrontGone
<1>12. /\ queue' \in Seq(DGTypes) /\ \A i \in 1 .. Len(queue') : queue'[i].written < queue'[i].size
       /\ Replaced(dg, len)
    BY <1>3, <1>10 DEF FrontGone
<1>13. /\ Pending' = Pending \cup Hit(PieceOf(dg, len)) /\ Of(dg) \in Pending'
       /\ dg.app = DGLI => <<"mot", dg.payload>> \in Pending'
    BY <1>4, <1>5, <1>6, PendingGrows
<1>14. Following(rx, hit \cup Pending, m)'
    <2>1. PICK h : h = hit \cup Pending
        OBVIOUS
    <2>2. PICK k : k = hit' \cup Pending'
        OBVIOUS
    <2>3. PICK r : r = rx
        OBVIOUS
    <2>4. h \subseteq k /\ Of(dg) \in k /\ (dg.app = DGLI => <<"mot", dg.payload>> \in k)
        BY <1>4, <1>13, <2>1, <2>2
    <2>5. Synced(r, h) /\ Owned(r, h) /\ Announced(r, h, n) /\ Intact(r)
        BY <1>3, <2>1, <2>3 DEF Following
    <2>6. Synced(r, k)' /\ Owned(r, k)'
        BY <1>4, <1>5, <1>12, <2>4, <2>5, KeptOK
    <2>7. Announced(r, k, m)'
        <3>1. n \in Nat
            BY <1>5
        <3> QED
            BY <1>4, <1>11, <1>12, <2>4, <2>5, <3>1, StillAnnounced
    <2>8. Intact(r)'
        BY <1>4, <2>5 DEF Intact, Damaged, short_xpad
    <2> QED
        BY <1>4, <2>2, <2>3, <2>6, <2>7, <2>8 DEF Following, Synced, Owned, Announced, Intact
<1>15. /\ Ahead' = RxNext(Ahead, PAD', N + 1) /\ PADFields'
       /\ PAD'.subfields[N + 1] = PieceOf(dg, len)
       /\ cis' # <<>> => PAD'.cis[N + 1] = ci
       /\ subfields_size' \in Nat
    <2>1. subfields_size' \in Nat
        BY <1>4, <1>6 DEF PADTypes
    <2>2. \/ cis = <<>> /\ cis' = <<>>
          \/ cis' = Append(cis, ci) /\ subfields_size' > 0
        <3>1. WithCI(len, ci) => subfields_size' > 0
            BY <1>4, <1>6 DEF PADTypes, WithCI
        <3> QED
            BY <1>2, <3>1 DEF WithoutCI, WithCI
    <2> QED
        BY <1>4, <1>6, <2>1, <2>2, AheadGrows DEF N
<1>16. PICK r : r = Ahead
    OBVIOUS
<1>17. PICK s : s = Ahead'
    OBVIOUS
<1>18. /\ IsReceiver(s) /\ Synced(s, hit)' /\ Owned(s, hit)' /\ Intact(s)'
       /\ dg.app = DLS => s.length = r.length
       /\ ~short_xpad /\ dg.app = DGLI => s.length = dg.payload
       /\ \/ s.last = Channel(dg.app.start)
          \/ Of(dg) \in hit /\ (s.last # "none" => <<s.last, s.buffer[s.last].payload>> \in Damaged(hit))
       /\ Gets(s, r, dg, len)
    <2>1. Synced(r, hit) /\ Owned(r, hit) /\ Announced(r, hit, n) /\ Intact(r) /\ IsReceiver(r)
        BY <1>3, <1>4, <1>16 DEF Following
    <2> DEFINE piece == PieceOf(dg, len)
    <2>2. piece.app = AppType(dg) /\ piece.len = len /\ Channel(piece.app) = Channel(dg.app.start)
        BY <1>5, AppChannels DEF PieceOf
    <2> HIDE DEF piece
    <2>3. ASSUME NEW begins \in BOOLEAN, s = RxSubField(r, Channel(dg.app.start), begins, piece),
                 begins => dg.written = 0 \/ (short_xpad /\ dg.app = DGLI),
                 ~begins => dg \in Partial,
                 ~short_xpad /\ dg.app = DGLI => begins
          PROVE  /\ IsReceiver(s) /\ Synced(s, hit)' /\ Owned(s, hit)' /\ Intact(s)'
                 /\ dg.app = DLS => s.length = r.length
                 /\ ~short_xpad /\ dg.app = DGLI => s.length = dg.payload
                 /\ s.last = Channel(dg.app.start) /\ Gets(s, r, dg, len)
        <3>1. ~short_xpad /\ dg.app = MOT /\ begins => r.length = dg.payload \/ Of(dg) \in hit
            <4> SUFFICES ASSUME ~short_xpad, dg.app = MOT, begins
                         PROVE  r.length = dg.payload \/ Of(dg) \in hit
                OBVIOUS
            <4>1. MOT # DGLI /\ MOT # DLS
                BY DEF MOT, DGLI, DLS
            <4>2. dg.written = 0
                BY <2>3, <4>1
            <4>3. n = 0
                BY <1>3, <1>5, <4>1 DEF SlideAfter
            <4> QED
                BY <1>5, <2>1, <4>2, <4>3 DEF Announced
        <3> DEFINE c == Channel(dg.app.start)
        <3>2. Takes(s, r, dg, len, c, begins)
            BY <1>5, <2>1, <2>3, Taking DEF piece
        <3>3. /\ Synced(s, hit)' /\ Owned(s, hit)' /\ Intact(s)'
              /\ s.length = IF ~short_xpad /\ c = "dgli" THEN dg.payload
                            ELSE IF c # "dgli" THEN r.length ELSE s.length
              /\ Gets(s, r, dg, len)
            BY <1>4, <1>5, <1>7, <1>9, <1>12, <2>1, <2>3, <3>1, TakenOK DEF piece
        <3>4. (dg.app = DLS => c # "dgli") /\ (dg.app = DGLI => c = "dgli")
            BY <1>5, AppChannels
        <3> HIDE DEF c
        <3> QED
            BY <3>2, <3>3, <3>4 DEF Takes, c
    <2>4. CASE WithoutCI(len)
        <3>1. r = rx /\ dg \in Partial /\ (~short_xpad => dg.app # DGLI)
            BY <1>7, <1>8, <1>16, <2>4
        <3>2. ~PAD'.ci_flag
            BY <1>15, <2>4 DEF PADFields, WithoutCI
        <3>3. s = IF r.last = Channel(dg.app.start) /\ r.size = len
                  THEN RxSubField(r, r.last, FALSE, piece) ELSE Spoil(r, r.last, piece)
            BY <1>15, <1>16, <1>17, <2>2, <3>2 DEF RxNext, piece
        <3>4. CASE r.last = Channel(dg.app.start) /\ r.size = len
            BY <2>3, <3>1, <3>3, <3>4
        <3>5. CASE ~(r.last = Channel(dg.app.start) /\ r.size = len)
            <4>1. Confused(r, dg) /\ s = Spoil(r, r.last, PieceOf(dg, len))
                BY <1>8, <2>4, <3>1, <3>3, <3>5 DEF piece
            <4>2. /\ IsReceiver(s) /\ s.length = r.length
                  /\ Synced(s, hit)' /\ Owned(s, hit)' /\ Intact(s)'
                  /\ s.last # "none" => <<s.last, s.buffer[s.last].payload>> \in Damaged(hit)
                  /\ Gets(s, r, dg, len)
                BY <1>4, <1>5, <1>7, <1>12, <2>1, <3>1, <4>1, SpoiltOK
            <4> QED
                BY <3>1, <4>1, <4>2 DEF Confused
        <3> QED
            BY <3>4, <3>5
    <2>5. CASE WithCI(len, ci)
        <3>1. cis' # <<>> /\ subfields_size' > 0 /\ short_xpad' = short_xpad
            <4>1. cis \in Seq(Range(cis) \cup {ci})
                BY <1>4, SeqMonotonic DEF PADTypes
            <4>2. cis' # <<>>
                BY <2>5, <4>1 DEF WithCI
            <4>3. subfields_size' > 0
                BY <1>4, <1>6, <2>5 DEF PADTypes, WithCI
            <4> QED
                BY <1>4, <4>2, <4>3 DEF short_xpad
        <3>2. /\ PAD'.ci_flag /\ PAD'.xpad = IF short_xpad THEN "short" ELSE "variable"
              /\ PAD'.cis[N + 1].type = AppType(dg)
              /\ len = IF short_xpad THEN 3 ELSE SUBFIELD_LENS[PAD'.cis[N + 1].len_index]
            <4>1. PAD'.ci_flag /\ PAD'.xpad = IF short_xpad THEN "short" ELSE "variable"
                BY <1>15, <3>1 DEF PADFields
            <4>2. PAD'.cis[N + 1] = ci
                BY <1>15, <3>1
            <4> QED
                BY <2>5, <4>1, <4>2 DEF WithCI
        <3>3. s = RxSubField(r, Channel(dg.app.start), AppType(dg) \in {1, 2, 12}, piece)
            BY <1>15, <1>16, <1>17, <2>2, <3>2 DEF RxNext, piece
        <3>4. /\ AppType(dg) \in {1, 2, 12} => dg.written = 0 \/ dg.app = DGLI
              /\ AppType(dg) \notin {1, 2, 12} => dg.written > 0
              /\ dg.app = DGLI => AppType(dg) \in {1, 2, 12}
            BY <1>5, AppChannels
        <3>5. PICK begins \in BOOLEAN : begins <=> AppType(dg) \in {1, 2, 12}
            OBVIOUS
        <3>6. s = RxSubField(r, Channel(dg.app.start), begins, piece)
            BY <3>3, <3>5
        <3> QED
            BY <1>5, <1>7, <2>3, <3>4, <3>5, <3>6
    <2> QED
        BY <1>2, <2>4, <2>5
<1>19. Following(Ahead, hit, m)'
    <2>1. Announced(s, hit, m)'
        <3>1. PICK h : h = hit
            OBVIOUS
        <3>2. Announced(r, h, n)
            BY <1>3, <1>16, <3>1 DEF Following
        <3>3. Announced(s, h, m)'
            <4>1. n \in Nat
                BY <1>5
            <4> QED
                BY <1>4, <1>11, <1>12, <1>18, <3>2, <4>1, StillAnnounced
        <3> QED
            BY <1>4, <3>1, <3>3 DEF Announced
    <2> QED
        BY <1>17, <1>18, <2>1 DEF Following, Synced, Owned, Announced, Intact
<1>20. IsReceiver(Ahead)'
    BY <1>17, <1>18 DEF IsReceiver
<1>21. Continued(Ahead)'
    <2> SUFFICES ASSUME last_ci_type' # -1 PROVE Continued(Ahead)'
        BY DEF Continued
    <2>1. ~Exhausted(dg, len) /\ last_ci_type' = dg.app.cont
        BY <1>6
    <2>2. PICK e : e = Rest(dg, len)
        OBVIOUS
    <2>3. e \in Partial' /\ e.app = dg.app /\ Of(e) = Of(dg)
        BY <1>5, <1>12, <2>2, <2>1, RestOf DEF Replaced
    <2>4. Channel(e.app.start) = Channel(dg.app.start)
        BY <2>3
    <2>5. subfields' # <<>>
        <3>1. subfields \in Seq(Range(subfields) \cup {PieceOf(dg, len)})
            BY <1>4, SeqMonotonic DEF PADTypes
        <3> QED
            BY <1>6, <3>1
    <2>6. s.last = Channel(e.app.start) \/ Confused(s, e)'
        <3>1. Damaged(hit)' = Damaged(hit) /\ Of(e)' = Of(e)
            BY <1>4 DEF Damaged, Of
        <3> QED
            BY <1>4, <1>18, <2>3, <2>4 DEF Confused, Damaged, Of
    <2>7. Ahead'.last = Channel(e.app.start) \/ Confused(Ahead, e)'
        BY <1>17, <2>6 DEF Confused, Damaged, Of
    <2>8. Of(e) \in Pending' /\ e.app.cont = last_ci_type'
        BY <1>13, <2>1, <2>3
    <2> QED
        BY <2>3, <2>5, <2>7, <2>8 DEF Continued, Of
<1>22. LinkTypes'
    <2>1. PADTypes'
        <3>1. subfields' \in Seq(Range(subfields')) /\ Len(subfields') = N + 1 /\ subfields' # <<>>
            <4>1. subfields \in Seq(Range(subfields) \cup {PieceOf(dg, len)})
                BY <1>4, SeqMonotonic DEF PADTypes
            <4>2. subfields' \in Seq(Range(subfields) \cup {PieceOf(dg, len)}) /\ Len(subfields') = N + 1
                BY <1>5, <1>6, <4>1 DEF N
            <4> QED
                BY <1>5, <4>2, OwnElements, EmptySeq
        <3>2. /\ subfields_size' \in Nat /\ xpad_size' \in Nat /\ last_ci_size' \in Nat
              /\ subfields_size \in Nat
            BY <1>1, <1>4, <1>15 DEF PADTypes
        <3>3. CASE WithoutCI(len)
            <4>1. cis' = <<>> /\ pc' = "flush" /\ Len(subfields') = 1
                BY <1>8, <3>1, <3>3 DEF WithoutCI, N
            <4>2. cis' \in Seq(Range(cis'))
                BY <4>1, EmptySeq
            <4> QED
                BY <3>1, <3>2, <4>1, <4>2 DEF PADTypes
        <3>4. CASE WithCI(len, ci)
            <4>1. cis \in Seq(Range(cis) \cup {ci}) /\ Len(cis) = N
                BY <1>4, SeqMonotonic DEF PADTypes, N
            <4>2. cis' \in Seq(Range(cis) \cup {ci}) /\ Len(cis') = N + 1
                BY <3>4, <4>1 DEF WithCI
            <4>3. cis' \in Seq(Range(cis'))
                BY <4>2, OwnElements
            <4>4. subfields_size' > 0
                BY <1>6, <3>2, <3>4 DEF WithCI
            <4>5. pc' \in {"fill", "flush"}
                BY <3>4 DEF WithCI
            <4> QED
                BY <3>1, <3>2, <4>2, <4>3, <4>4, <4>5 DEF PADTypes
        <3> QED
            BY <1>2, <3>3, <3>4
    <2> QED
        BY <1>4, <1>12, <2>1 DEF LinkTypes, IsReceiver
<1>23. Filled(len)
    BY <1>4, <1>6, <1>10, <1>13, <1>16, <1>17, <1>18 DEF Filled
<1> QED
    BY <1>11, <1>14, <1>19, <1>20, <1>21, <1>22, <1>23 DEF LinkInv

-----------------------------------------------------------------------------
(***************************************************************************)
(* The encoders.                                                           *)
(***************************************************************************)
\* Between two PADs the receiver is where it will be.
LEMMA BetweenPADs ==
    ASSUME PADTypes, subfields = <<>>
    PROVE  Ahead = rx /\ Pending = {}
<1>1. PAD.subfields = subfields
    BY DEF PAD
<1>2. Len(PAD.subfields) = 0
    BY <1>1
<1>3. Len(subfields) = 0
    OBVIOUS
<1> QED
    BY <1>2, <1>3, RxEmpty DEF Ahead, Pending

\* New data groups are queued; none of them has been begun.
LEMMA QueueGrows ==
    ASSUME LinkInv, pc = "idle",
           UNCHANGED <<pad_size, xpad_size, subfields, subfields_size, cis, last_ci_type,
                       last_ci_size, pc, hit, rx>>,
           sent' \in [Channels -> Seq(Nat)], queue' \in Seq(DGTypes),
           \A i \in 1 .. Len(queue') : queue'[i].written < queue'[i].size,
           Partial' = Partial,
           NEW n \in 0 .. Len(queue), Following(rx, hit \cup Pending, n), Following(Ahead, hit, n),
           NEW m \in 0 .. Len(queue'), SlideAfter(m)',
           m < Len(queue') => \/ queue'[m + 1].app # MOT
                              \/ n < Len(queue) /\ queue'[m + 1] = queue[n + 1]
    PROVE  LinkInv'
<1>1. Ahead' = Ahead /\ Pending' = Pending /\ short_xpad' = short_xpad
    BY DEF Ahead, Pending, PAD, LaidOut, used_cis, short_xpad, Hit
<1>2. PADTypes /\ PADTypes' /\ Ahead = rx /\ Pending = {}
    <2>1. PADTypes /\ subfields = <<>>
        BY DEF LinkInv, LinkTypes, PADTypes
    <2>2. PADTypes'
        BY <2>1 DEF PADTypes
    <2> QED
        BY <2>1, <2>2, BetweenPADs
<1>3. LinkTypes'
    BY <1>2 DEF LinkInv, LinkTypes, IsReceiver
<1>4. IsReceiver(Ahead)'
    BY <1>1 DEF LinkInv, IsReceiver
<1>5. PICK h : h = hit
    OBVIOUS
<1>6. Following(rx, h, n)
    BY <1>2, <1>5
<1>7. Following(rx, h, m)'
    <2>1. Synced(rx, h)'
        BY <1>6 DEF Following, Synced, Of
    <2>2. Owned(rx, h)'
        BY <1>1, <1>6 DEF Following, Owned, Of, Damaged
    <2>3. Announced(rx, h, m)'
        BY <1>1, <1>6 DEF Following, Announced, Of
    <2>4. Intact(rx)'
        BY <1>1, <1>6 DEF Following, Intact, Damaged
    <2> QED
        BY <2>1, <2>2, <2>3, <2>4 DEF Following
<1>8. Following(rx, hit \cup Pending, m)' /\ Following(Ahead, hit, m)'
    BY <1>1, <1>2, <1>5, <1>7 DEF Following, Synced, Owned, Announced
<1>9. Continued(Ahead)'
    BY <1>1 DEF LinkInv, Continued, Confused, Damaged, Of
<1> QED
    BY <1>3, <1>4, <1>8, <1>9 DEF LinkInv

\* Labels go in front of everything.
LEMMA EncodeLabelOK ==
    ASSUME LinkInv, NEW sizes \in Labels, EncodeLabel(sizes)
    PROVE  /\ LinkInv'
           /\ \A n \in 0 .. Len(queue) : SlideAfter(n) => n = 0
           /\ SlideAfter(Len(sizes))' /\ Len(queue') = Len(sizes) + Len(queue)
           /\ \A i \in 1 .. Len(sizes) : queue'[i].payload = Len(sent["dls"]) + i
           /\ \A i \in 1 .. Len(queue) : queue'[Len(sizes) + i] = queue[i]
<1> DEFINE next == Len(sent["dls"])
           L == Len(sizes)
           N == Len(queue)
           dgs == [i \in 1 .. L |-> DG(DLS, next + i, sizes[i])]
           ids == [i \in 1 .. L |-> next + i]
<1>1. /\ pc = "idle" /\ ~QueueContainsDG(DLS.start) /\ queue' = dgs \o queue
      /\ UNCHANGED <<pad_size, xpad_size, subfields, subfields_size, cis, last_ci_type,
                     last_ci_size, pc, hit, rx>>
      /\ sent' = [sent EXCEPT !["dls"] = @ \o ids]
    BY DEF EncodeLabel, AddDGs
<1>2. PICK n \in 0 .. Len(queue) :
          SlideAfter(n) /\ Following(rx, hit \cup Pending, n) /\ Following(Ahead, hit, n)
    BY DEF LinkInv
<1>3. /\ queue \in Seq(DGTypes) /\ \A i \in 1 .. N : queue[i].written < queue[i].size
      /\ N \in Nat /\ sent \in [Channels -> Seq(Nat)]
      /\ sizes \in Seq(Nat \ {0}) /\ L \in Nat /\ next \in Nat
      /\ \A i \in 1 .. L : sizes[i] \in Nat \ {0}
    BY LinkAssumption DEF LinkInv, LinkTypes, Channels
<1>4. ASSUME NEW i \in 1 .. L
      PROVE  /\ DG(DLS, next + i, sizes[i]) \in DGTypes
             /\ DG(DLS, next + i, sizes[i]).app = DLS
             /\ DG(DLS, next + i, sizes[i]).written = 0
             /\ 0 < DG(DLS, next + i, sizes[i]).size
    BY <1>3 DEF DG, DGTypes
<1>5. dgs \in Seq(DGTypes) /\ Len(dgs) = L
    <2>1. dgs \in [1 .. L -> DGTypes]
        BY <1>4
    <2> QED
        BY <1>3, <2>1
<1>6. /\ \A i \in 1 .. L : dgs[i].app = DLS /\ dgs[i].written = 0 /\ 0 < dgs[i].size
      /\ ids \in Seq(Nat)
    BY <1>3, <1>4
<1>7. \A i \in 1 .. L : dgs[i].payload = next + i
    BY DEF DG
<1> HIDE DEF dgs, ids, next, L, N
<1>8. /\ queue' \in Seq(DGTypes) /\ Len(queue') = L + N
      /\ \A i \in 1 .. L : queue'[i] = dgs[i]
      /\ \A i \in 1 .. N : queue'[L + i] = queue[i]
    <2>1. queue \in Seq(DGTypes) /\ N = Len(queue)
        BY <1>3 DEF N
    <2>2. /\ queue' \in Seq(DGTypes) /\ Len(queue') = L + N
          /\ \A i \in 1 .. L + N : queue'[i] = IF i <= L THEN dgs[i] ELSE queue[i - L]
        BY <1>1, <1>5, <2>1, ConcatProperties
    <2>3. \A i \in 1 .. N : L + i \in 1 .. L + N /\ ~(L + i <= L) /\ (L + i) - L = i
        BY <1>3
    <2>4. \A i \in 1 .. L : i \in 1 .. L + N /\ i <= L
        BY <1>3
    <2> QED
        BY <2>2, <2>3, <2>4
<1>9. sent' \in [Channels -> Seq(Nat)]
    BY <1>1, <1>3, <1>6 DEF Channels
<1>10. ASSUME NEW k \in 0 .. Len(queue), SlideAfter(k) PROVE k = 0
    <2> SUFFICES ASSUME k # 0 PROVE FALSE
        OBVIOUS
    <2>1. 1 \in 1 .. k /\ 1 \in 1 .. N
        BY <1>3 DEF N
    <2>2. queue[1].app.start = DLS.start
        BY <1>10, <2>1 DEF SlideAfter
    <2> QED
        BY <1>1, <2>1, <2>2 DEF QueueContainsDG, N
<1>11. n = 0
    BY <1>2, <1>10
<1>12. \A j \in 1 .. L + N : j \in 1 .. L \/ \E i \in 1 .. N : j = L + i
    <2> SUFFICES ASSUME NEW j \in 1 .. L + N, j \notin 1 .. L PROVE \E i \in 1 .. N : j = L + i
        OBVIOUS
    <2>1. j - L \in 1 .. N /\ j = L + (j - L)
        BY <1>3
    <2> QED
        BY <2>1
<1>13. Begun' = {L + i : i \in Begun}
    <2>1. \A i \in 1 .. L : i \notin Begun'
        BY <1>6, <1>8 DEF Begun
    <2>2. \A i \in 1 .. N : L + i \in 1 .. L + N /\ (L + i \in Begun' <=> i \in Begun)
        BY <1>3, <1>8 DEF Begun, N
    <2>3. Begun \subseteq 1 .. N /\ Begun' \subseteq 1 .. L + N
        BY <1>8 DEF Begun, N
    <2>4. \A j \in Begun' : \E i \in Begun : j = L + i
        BY <1>12, <2>1, <2>2, <2>3
    <2>5. \A i \in Begun : L + i \in Begun'
        BY <2>2, <2>3
    <2> QED
        BY <2>4, <2>5
<1>14. Partial' = Partial
    <2>1. \A i \in Begun : queue'[L + i] = queue[i]
        BY <1>8 DEF Begun, N
    <2> QED
        BY <1>13, <2>1 DEF Partial
<1>15. SlideAfter(L)'
    <2>1. \A i \in 1 .. L : queue'[i].app = DLS
        BY <1>6, <1>8
    <2>2. \A j \in L + 1 .. L + N :
              /\ queue'[j].app = IF ((L + N) - j) % 2 = 0 THEN MOT ELSE DGLI
              /\ queue'[j].app = DGLI =>
                    queue'[j].size = DGLI_SIZE /\ queue'[j + 1].payload = queue'[j].payload
        <3> SUFFICES ASSUME NEW j \in L + 1 .. L + N
                     PROVE  /\ queue'[j].app = IF ((L + N) - j) % 2 = 0 THEN MOT ELSE DGLI
                            /\ queue'[j].app = DGLI =>
                                  /\ queue'[j].size = DGLI_SIZE
                                  /\ queue'[j + 1].payload = queue'[j].payload
            OBVIOUS
        <3>1. PICK i \in 1 .. N : j = L + i /\ (L + N) - j = N - i
            <4>1. j - L \in 1 .. N /\ j = L + (j - L) /\ (L + N) - j = N - (j - L)
                BY <1>3
            <4> QED
                BY <4>1
        <3>2. /\ queue[i].app = IF (N - i) % 2 = 0 THEN MOT ELSE DGLI
              /\ queue[i].app = DGLI =>
                    queue[i].size = DGLI_SIZE /\ queue[i + 1].payload = queue[i].payload
            BY <1>2, <1>3, <1>11 DEF SlideAfter, N
        <3>3. queue[i].app = DGLI => i + 1 \in 1 .. N
            <4>1. i = N => (N - i) % 2 = 0
                BY <1>3
            <4>2. MOT # DGLI
                BY DEF MOT, DGLI
            <4> QED
                BY <1>3, <3>2, <4>1, <4>2
        <3>4. i + 1 \in 1 .. N => queue'[j + 1] = queue[i + 1]
            <4>1. j + 1 = L + (i + 1)
                BY <1>3, <3>1
            <4> QED
                BY <1>8, <4>1
        <3> QED
            BY <1>8, <3>1, <3>2, <3>3, <3>4
    <2>3. Begun' \subseteq {1, L + 1}
        BY <1>2, <1>11, <1>13 DEF SlideAfter
    <2>4. ~short_xpad' => \A i \in Begun' : queue'[i].app # DGLI
        <3>1. ~short_xpad => \A i \in Begun : i \in 1 .. N /\ queue[i].app # DGLI
            BY <1>2 DEF SlideAfter, Begun, N
        <3>2. short_xpad' = short_xpad
            BY <1>1 DEF short_xpad
        <3> QED
            BY <1>8, <1>13, <3>1, <3>2
    <2> QED
        BY <1>8, <2>1, <2>2, <2>3, <2>4 DEF SlideAfter
<1>16. \A i \in 1 .. Len(queue') : queue'[i].written < queue'[i].size
    <2> SUFFICES ASSUME NEW j \in 1 .. L + N PROVE queue'[j].written < queue'[j].size
        BY <1>8
    <2>1. CASE j \in 1 .. L
        BY <1>6, <1>8, <2>1
    <2>2. CASE j \notin 1 .. L
        <3>1. PICK i \in 1 .. N : j = L + i
            BY <1>12, <2>2
        <3> QED
            BY <1>3, <1>8, <3>1
    <2> QED
        BY <2>1, <2>2
<1>17. L \in 0 .. Len(queue') /\ (L < Len(queue') => n < Len(queue) /\ queue'[L + 1] = queue[n + 1])
    BY <1>3, <1>8, <1>11 DEF N
<1>18. LinkInv'
    BY <1>1, <1>2, <1>8, <1>9, <1>14, <1>15, <1>16, <1>17, QueueGrows
<1> QED
    BY <1>8, <1>15, <1>7, <1>10, <1>18 DEF L, N, next

LEMMA Halved ==
    ASSUME NEW n \in Nat, NEW i \in 1 .. 2 * n
    PROVE  \E k \in Nat : k < n /\ (i = 2 * k + 1 \/ i = 2 * k + 2)
<1> DEFINE k == (i - 1) \div 2
<1>1. k \in Nat /\ k < n /\ (i = 2 * k + 1 \/ i = 2 * k + 2)
    OBVIOUS
<1> QED
    BY <1>1

\* Slides go behind everything, each data group behind its length indicator.
LEMMA EncodeSlideOK ==
    ASSUME LinkInv, NEW sizes \in Slides, EncodeSlide(sizes)
    PROVE  /\ LinkInv'
           /\ \A n \in 0 .. Len(queue) : SlideAfter(n) => n = Len(queue) /\ SlideAfter(n)'
           /\ Len(queue') = Len(queue) + 2 * Len(sizes)
           /\ \A i \in 1 .. Len(queue) : queue'[i] = queue[i]
           /\ \A i \in 1 .. 2 * Len(sizes) :
                 queue'[Len(queue) + i].payload = Len(sent["mot"]) + (i + 1) \div 2
<1> DEFINE next == Len(sent["mot"])
           L == 2 * Len(sizes)
           N == Len(queue)
           dgs == [i \in 1 .. L |->
                     IF i % 2 = 1
                     THEN DG(DGLI, next + (i + 1) \div 2, DGLI_SIZE)
                     ELSE DG(MOT, next + i \div 2, sizes[i \div 2])]
           ids == [i \in 1 .. Len(sizes) |-> next + i]
<1>1. /\ pc = "idle" /\ ~QueueContainsDG(MOT.start) /\ queue' = queue \o dgs
      /\ UNCHANGED <<pad_size, xpad_size, subfields, subfields_size, cis, last_ci_type,
                     last_ci_size, pc, hit, rx>>
      /\ sent' = [sent EXCEPT !["mot"] = @ \o ids]
    BY DEF EncodeSlide, AddDGs
<1>2. PICK n \in 0 .. Len(queue) :
          SlideAfter(n) /\ Following(rx, hit \cup Pending, n) /\ Following(Ahead, hit, n)
    BY DEF LinkInv
<1>3. /\ queue \in Seq(DGTypes) /\ \A i \in 1 .. N : queue[i].written < queue[i].size
      /\ N \in Nat /\ sent \in [Channels -> Seq(Nat)]
      /\ sizes \in Seq(Nat \ {0}) /\ Len(sizes) \in Nat /\ L \in Nat /\ next \in Nat
      /\ \A i \in 1 .. Len(sizes) : sizes[i] \in Nat \ {0}
    BY LinkAssumption DEF LinkInv, LinkTypes, Channels
<1>4. ASSUME NEW k \in Nat, NEW size \in Nat \ {0}, NEW app \in {DGLI, DLS, MOT}
      PROVE  /\ DG(app, next + k + 1, size) \in DGTypes
             /\ DG(app, next + k + 1, size).app = app
             /\ DG(app, next + k + 1, size).payload = next + k + 1
             /\ DG(app, next + k + 1, size).written = 0
             /\ DG(app, next + k + 1, size).size = size
    BY <1>3 DEF DG, DGTypes
<1>5. ASSUME NEW k \in Nat, k < Len(sizes)
      PROVE  /\ 2 * k + 1 \in 1 .. L /\ 2 * k + 2 \in 1 .. L
             /\ dgs[2 * k + 1] = DG(DGLI, next + k + 1, DGLI_SIZE)
             /\ dgs[2 * k + 2] = DG(MOT, next + k + 1, sizes[k + 1])
             /\ k + 1 \in 1 .. Len(sizes)
    <2>1. 2 * k + 1 \in 1 .. L /\ 2 * k + 2 \in 1 .. L /\ k + 1 \in 1 .. Len(sizes)
        BY <1>3, <1>5
    <2>2. /\ (2 * k + 1) % 2 = 1 /\ ((2 * k + 1) + 1) \div 2 = k + 1
          /\ (2 * k + 2) % 2 = 0 /\ (2 * k + 2) \div 2 = k + 1
        OBVIOUS
    <2>3. next \in Nat
        BY <1>3
    <2> HIDE DEF next, L
    <2>4. next + (k + 1) = next + k + 1
        BY <2>3
    <2>5. /\ dgs[2 * k + 1] = DG(DGLI, next + (k + 1), DGLI_SIZE)
          /\ dgs[2 * k + 2] = DG(MOT, next + (k + 1), sizes[k + 1])
        BY <2>1, <2>2
    <2> QED
        BY <2>1, <2>4, <2>5
<1>6. \A i \in 1 .. L : \E k \in Nat : k < Len(sizes) /\ (i = 2 * k + 1 \/ i = 2 * k + 2)
    <2> SUFFICES ASSUME NEW i \in 1 .. L
                 PROVE  \E k \in Nat : k < Len(sizes) /\ (i = 2 * k + 1 \/ i = 2 * k + 2)
        OBVIOUS
    <2>1. Len(sizes) \in Nat /\ i \in 1 .. 2 * Len(sizes)
        BY <1>3
    <2> QED
        BY <2>1, Halved
<1>7. ASSUME NEW i \in 1 .. L
      PROVE  /\ dgs[i] \in DGTypes /\ dgs[i].written = 0 /\ dgs[i].size > 0
             /\ dgs[i].app = IF (L - i) % 2 = 0 THEN MOT ELSE DGLI
             /\ dgs[i].app = DGLI => dgs[i].size = DGLI_SIZE
             /\ dgs[i].app = DGLI => i + 1 \in 1 .. L /\ dgs[i + 1].payload = dgs[i].payload
             /\ dgs[i].payload = next + (i + 1) \div 2
    <2>1. PICK k \in Nat : k < Len(sizes) /\ (i = 2 * k + 1 \/ i = 2 * k + 2)
        BY <1>6
    <2> DEFINE di == DG(DGLI, next + k + 1, DGLI_SIZE)
               dm == DG(MOT, next + k + 1, sizes[k + 1])
    <2>2. /\ 2 * k + 1 \in 1 .. L /\ 2 * k + 2 \in 1 .. L
          /\ dgs[2 * k + 1] = di /\ dgs[2 * k + 2] = dm
          /\ k + 1 \in 1 .. Len(sizes)
        BY <1>5, <2>1
    <2>3. DGLI_SIZE \in Nat \ {0} /\ sizes[k + 1] \in Nat \ {0}
        BY <1>3, <2>2 DEF DGLI_SIZE
    <2>4. /\ di \in DGTypes /\ di.app = DGLI /\ di.payload = next + k + 1
          /\ di.written = 0 /\ di.size = DGLI_SIZE
          /\ dm \in DGTypes /\ dm.app = MOT /\ dm.payload = next + k + 1
          /\ dm.written = 0 /\ dm.size = sizes[k + 1]
        BY <1>4, <2>3
    <2>5. /\ (L - (2 * k + 1)) % 2 = 1 /\ (L - (2 * k + 2)) % 2 = 0
          /\ (2 * k + 1) + 1 = 2 * k + 2
        BY <1>3
    <2>6. MOT # DGLI
        BY DEF MOT, DGLI
    <2>7. /\ ((2 * k + 1) + 1) \div 2 = k + 1 /\ ((2 * k + 2) + 1) \div 2 = k + 1
          /\ next + (k + 1) = next + k + 1
        <3>1. next \in Nat
            BY <1>3
        <3> HIDE DEF next
        <3> QED
            BY <3>1
    <2> HIDE DEF dgs, di, dm, L, next
    <2>8. CASE i = 2 * k + 1
        BY <2>2, <2>3, <2>4, <2>5, <2>8, <2>7
    <2>9. CASE i = 2 * k + 2
        BY <2>2, <2>3, <2>4, <2>5, <2>6, <2>9, <2>7
    <2> QED
        BY <2>1, <2>8, <2>9
<1>8. dgs \in Seq(DGTypes) /\ Len(dgs) = L
    <2>1. dgs \in [1 .. L -> DGTypes]
        <3>1. dgs = [i \in 1 .. L |-> dgs[i]]
            OBVIOUS
        <3> HIDE DEF dgs
        <3> QED
            BY <1>7, <3>1
    <2> HIDE DEF dgs
    <2> QED
        <3>1. L \in Nat
            BY <1>3
        <3> HIDE DEF L
        <3> QED
            BY <2>1, <3>1
<1>9. ids \in Seq(Nat)
    BY <1>3
<1> HIDE DEF dgs, ids, next, L, N
<1>10. /\ queue' \in Seq(DGTypes) /\ Len(queue') = N + L
       /\ \A i \in 1 .. N : queue'[i] = queue[i]
       /\ \A i \in 1 .. L : queue'[N + i] = dgs[i]
    <2>1. queue \in Seq(DGTypes) /\ N = Len(queue)
        BY <1>3 DEF N
    <2>2. /\ queue' \in Seq(DGTypes) /\ Len(queue') = N + L
          /\ \A i \in 1 .. N + L : queue'[i] = IF i <= N THEN queue[i] ELSE dgs[i - N]
        BY <1>1, <1>8, <2>1, ConcatProperties
    <2>3. \A i \in 1 .. L : N + i \in 1 .. N + L /\ ~(N + i <= N) /\ (N + i) - N = i
        BY <1>3
    <2>4. \A i \in 1 .. N : i \in 1 .. N + L /\ i <= N
        BY <1>3
    <2> QED
        BY <2>2, <2>3, <2>4
<1>11. sent' \in [Channels -> Seq(Nat)]
    BY <1>1, <1>3, <1>9 DEF Channels
<1>12. ASSUME NEW k \in 0 .. Len(queue), SlideAfter(k) PROVE k = N
    <2> SUFFICES ASSUME k # N PROVE FALSE
        OBVIOUS
    <2>1. N \in k + 1 .. N /\ N \in 1 .. N /\ (N - N) % 2 = 0
        BY <1>3 DEF N
    <2>2. queue[N].app.start = MOT.start
        BY <1>12, <2>1 DEF SlideAfter, N
    <2> QED
        BY <1>1, <2>1, <2>2 DEF QueueContainsDG, N
<1>13. n = N
    BY <1>2, <1>12
<1>14. \A j \in 1 .. N + L : j \in 1 .. N \/ \E i \in 1 .. L : j = N + i
    <2> SUFFICES ASSUME NEW j \in 1 .. N + L, j \notin 1 .. N PROVE \E i \in 1 .. L : j = N + i
        OBVIOUS
    <2>1. j - N \in 1 .. L /\ j = N + (j - N)
        BY <1>3
    <2> QED
        BY <2>1
<1>15. Begun' = Begun /\ Begun \subseteq 1 .. N
    <2>1. \A i \in 1 .. L : N + i \notin Begun'
        BY <1>7, <1>10 DEF Begun
    <2>2. \A i \in 1 .. N : i \in 1 .. N + L /\ (i \in Begun' <=> i \in Begun)
        BY <1>3, <1>10 DEF Begun, N
    <2>3. Begun \subseteq 1 .. N /\ Begun' \subseteq 1 .. N + L
        BY <1>10 DEF Begun, N
    <2>4. \A j \in Begun' : j \in Begun
        BY <1>14, <2>1, <2>2, <2>3
    <2>5. \A i \in Begun : i \in Begun'
        BY <2>2, <2>3
    <2> QED
        BY <2>3, <2>4, <2>5
<1>16. Partial' = Partial
    BY <1>10, <1>15 DEF Partial
<1>17. SlideAfter(n)'
    <2>1. \A i \in 1 .. N : queue'[i].app = DLS
        BY <1>2, <1>10, <1>13 DEF SlideAfter
    <2>2. \A j \in N + 1 .. N + L :
              /\ queue'[j].app = IF ((N + L) - j) % 2 = 0 THEN MOT ELSE DGLI
              /\ queue'[j].app = DGLI =>
                    queue'[j].size = DGLI_SIZE /\ queue'[j + 1].payload = queue'[j].payload
        <3> SUFFICES ASSUME NEW j \in N + 1 .. N + L
                     PROVE  /\ queue'[j].app = IF ((N + L) - j) % 2 = 0 THEN MOT ELSE DGLI
                            /\ queue'[j].app = DGLI =>
                                  /\ queue'[j].size = DGLI_SIZE
                                  /\ queue'[j + 1].payload = queue'[j].payload
            OBVIOUS
        <3>1. PICK i \in 1 .. L : j = N + i /\ (N + L) - j = L - i
            <4>1. j - N \in 1 .. L /\ j = N + (j - N) /\ (N + L) - j = L - (j - N)
                BY <1>3
            <4> QED
                BY <4>1
        <3>2. /\ dgs[i].app = IF (L - i) % 2 = 0 THEN MOT ELSE DGLI
              /\ dgs[i].app = DGLI => dgs[i].size = DGLI_SIZE
              /\ dgs[i].app = DGLI => i + 1 \in 1 .. L /\ dgs[i + 1].payload = dgs[i].payload
            BY <1>7
        <3>3. i + 1 \in 1 .. L => queue'[j + 1] = dgs[i + 1]
            <4>1. j + 1 = N + (i + 1)
                BY <1>3, <3>1
            <4> QED
                BY <1>10, <4>1
        <3> QED
            BY <1>10, <3>1, <3>2, <3>3
    <2>3. Begun' \subseteq {1, N + 1}
        BY <1>2, <1>13, <1>15 DEF SlideAfter
    <2>4. ~short_xpad' => \A i \in Begun' : queue'[i].app # DGLI
        <3>1. ~short_xpad => \A i \in Begun : i \in 1 .. N /\ queue[i].app # DGLI
            BY <1>2 DEF SlideAfter, Begun, N
        <3>2. short_xpad' = short_xpad
            BY <1>1 DEF short_xpad
        <3> QED
            BY <1>10, <1>15, <3>1, <3>2
    <2> QED
        BY <1>10, <1>13, <2>1, <2>2, <2>3, <2>4 DEF SlideAfter
<1>18. \A i \in 1 .. Len(queue') : queue'[i].written < queue'[i].size
    <2> SUFFICES ASSUME NEW j \in 1 .. N + L PROVE queue'[j].written < queue'[j].size
        BY <1>10
    <2>1. CASE j \in 1 .. N
        BY <1>3, <1>10, <2>1
    <2>2. CASE j \notin 1 .. N
        <3>1. PICK i \in 1 .. L : j = N + i
            BY <1>14, <2>2
        <3>2. dgs[i].written = 0 /\ dgs[i].size > 0 /\ dgs[i] \in DGTypes
            BY <1>7
        <3> QED
            BY <1>10, <3>1, <3>2 DEF DGTypes
    <2> QED
        BY <2>1, <2>2
<1>19. n \in 0 .. Len(queue') /\ (n < Len(queue') => queue'[n + 1].app # MOT)
    <2>1. N < N + L => queue'[N + 1] = dgs[1] /\ dgs[1].app = DGLI
        <3> SUFFICES ASSUME N < N + L PROVE queue'[N + 1] = dgs[1] /\ dgs[1].app = DGLI
            OBVIOUS
        <3>1. 1 \in 1 .. L
            BY <1>3
        <3>2. (L - 1) % 2 # 0
            BY <1>3 DEF L
        <3> QED
            BY <1>7, <1>10, <3>1, <3>2
    <2>2. MOT # DGLI
        BY DEF MOT, DGLI
    <2> QED
        BY <1>3, <1>10, <1>13, <2>1, <2>2
<1>20. LinkInv'
    BY <1>1, <1>2, <1>10, <1>11, <1>16, <1>17, <1>18, <1>19, QueueGrows
<1> QED
    BY <1>7, <1>10, <1>13, <1>17, <1>12, <1>20 DEF L, N, next

-----------------------------------------------------------------------------
(***************************************************************************)
(* PADs: asked for, received, or lost.                                     *)
(***************************************************************************)
LEMMA SamePADs ==
    ASSUME LinkInv,
           UNCHANGED <<pad_size, queue, xpad_size, subfields, subfields_size, cis, last_ci_type,
                       last_ci_size, sent, hit, rx>>,
           pc' = pc \/ (pc = "idle" /\ pc' \in {"fill", "flush"})
    PROVE  LinkInv'
<1>1. /\ UNCHANGED <<pad_size, queue, xpad_size, subfields, subfields_size, cis, last_ci_type,
                     last_ci_size, sent, hit, rx>>
      /\ pc' = pc \/ (pc = "idle" /\ pc' \in {"fill", "flush"})
    OBVIOUS
<1>2. Ahead' = Ahead /\ Pending' = Pending /\ short_xpad' = short_xpad
    BY <1>1 DEF Ahead, Pending, PAD, LaidOut, used_cis, short_xpad, Hit
<1>3. PADTypes /\ PADTypes'
    BY <1>1 DEF LinkInv, LinkTypes, PADTypes
<1>4. LinkTypes'
    BY <1>1, <1>3 DEF LinkInv, LinkTypes, IsReceiver
<1>5. IsReceiver(Ahead)'
    BY <1>2 DEF LinkInv, IsReceiver
<1>6. Partial' = Partial /\ Begun' = Begun
    BY <1>1 DEF Partial, Begun
<1>7. PICK n \in 0 .. Len(queue) :
          SlideAfter(n) /\ Following(rx, hit \cup Pending, n) /\ Following(Ahead, hit, n)
    BY DEF LinkInv
<1>8. SlideAfter(n)'
    BY <1>1, <1>2, <1>6, <1>7 DEF SlideAfter
<1>9. /\ Following(rx, hit \cup Pending, n)'
      /\ Following(Ahead, hit, n)'
    BY <1>1, <1>2, <1>6, <1>7 DEF Following, Synced, Owned, Announced, Intact, Damaged, Of
<1>10. Continued(Ahead)'
    BY <1>1, <1>2, <1>6 DEF LinkInv, Continued, Confused, Damaged, Of
<1> QED
    BY <1>1, <1>4, <1>5, <1>7, <1>8, <1>9, <1>10 DEF LinkInv

\* What is left of the packetizer when it has yielded a PAD.
Flushed ==
    /\ UNCHANGED <<pad_size, queue>> /\ PADTypes'
    /\ subfields' = <<>> /\ last_ci_size' = xpad_size
    /\ last_ci_type' # -1 => /\ last_ci_type' = last_ci_type /\ subfields_size > 0
                             /\ subfields # <<>>
    /\ Pending' = {} /\ Partial' = Partial /\ short_xpad' = short_xpad
    /\ \A n \in 0 .. Len(queue) : SlideAfter(n) => SlideAfter(n)'

LEMMA FlushOK ==
    ASSUME LinkInv, FlushPAD
    PROVE  Flushed /\ Ahead' = rx'
<1>1. /\ UNCHANGED <<pad_size, queue>> /\ subfields' = <<>> /\ last_ci_size' = xpad_size
      /\ subfields_size' = 0 /\ xpad_size' = 0 /\ cis' = <<>> /\ pc' = "idle"
      /\ last_ci_type' = IF subfields_size > 0 THEN last_ci_type ELSE -1
    BY DEF FlushPAD, ResetPAD
<1>2. PADTypes
    BY DEF LinkInv, LinkTypes
<1>3. PADTypes'
    BY <1>1, <1>2, EmptySeq DEF PADTypes
<1>4. Ahead' = rx' /\ Pending' = {}
    <2>1. PAD'.subfields = <<>>
        BY <1>1 DEF PAD
    <2>2. Len(PAD'.subfields) = 0 /\ Len(subfields') = 0
        BY <1>1, <2>1
    <2> QED
        BY <2>2, RxEmpty DEF Ahead, Pending
<1>5. Begun' = Begun /\ Partial' = Partial /\ short_xpad' = short_xpad
    BY <1>1 DEF Begun, Partial, short_xpad
<1>6. \A n \in 0 .. Len(queue) : SlideAfter(n) => SlideAfter(n)'
    BY <1>1, <1>5 DEF SlideAfter
<1>7. last_ci_type' # -1 => /\ last_ci_type' = last_ci_type /\ subfields_size > 0
                            /\ subfields # <<>>
    BY <1>1, <1>2 DEF PADTypes
<1> QED
    BY <1>1, <1>3, <1>4, <1>5, <1>6, <1>7 DEF Flushed

LEMMA TransmitOK ==
    ASSUME LinkInv, Transmit
    PROVE  LinkInv'
<1>1. Flushed /\ Ahead' = rx' /\ rx' = RxPAD(rx, PAD) /\ hit' = hit /\ sent' = sent
    BY FlushOK DEF Transmit
<1>2. PICK n \in 0 .. Len(queue) :
          SlideAfter(n) /\ Following(rx, hit \cup Pending, n) /\ Following(Ahead, hit, n)
    BY DEF LinkInv
<1>3. PICK r : r = Ahead
    OBVIOUS
<1>4. PICK s : s = rx'
    OBVIOUS
<1>5. /\ r = [last |-> r.last, size |-> r.size, buffer |-> r.buffer, length |-> r.length,
              broken |-> r.broken, unannounced |-> r.unannounced, got |-> r.got]
      /\ r.buffer = [c \in AllChannels |-> r.buffer[c]]
      /\ r.last \in AllChannels \cup {"none"}
    BY <1>3 DEF LinkInv, IsReceiver
<1>6. PADTypes /\ PADFields /\ xpad_size \in Nat
    BY PADIs DEF LinkInv, LinkTypes, PADTypes
<1>7. /\ s.buffer = r.buffer /\ s.length = r.length
      /\ s.broken = r.broken /\ s.unannounced = r.unannounced
      /\ s.size = xpad_size
      /\ s.last = r.last \/ (s.last = "none" /\ subfields_size = 0)
      /\ s = [last |-> s.last, size |-> s.size, buffer |-> s.buffer, length |-> s.length,
              broken |-> s.broken, unannounced |-> s.unannounced, got |-> s.got]
    <2> DEFINE used == PAD.used - FPAD_LEN
               last == IF PAD.xpad = "none" THEN "none" ELSE r.last
    <2>1. s = [[r EXCEPT !.size = used] EXCEPT !.last = last]
        BY <1>1, <1>3, <1>4, <1>5 DEF RxPAD, Ahead
    <2>2. used = xpad_size
        BY <1>6 DEF PADFields, FPAD_LEN
    <2>3. last = r.last \/ (last = "none" /\ subfields_size = 0)
        BY <1>6 DEF PADFields
    <2> HIDE DEF used, last
    <2>4. s = [last |-> last, size |-> used, buffer |-> r.buffer, length |-> r.length,
               broken |-> r.broken, unannounced |-> r.unannounced, got |-> r.got]
        BY <1>5, <2>1
    <2> QED
        BY <2>2, <2>3, <2>4
<1>8. IsReceiver(s)
    BY <1>5, <1>7 DEF IsReceiver
<1>9. IsReceiver(rx)' /\ IsReceiver(Ahead)'
    BY <1>1, <1>4, <1>8 DEF IsReceiver
<1>10. LinkTypes'
    BY <1>1, <1>9 DEF LinkInv, LinkTypes, Flushed
<1>11. Following(s, hit, n)'
    <2>1. Following(r, hit, n)
        BY <1>2, <1>3 DEF Following, Synced, Owned, Announced, Intact
    <2> QED
        BY <1>1, <1>7, <2>1 DEF Flushed, Following, Synced, Owned, Announced, Intact, Damaged, Of
<1>12. Following(rx, hit \cup Pending, n)' /\ Following(Ahead, hit, n)'
    BY <1>1, <1>4, <1>11 DEF Flushed, Following, Synced, Owned, Announced, Intact, Damaged
<1>13. Continued(Ahead)'
    <2> SUFFICES ASSUME last_ci_type' # -1 PROVE Continued(Ahead)'
        BY DEF Continued
    <2>1. last_ci_type' = last_ci_type /\ subfields_size > 0 /\ subfields # <<>>
        BY <1>1 DEF Flushed
    <2>2. PICK dg \in Partial :
              /\ dg.app.cont = last_ci_type
              /\ r.last = Channel(dg.app.start) \/ Confused(r, dg)
        BY <1>3, <2>1 DEF LinkInv, Continued, Confused, Of
    <2>3. s.last = r.last
        BY <1>6, <1>7, <2>1 DEF PADTypes
    <2>4. s.last = Channel(dg.app.start) \/ Confused(s, dg)'
        BY <1>1, <1>7, <2>2, <2>3 DEF Confused, Damaged, Of
    <2>5. Ahead'.last = Channel(dg.app.start) \/ Confused(Ahead, dg)'
        BY <1>1, <1>4, <2>4 DEF Confused, Damaged, Of
    <2>6. Ahead'.size = last_ci_size'
        BY <1>1, <1>4, <1>7 DEF Flushed
    <2>7. dg \in Partial' /\ dg.app.cont = last_ci_type' /\ subfields' = <<>>
        BY <1>1, <2>1, <2>2 DEF Flushed
    <2> QED
        BY <2>5, <2>6, <2>7 DEF Continued
<1> QED
    BY <1>1, <1>2, <1>9, <1>10, <1>12, <1>13 DEF LinkInv, Flushed

LEMMA LoseOK ==
    ASSUME LinkInv, Lose
    PROVE  LinkInv'
<1>1. /\ Flushed /\ Ahead' = rx' /\ rx' = rx /\ sent' = sent
      /\ hit' = hit \cup Pending
                    \cup IF rx.last = "none" THEN {}
                         ELSE {<<rx.last, rx.buffer[rx.last].payload>>}
    BY FlushOK DEF Lose
<1>2. PICK n \in 0 .. Len(queue) :
          SlideAfter(n) /\ Following(rx, hit \cup Pending, n) /\ Following(Ahead, hit, n)
    BY DEF LinkInv
<1>3. IsReceiver(rx)' /\ IsReceiver(Ahead)'
    BY <1>1 DEF LinkInv, LinkTypes, IsReceiver
<1>4. LinkTypes'
    BY <1>1, <1>3 DEF LinkInv, LinkTypes, Flushed
<1>5. hit \cup Pending \subseteq hit' /\ Damaged(hit \cup Pending) \subseteq Damaged(hit')
    BY <1>1 DEF Damaged
<1>6. Damaged(hit) \subseteq Damaged(hit')
    BY <1>1 DEF Damaged
<1>7. PICK k : k = hit'
    OBVIOUS
<1>8. Synced(rx, k)' /\ Owned(rx, k)' /\ Announced(rx, k, n)' /\ Intact(rx)'
    <2>1. Synced(rx, k)'
        BY <1>1, <1>2, <1>5, <1>7 DEF Flushed, Following, Synced, Of
    <2>2. Owned(rx, k)'
        BY <1>1, <1>2, <1>5, <1>7 DEF Flushed, Following, Owned, Of, Damaged
    <2>3. Announced(rx, k, n)'
        BY <1>1, <1>2, <1>5, <1>7 DEF Flushed, Following, Announced, Of
    <2>4. Intact(rx)'
        BY <1>1, <1>2, <1>5, <1>6 DEF Flushed, Following, Intact, Damaged
    <2> QED
        BY <2>1, <2>2, <2>3, <2>4
<1>9. Following(rx, hit \cup Pending, n)' /\ Following(Ahead, hit, n)'
    BY <1>1, <1>7, <1>8 DEF Flushed, Following, Synced, Owned, Announced, Intact, Damaged
<1>10. Continued(Ahead)'
    <2> SUFFICES ASSUME last_ci_type' # -1 PROVE Continued(Ahead)'
        BY DEF Continued
    <2>1. last_ci_type' = last_ci_type /\ subfields # <<>>
        BY <1>1 DEF Flushed
    <2>2. PICK dg \in Partial : dg.app.cont = last_ci_type /\ Of(dg) \in Pending
        BY <2>1 DEF LinkInv, Continued, Of
    <2>3. Confused(rx, dg)'
        BY <1>1, <2>2 DEF Confused, Damaged, Of
    <2> QED
        BY <1>1, <2>1, <2>2, <2>3 DEF Continued, Flushed, Confused, Damaged, Of
<1> QED
    BY <1>1, <1>2, <1>3, <1>4, <1>9, <1>10 DEF LinkInv, Flushed

-----------------------------------------------------------------------------
(***************************************************************************)
(* The invariant and what follows from it.                                 *)
(***************************************************************************)
LEMMA InitOK == LinkInit => LinkInv
<1> SUFFICES ASSUME LinkInit PROVE LinkInv
    OBVIOUS
<1>1. /\ queue = <<>> /\ subfields = <<>> /\ cis = <<>> /\ last_ci_type = -1 /\ rx = RxInit
      /\ xpad_size = 0 /\ subfields_size = 0 /\ last_ci_size \in Nat /\ pc = "idle"
      /\ sent = [c \in Channels |-> <<>>]
    BY JunkAssumption DEF LinkInit, Init
<1>2. PADTypes
    BY <1>1, EmptySeq DEF PADTypes
<1>3. /\ IsReceiver(rx) /\ rx.broken = {} /\ rx.unannounced = {}
      /\ \A c \in AllChannels : rx.buffer[c] = NoBuffer
    BY <1>1 DEF IsReceiver, RxInit, AllChannels
<1>4. Len(queue) = 0 /\ queue \in Seq(DGTypes) /\ sent \in [Channels -> Seq(Nat)]
    BY <1>1, EmptySeq
<1>5. Begun = {} /\ Partial = {}
    BY <1>4 DEF Begun, Partial
<1>6. SlideAfter(0)
    BY <1>4, <1>5 DEF SlideAfter
<1>7. Ahead = rx /\ Pending = {}
    BY <1>1, <1>2, BetweenPADs
<1>8. ASSUME NEW h PROVE Following(rx, h, 0)
    BY <1>3, <1>4, <1>5 DEF Following, Synced, Owned, Announced, Intact, Damaged, AllChannels
<1>9. Continued(Ahead)
    BY <1>1 DEF Continued
<1> QED
    BY <1>2, <1>3, <1>4, <1>6, <1>7, <1>8, <1>9 DEF LinkInv, LinkTypes

LEMMA NextOK == LinkInv /\ [LinkNext]_allVars => LinkInv'
<1> SUFFICES ASSUME LinkInv, [LinkNext]_allVars PROVE LinkInv'
    OBVIOUS
<1>1. CASE \E sizes \in Labels : EncodeLabel(sizes)
    BY <1>1, EncodeLabelOK
<1>2. CASE \E sizes \in Slides : EncodeSlide(sizes)
    BY <1>2, EncodeSlideOK
<1>3. CASE RequestPAD
    BY <1>3, SamePADs DEF RequestPAD, GetNextPAD
<1>4. CASE Fill
    BY <1>4, FillOK DEF Fill
<1>5. CASE Transmit
    BY <1>5, TransmitOK
<1>6. CASE Lose
    BY <1>6, LoseOK
<1>7. CASE UNCHANGED allVars
    BY <1>7, SamePADs DEF allVars, vars, linkVars
<1> QED
    BY <1>1, <1>2, <1>3, <1>4, <1>5, <1>6, <1>7 DEF LinkNext

THEOREM LinkInvariant == LinkSpec => []LinkInv
BY InitOK, NextOK, PTL DEF LinkSpec

\* Every byte that arrives goes to its data group, but for those of data groups that a
\* lost PAD has damaged: the packetizer leaves out CIs only where the receiver knows what
\* goes on, whatever the PAD lengths and intervals and however many PADs are lost.
THEOREM ReceiverInSync == LinkSpec => []InSync
<1>1. LinkInv => InSync
    BY DEF LinkInv, Following, Intact, InSync, Affected, Damaged, AllChannels
<1> QED
    BY <1>1, LinkInvariant, PTL

\* In variable size X-PADs each MOT data group begins when its length has been indicated.
THEOREM LengthAlwaysKnown == LinkSpec => []LengthKnown
<1>1. LinkInv => LengthKnown
    BY DEF LinkInv, Following, Intact, LengthKnown, Affected, Damaged, AllChannels, short_xpad
<1> QED
    BY <1>1, LinkInvariant, PTL

-----------------------------------------------------------------------------
(***************************************************************************)
(* The channels.  Data groups are numbered as they are queued; on each     *)
(* channel the receiver has got those that have left the queue, in order,  *)
(* but for damaged ones.                                                   *)
(***************************************************************************)
SentIds == \A c \in Channels : sent[c] = [i \in 1 .. Len(sent[c]) |-> i]

\* How many data groups of channel c have left the queue, n of a label being in it.
Done(c, n) == IF c = "dls" THEN Len(sent["dls"]) - n
              ELSE Len(sent["mot"]) - (Len(queue) - n + 1) \div 2

Queued(n) ==
    /\ \A c \in Channels : Done(c, n) \in Nat
    /\ \A i \in 1 .. n : queue[i].payload = Done("dls", n) + i
    /\ \A i \in n + 1 .. Len(queue) :
          queue[i].payload = Len(sent["mot"]) - (Len(queue) - i) \div 2

\* Of the data groups 1 to d of channel c, s are those that are not damaged, and some
\* of the others, in order.
InOrder(s, c, d, h) ==
    /\ s \in Seq(Nat)
    /\ \A i, j \in 1 .. Len(s) : i < j => s[i] < s[j]
    /\ Range(s) \subseteq 1 .. d
    /\ \A p \in 1 .. d : p \in Range(s) \/ <<c, p>> \in h

Receives(r, h, n) ==
    /\ r.got = [c \in Channels |-> r.got[c]]
    /\ \A c \in Channels : /\ InOrder(r.got[c], c, Done(c, n), h)
                           /\ r.buffer[c].payload \notin Range(r.got[c])

ChannelInv ==
    /\ SentIds
    /\ \A x \in hit \cup Pending : x[1] \in Channels => x[2] \in 0 .. Len(sent[x[1]])
    /\ \A x \in Pending : x[1] \in Channels => x[2] \notin Range(rx.got[x[1]])
    /\ \A c \in Channels : AC!Continues(Ahead.got[c], rx.got[c])
    /\ \E n \in 0 .. Len(queue) : /\ SlideAfter(n) /\ Queued(n)
                                  /\ Receives(rx, hit \cup Pending, n)
                                  /\ Receives(Ahead, hit, n)

\* The next data group is got, or is damaged and is not.
LEMMA NextInOrder ==
    ASSUME NEW c, NEW d \in Nat, NEW h, NEW s, InOrder(s, c, d, h)
    PROVE  /\ InOrder(Append(s, d + 1), c, d + 1, h)
           /\ Range(Append(s, d + 1)) = Range(s) \cup {d + 1}
           /\ AC!Continues(Append(s, d + 1), s)
<1> DEFINE t == Append(s, d + 1)
           L == Len(s)
<1>1. s \in Seq(Nat) /\ L \in Nat /\ d + 1 \in Nat
    BY DEF InOrder
<1>2. /\ t \in Seq(Nat) /\ Len(t) = L + 1 /\ t[L + 1] = d + 1
      /\ \A i \in 1 .. L : t[i] = s[i]
    BY <1>1
<1>3. DOMAIN s = 1 .. L /\ DOMAIN t = 1 .. L + 1
    BY <1>1, <1>2
<1>4. 1 .. L + 1 = (1 .. L) \cup {L + 1}
    BY <1>1
<1> HIDE DEF t, L
<1>5. Range(t) = Range(s) \cup {d + 1}
    BY <1>2, <1>3, <1>4 DEF Range
<1>6. \A i \in 1 .. L : s[i] \in 1 .. d
    BY <1>3 DEF InOrder, Range
<1>7. \A i, j \in 1 .. L + 1 : i < j => t[i] < t[j]
    <2> SUFFICES ASSUME NEW i \in 1 .. L + 1, NEW j \in 1 .. L + 1, i < j PROVE t[i] < t[j]
        OBVIOUS
    <2>1. i \in 1 .. L /\ t[i] = s[i]
        BY <1>1, <1>2
    <2>2. CASE j = L + 1
        BY <1>2, <1>6, <2>1, <2>2
    <2>3. CASE j # L + 1
        <3>1. j \in 1 .. L /\ t[j] = s[j]
            BY <1>2, <1>4, <2>3
        <3> QED
            BY <2>1, <3>1 DEF InOrder, L
    <2> QED
        BY <2>2, <2>3
<1>8. 1 .. d + 1 = (1 .. d) \cup {d + 1}
    OBVIOUS
<1>9. InOrder(t, c, d + 1, h)
    BY <1>2, <1>5, <1>7, <1>8 DEF InOrder
<1>10. AC!Continues(t, s)
    BY <1>1, <1>2 DEF AC!Continues, L
<1> QED
    BY <1>5, <1>9, <1>10 DEF t

LEMMA SkippedInOrder ==
    ASSUME NEW c, NEW d \in Nat, NEW h, NEW k, h \subseteq k, NEW s, InOrder(s, c, d, h)
    PROVE  /\ InOrder(s, c, d, k)
           /\ <<c, d + 1>> \in k => InOrder(s, c, d + 1, k)
<1>1. 1 .. d + 1 = (1 .. d) \cup {d + 1}
    OBVIOUS
<1> QED
    BY <1>1 DEF InOrder

LEMMA Halves ==
    ASSUME NEW k \in Nat
    PROVE  /\ k \div 2 \in Nat /\ (k + 2) \div 2 = k \div 2 + 1
           /\ k % 2 = 0 => (k + 1) \div 2 = k \div 2
           /\ k % 2 # 0 => (k + 1) \div 2 = k \div 2 + 1
OBVIOUS

\* The data group in front is the next one of its channel, a length indicator that of the
\* next MOT data group.
LEMMA NextInFront ==
    ASSUME queue \in Seq(DGTypes), queue # <<>>, NEW n \in 0 .. Len(queue), SlideAfter(n),
           Queued(n), sent \in [Channels -> Seq(Nat)]
    PROVE  LET c == IF Head(queue).app = DLS THEN "dls" ELSE "mot"
           IN  Head(queue).payload = Done(c, n) + 1 /\ Head(queue).payload \in 1 .. Len(sent[c])
<1>1. Len(queue) \in Nat /\ 1 \in 1 .. Len(queue) /\ Head(queue) = queue[1]
    BY LenProperties, EmptySeq
<1>2. Len(sent["dls"]) \in Nat /\ Len(sent["mot"]) \in Nat
    BY DEF Channels
<1>3. CASE n > 0
    <2>1. 1 \in 1 .. n
        BY <1>1, <1>3
    <2>2. queue[1].app = DLS /\ queue[1].payload = Done("dls", n) + 1 /\ Done("dls", n) \in Nat
        BY <2>1 DEF SlideAfter, Queued, Channels
    <2>3. Done("dls", n) + 1 \in 1 .. Len(sent["dls"])
        BY <1>1, <1>2, <1>3, <2>2 DEF Done
    <2> QED
        BY <1>1, <2>2, <2>3
<1>4. CASE n = 0
    <2>1. 1 \in n + 1 .. Len(queue)
        BY <1>1, <1>4
    <2>2. /\ queue[1].app \in {MOT, DGLI}
          /\ queue[1].payload = Len(sent["mot"]) - (Len(queue) - 1) \div 2
          /\ Done("mot", n) \in Nat
        BY <2>1 DEF SlideAfter, Queued, Channels
    <2>3. queue[1].app # DLS
        BY <2>2 DEF MOT, DGLI, DLS
    <2>4. Done("mot", n) = Len(sent["mot"]) - (Len(queue) + 1) \div 2
        BY <1>1, <1>4 DEF Done
    <2>5. (Len(queue) + 1) \div 2 = (Len(queue) - 1) \div 2 + 1 /\ (Len(queue) - 1) \div 2 \in Nat
        <3>1. Len(queue) - 1 \in Nat /\ (Len(queue) - 1) + 2 = Len(queue) + 1
            BY <1>1
        <3> QED
            BY <3>1, Halves
    <2>6. queue[1].payload = Done("mot", n) + 1 /\ queue[1].payload \in 1 .. Len(sent["mot"])
        <3> DEFINE S == Len(sent["mot"])
                   half == (Len(queue) - 1) \div 2
        <3>1. /\ queue[1].payload = S - half /\ Done("mot", n) = S - (half + 1)
              /\ S - (half + 1) \in Nat /\ half \in Nat /\ S \in Nat
            BY <1>2, <2>2, <2>4, <2>5
        <3> HIDE DEF S, half
        <3>2. queue[1].payload = Done("mot", n) + 1 /\ queue[1].payload \in 1 .. S
            BY <3>1
        <3> QED
            BY <3>2 DEF S
    <2> QED
        BY <1>1, <2>3, <2>6
<1> QED
    BY <1>3, <1>4

\* Once it has been written to its end, its channel is one further.
LEMMA QueueMoves ==
    ASSUME queue \in Seq(DGTypes), queue # <<>>, NEW n \in 0 .. Len(queue), SlideAfter(n),
           Queued(n), sent \in [Channels -> Seq(Nat)], sent' = sent,
           NEW len \in Nat, NEW m, m = Left(n, Head(queue), len),
           queue' = IF Exhausted(Head(queue), len) THEN Tail(queue)
                    ELSE <<Rest(Head(queue), len)>> \o Tail(queue)
    PROVE  /\ Queued(m)'
           /\ \A c \in Channels :
                 Done(c, m)' = IF Exhausted(Head(queue), len) /\ c = Channel(Head(queue).app.start)
                               THEN Done(c, n) + 1 ELSE Done(c, n)
<1> DEFINE dg == Head(queue)
           N == Len(queue)
           D == Len(sent["dls"])
           M == Len(sent["mot"])
<1>1. N \in Nat /\ N >= 1 /\ dg = queue[1] /\ dg \in DGTypes
    BY LenProperties, EmptySeq
<1>2. D \in Nat /\ M \in Nat
    BY DEF Channels
<1>3. /\ D - n \in Nat /\ M - (N - n + 1) \div 2 \in Nat
      /\ Done("dls", n) = D - n /\ Done("mot", n) = M - (N - n + 1) \div 2
      /\ \A i \in 1 .. n : queue[i].payload = (D - n) + i
      /\ \A i \in n + 1 .. N : queue[i].payload = M - (N - i) \div 2
    BY DEF Queued, Done, Channels
<1>4. /\ Len(sent'["dls"]) = D /\ Len(sent'["mot"]) = M
      /\ Channels = {"dls", "mot"}
    BY DEF Channels
<1>5. CASE ~Exhausted(dg, len)
    <2>1. m = n /\ queue' = <<Rest(dg, len)>> \o Tail(queue)
        BY <1>5 DEF Left
    <2>2. Rest(dg, len).payload = dg.payload
        BY <1>1, RestOf
    <2>3. Len(queue') = N /\ \A i \in 1 .. N : queue'[i].payload = queue[i].payload
        <3> DEFINE rest == Rest(dg, len)
        <3>1. rest \in DGTypes \cup {rest} /\ Tail(queue) \in Seq(DGTypes \cup {rest})
            BY <1>1, SeqMonotonic
        <3> HIDE DEF rest
        <3>2. /\ Len(queue') = N /\ queue'[1] = rest
              /\ \A i \in 2 .. N : queue'[i] = queue[i]
            <4>1. <<rest>> \in Seq(DGTypes \cup {rest}) /\ queue' = <<rest>> \o Tail(queue)
                BY <2>1, <3>1 DEF rest
            <4> HIDE DEF dg
            <4> QED
                BY <1>1, <3>1, <4>1
        <3> QED
            BY <1>1, <2>2, <3>2 DEF rest
    <2>4. Done("dls", m)' = Done("dls", n) /\ Done("mot", m)' = Done("mot", n)
        BY <1>3, <1>4, <2>1, <2>3 DEF Done
    <2>5. Queued(m)'
        <3>1. n \in Nat /\ n <= N
            BY <1>1
        <3> HIDE DEF D, M, N, dg
        <3>2. \A i \in 1 .. m : i \in 1 .. N
            BY <1>1, <2>1, <3>1
        <3>3. \A i \in m + 1 .. N : i \in 1 .. N
            BY <1>1, <2>1, <3>1
        <3>4. \A i \in 1 .. m : queue'[i].payload = Done("dls", m)' + i
            BY <1>3, <2>1, <2>3, <2>4, <3>2
        <3>5. \A i \in m + 1 .. N : queue'[i].payload = M - (N - i) \div 2
            BY <1>3, <2>1, <2>3, <3>3
        <3>6. \A c \in Channels : Done(c, m)' \in Nat
            BY <1>3, <1>4, <2>4
        <3> QED
            BY <1>4, <2>3, <3>4, <3>5, <3>6 DEF Queued
    <2> QED
        BY <1>4, <1>5, <2>4, <2>5
<1>6. CASE Exhausted(dg, len)
    <2>1. /\ Len(queue') = N - 1 /\ \A i \in 1 .. N - 1 : queue'[i] = queue[i + 1]
          /\ m = IF n > 0 THEN n - 1 ELSE n
        BY <1>1, <1>6 DEF Left
    <2> HIDE DEF dg, N, D, M
    <2>2. n \in Nat /\ n <= N
        BY <1>1 DEF N
    <2>3. \A i \in m + 1 .. N - 1 : queue'[i].payload = M - ((N - 1) - i) \div 2
        <3> SUFFICES ASSUME NEW i \in m + 1 .. N - 1
                     PROVE  queue'[i].payload = M - ((N - 1) - i) \div 2
            OBVIOUS
        <3>1. i \in 1 .. N - 1 /\ i + 1 \in n + 1 .. N /\ N - (i + 1) = (N - 1) - i
            BY <1>1, <2>1, <2>2
        <3> QED
            BY <1>3, <2>1, <3>1
    <2>4. CASE n > 0
        <3>1. m = n - 1 /\ (N - 1) - m + 1 = N - n + 1 /\ D - m = (D - n) + 1
            BY <1>1, <1>2, <2>1, <2>2, <2>4
        <3>2. Done("dls", m)' = Done("dls", n) + 1 /\ Done("mot", m)' = Done("mot", n)
            BY <1>3, <1>4, <2>1, <3>1 DEF Done
        <3>3. \A i \in 1 .. m : queue'[i].payload = ((D - n) + 1) + i
            <4> SUFFICES ASSUME NEW i \in 1 .. m PROVE queue'[i].payload = ((D - n) + 1) + i
                OBVIOUS
            <4>1. i \in 1 .. N - 1 /\ i + 1 \in 1 .. n /\ (D - n) + (i + 1) = ((D - n) + 1) + i
                BY <1>1, <1>2, <2>2, <3>1
            <4> QED
                BY <1>3, <2>1, <4>1
        <3>4. \A c \in Channels : Done(c, m)' \in Nat
            BY <1>3, <1>4, <3>2
        <3>5. \A i \in 1 .. m : queue'[i].payload = Done("dls", m)' + i
            BY <1>3, <3>2, <3>3
        <3>6. Queued(m)'
            BY <1>4, <2>1, <2>3, <3>4, <3>5 DEF Queued
        <3>7. Channel(dg.app.start) = "dls"
            <4>1. dg.app = DLS
                BY <1>1, <2>4 DEF SlideAfter
            <4> QED
                BY <4>1, ChannelValues DEF DLS
        <3> QED
            BY <1>4, <1>6, <3>2, <3>6, <3>7 DEF dg
    <2>5. CASE n = 0
        <3> DEFINE k == N - 1
        <3>1. /\ m = 0 /\ k \in Nat /\ N - n + 1 = k + 2 /\ (N - 1) - m + 1 = k + 1
              /\ 1 \in n + 1 .. N
            BY <1>1, <2>1, <2>5
        <3>2. dg.app = IF k % 2 = 0 THEN MOT ELSE DGLI
            BY <1>1, <3>1 DEF SlideAfter, N
        <3>3. Channel(dg.app.start) = IF k % 2 = 0 THEN "mot" ELSE "dgli"
            BY <3>2, ChannelValues DEF MOT, DGLI
        <3>4. M - (k + 1) \div 2 = IF k % 2 = 0 THEN (M - (k + 2) \div 2) + 1 ELSE M - (k + 2) \div 2
            <4> DEFINE half == k \div 2
            <4>1. /\ half \in Nat /\ (k + 2) \div 2 = half + 1
                  /\ (k + 1) \div 2 = IF k % 2 = 0 THEN half ELSE half + 1
                BY <3>1, Halves
            <4> HIDE DEF half, k
            <4> QED
                BY <1>2, <4>1
        <3> HIDE DEF k
        <3>5. /\ Done("dls", m)' = Done("dls", n)
              /\ Done("mot", m)' = IF k % 2 = 0 THEN Done("mot", n) + 1 ELSE Done("mot", n)
            <4>1. Done("mot", m)' = M - (k + 1) \div 2 /\ Done("dls", m)' = D - m
                BY <1>4, <2>1, <3>1 DEF Done
            <4>2. Done("mot", n) = M - (k + 2) \div 2 /\ Done("dls", n) = D - m
                BY <1>3, <2>5, <3>1
            <4> QED
                BY <3>4, <4>1, <4>2
        <3>6. \A c \in Channels : Done(c, m)' \in Nat
            BY <1>3, <1>4, <3>5
        <3>7. Queued(m)'
            <4>1. \A i \in 1 .. m : FALSE
                BY <3>1
            <4> QED
                BY <1>4, <2>1, <2>3, <3>6, <4>1 DEF Queued
        <3> QED
            BY <1>4, <1>6, <3>3, <3>5, <3>7 DEF dg
    <2> QED
        BY <2>2, <2>4, <2>5
<1> QED
    BY <1>5, <1>6

LEMMA ContinuesOn ==
    ASSUME NEW s \in Seq(Nat), NEW t \in Seq(Nat), AC!Continues(s, t), NEW x \in Nat
    PROVE  AC!Continues(Append(s, x), t)
<1>1. Len(Append(s, x)) = Len(s) + 1 /\ \A i \in 1 .. Len(s) : Append(s, x)[i] = s[i]
    OBVIOUS
<1>2. Len(t) \in Nat /\ Len(s) \in Nat
    OBVIOUS
<1> QED
    BY <1>1, <1>2 DEF AC!Continues

\* A sub-field is added to the PAD under construction.
LEMMA FillChannels ==
    ASSUME LinkInv, ChannelInv, AppendDG, UNCHANGED linkVars
    PROVE  ChannelInv'
<1>1. PICK len \in Nat : Filled(len)
    BY FillOK
<1>2. PICK n \in 0 .. Len(queue) : /\ SlideAfter(n) /\ Queued(n)
                                   /\ Receives(rx, hit \cup Pending, n)
                                   /\ Receives(Ahead, hit, n)
    BY DEF ChannelInv
<1>3. PICK dg : dg = Head(queue)
    OBVIOUS
<1>4. /\ queue \in Seq(DGTypes) /\ sent \in [Channels -> Seq(Nat)] /\ queue # <<>>
      /\ hit' = hit /\ rx' = rx /\ sent' = sent
      /\ dg \in DGTypes /\ dg.payload \in Nat \ {0}
    <2>1. queue \in Seq(DGTypes) /\ sent \in [Channels -> Seq(Nat)] /\ queue # <<>>
        BY <1>1 DEF LinkInv, LinkTypes, Filled
    <2>2. dg \in DGTypes
        BY <1>3, <2>1, LenProperties, EmptySeq
    <2> QED
        BY <2>1, <2>2 DEF linkVars, DGTypes
<1>5. PICK m \in 0 .. Len(queue') : m = Left(n, dg, len) /\ SlideAfter(m)'
    BY <1>1, <1>2, <1>3 DEF Filled, FrontGone
<1>6. PICK c0 : c0 = Channel(dg.app.start)
    OBVIOUS
<1>7. /\ Queued(m)'
      /\ \A c \in Channels : Done(c, m)' = IF Exhausted(dg, len) /\ c = c0
                                           THEN Done(c, n) + 1 ELSE Done(c, n)
    BY <1>1, <1>2, <1>3, <1>4, <1>5, <1>6, QueueMoves DEF Filled
<1>8. \A c \in Channels :
          c = c0 \/ (c = "mot" /\ dg.app = DGLI) =>
              dg.payload = Done(c, n) + 1 /\ dg.payload \in 1 .. Len(sent[c])
    <2>1. LET c == IF dg.app = DLS THEN "dls" ELSE "mot"
          IN  dg.payload = Done(c, n) + 1 /\ dg.payload \in 1 .. Len(sent[c])
        BY <1>2, <1>3, <1>4, NextInFront
    <2>2. DLS # DGLI /\ DLS # MOT /\ MOT # DGLI
        BY DEF DLS, DGLI, MOT
    <2>3. /\ dg.app \in {DGLI, DLS, MOT}
          /\ dg.app = DGLI => c0 = "dgli"
          /\ dg.app = DLS => c0 = "dls"
          /\ dg.app = MOT => c0 = "mot"
        BY <1>4, <1>6, AppChannels
    <2> QED
        BY <2>1, <2>2, <2>3 DEF Channels
<1>9. /\ Pending \subseteq Pending' /\ <<c0, dg.payload>> \in Pending'
      /\ \A x \in Pending' : \/ x \in Pending
                             \/ x = <<c0, dg.payload>>
                             \/ x = <<"mot", dg.payload>> /\ dg.app = DGLI
    <2>1. Pending' = Pending \cup Hit(PieceOf(dg, len)) /\ Of(dg) \in Pending'
        BY <1>1, <1>3 DEF Filled
    <2>2. PieceOf(dg, len).app = AppType(dg) /\ PieceOf(dg, len).payload = dg.payload
        BY DEF PieceOf
    <2>3. Channel(AppType(dg)) = c0 /\ (AppType(dg) = 1 => dg.app = DGLI)
        BY <1>4, <1>6, AppChannels
    <2>4. \A x \in Hit(PieceOf(dg, len)) : \/ x = <<c0, dg.payload>>
                                           \/ x = <<"mot", dg.payload>> /\ dg.app = DGLI
        BY <2>2, <2>3 DEF Hit, DGLI
    <2> QED
        BY <1>6, <2>1, <2>4 DEF Of
<1>10. \A x \in (hit \cup Pending)' : x[1] \in Channels => x[2] \in 0 .. Len(sent'[x[1]])
    <2> SUFFICES ASSUME NEW x \in hit \cup Pending', x[1] \in Channels
                 PROVE  x[2] \in 0 .. Len(sent[x[1]])
        BY <1>4
    <2>1. CASE x \in hit \cup Pending
        BY <2>1 DEF ChannelInv
    <2>2. CASE x[2] = dg.payload /\ (x[1] = c0 \/ (x[1] = "mot" /\ dg.app = DGLI))
        BY <1>8, <2>2
    <2> QED
        BY <1>9, <2>1, <2>2
<1>11. \A x \in Pending' : x[1] \in Channels => x[2] \notin Range(rx'.got[x[1]])
    <2> SUFFICES ASSUME NEW x \in Pending', x[1] \in Channels
                 PROVE  x[2] \notin Range(rx.got[x[1]])
        BY <1>4
    <2>1. CASE x \in Pending
        BY <2>1 DEF ChannelInv
    <2>2. CASE x[2] = dg.payload /\ (x[1] = c0 \/ (x[1] = "mot" /\ dg.app = DGLI))
        <3>1. PICK d : d = Done(x[1], n)
            OBVIOUS
        <3>2. dg.payload = d + 1 /\ d \in Nat /\ Range(rx.got[x[1]]) \subseteq 1 .. d
            BY <1>2, <1>8, <2>2, <3>1 DEF Queued, Receives, InOrder
        <3> QED
            BY <2>2, <3>2
    <2> QED
        BY <1>9, <2>1, <2>2
<1>12. ASSUME NEW c \in Channels
       PROVE  /\ Done(c, n) \in Nat
              /\ InOrder(rx.got[c], c, Done(c, m)', hit \cup Pending')
              /\ rx.buffer[c].payload \notin Range(rx.got[c])
    <2>1. PICK d \in Nat : d = Done(c, n)
        BY <1>2 DEF Queued
    <2>2. /\ InOrder(rx.got[c], c, d, hit \cup Pending)
          /\ rx.buffer[c].payload \notin Range(rx.got[c])
        BY <1>2, <2>1 DEF Receives
    <2>3. Done(c, m)' = d \/ (Done(c, m)' = d + 1 /\ c = c0 /\ dg.payload = d + 1)
        BY <1>7, <1>8, <2>1
    <2>4. PICK h : h = hit \cup Pending
        OBVIOUS
    <2>5. PICK k : k = hit \cup Pending'
        OBVIOUS
    <2>6. PICK g : g = rx.got[c]
        OBVIOUS
    <2>7. h \subseteq k /\ InOrder(g, c, d, h)
        BY <1>9, <2>2, <2>4, <2>5, <2>6
    <2>8. InOrder(g, c, d, k) /\ (<<c, d + 1>> \in k => InOrder(g, c, d + 1, k))
        BY <2>7, SkippedInOrder
    <2>9. c = c0 /\ dg.payload = d + 1 => <<c, d + 1>> \in k
        BY <1>9, <2>5
    <2> QED
        BY <2>1, <2>2, <2>3, <2>5, <2>6, <2>8, <2>9
<1>13. Receives(rx, hit \cup Pending, m)'
    <2>1. rx.got = [c \in Channels |-> rx.got[c]]
        BY <1>2 DEF Receives
    <2> QED
        BY <1>4, <1>12, <2>1 DEF Receives, InOrder

<1>14. PICK r : r = Ahead
    OBVIOUS
<1>15. PICK s : s = Ahead'
    OBVIOUS
<1>16. /\ r.got = [c \in Channels |-> r.got[c]] /\ Gets(s, r, dg, len)
       /\ \A c \in Channels : AC!Continues(r.got[c], rx.got[c])
    BY <1>1, <1>2, <1>3, <1>14, <1>15 DEF Filled, Receives, ChannelInv
<1>17. ASSUME NEW c \in Channels
       PROVE  /\ InOrder(s.got[c], c, Done(c, m)', hit)
              /\ s.buffer[c].payload \notin Range(s.got[c])
              /\ AC!Continues(s.got[c], rx.got[c])
    <2>1. PICK d \in Nat : d = Done(c, n)
        BY <1>2 DEF Queued
    <2>2. /\ InOrder(r.got[c], c, d, hit) /\ r.buffer[c].payload \notin Range(r.got[c])
          /\ r.got[c] \in Seq(Nat) /\ rx.got[c] \in Seq(Nat)
          /\ Range(r.got[c]) \subseteq 1 .. d
        BY <1>2, <1>14, <2>1 DEF Receives, InOrder
    <2>3. \/ Done(c, m)' = d /\ ~(Exhausted(dg, len) /\ c = c0)
          \/ /\ Done(c, m)' = d + 1 /\ c = c0 /\ Exhausted(dg, len)
             /\ dg.app # DGLI
        <3>1. dg.app = DGLI => c0 \notin Channels
            BY <1>4, <1>6, AppChannels DEF Channels
        <3> QED
            BY <1>7, <2>1, <3>1
    <2>4. c = c0 => dg.payload = d + 1
        BY <1>8, <2>1
    <2>5. NoBuffer.payload = 0
        BY DEF NoBuffer
    <2>6. CASE /\ s.got = r.got
               /\ Exhausted(dg, len) => dg.app = DGLI \/ Of(dg) \in hit
               /\ \/ s.buffer[c] \in {r.buffer[c], NoBuffer}
                  \/ c = c0 /\ s.buffer[c].payload = dg.payload
        <3>1. InOrder(s.got[c], c, Done(c, m)', hit)
            <4>1. Done(c, m)' = d + 1 => <<c, d + 1>> \in hit
                BY <1>6, <2>3, <2>4, <2>6 DEF Of
            <4> QED
                BY <2>2, <2>3, <2>6, <4>1, SkippedInOrder
        <3>2. s.buffer[c].payload \notin Range(r.got[c])
            BY <2>2, <2>4, <2>5, <2>6
        <3> QED
            BY <1>16, <2>6, <3>1, <3>2
    <2>7. CASE /\ dg.app # DGLI /\ Exhausted(dg, len)
               /\ s.got = [r.got EXCEPT ![c0] = Append(@, dg.payload)]
               /\ s.buffer[c] = IF c = c0 THEN NoBuffer ELSE r.buffer[c]
        <3>1. CASE c = c0
            <4>1. s.got[c] = Append(r.got[c], d + 1)
                BY <1>16, <2>4, <2>7, <3>1
            <4>2. /\ InOrder(s.got[c], c, d + 1, hit)
                  /\ Range(s.got[c]) = Range(r.got[c]) \cup {d + 1}
                <5>1. PICK g : g = r.got[c]
                    OBVIOUS
                <5>2. /\ InOrder(Append(g, d + 1), c, d + 1, hit)
                      /\ Range(Append(g, d + 1)) = Range(g) \cup {d + 1}
                    BY <2>2, <5>1, NextInOrder
                <5> QED
                    BY <4>1, <5>1, <5>2
            <4>3. AC!Continues(s.got[c], rx.got[c])
                BY <1>16, <2>2, <4>1, ContinuesOn
            <4>4. s.buffer[c].payload \notin Range(s.got[c])
                BY <2>2, <2>5, <2>7, <3>1, <4>2
            <4> QED
                BY <2>3, <2>7, <3>1, <4>2, <4>3, <4>4
        <3>2. CASE c # c0
            <4>1. s.got[c] = r.got[c]
                BY <1>16, <2>7, <3>2
            <4> QED
                BY <1>16, <2>2, <2>3, <2>7, <3>2, <4>1
        <3> QED
            BY <3>1, <3>2
    <2> QED
        BY <1>6, <1>16, <2>6, <2>7 DEF Gets
<1>18. Receives(Ahead, hit, m)'
    <2>1. s.got = [c \in Channels |-> s.got[c]]
        BY <1>16 DEF Gets
    <2> QED
        BY <1>4, <1>15, <1>17, <2>1 DEF Receives, InOrder
<1>19. \A c \in Channels : AC!Continues(Ahead.got[c], rx.got[c])'
    BY <1>4, <1>15, <1>17 DEF AC!Continues
<1>20. SentIds'
    BY <1>4 DEF ChannelInv, SentIds
<1> QED
    BY <1>5, <1>7, <1>10, <1>11, <1>13, <1>18, <1>19, <1>20 DEF ChannelInv

\* What a step is to the channels.
ChannelStep == AC!Next \/ UNCHANGED AC!vars

LEMMA Numbered ==
    ASSUME SentIds, sent \in [Channels -> Seq(Nat)], NEW c \in Channels
    PROVE  /\ Len(sent[c]) \in Nat /\ Range(sent[c]) = 1 .. Len(sent[c])
           /\ DOMAIN sent[c] = 1 .. Len(sent[c])
           /\ \A i \in 1 .. Len(sent[c]) : sent[c][i] = i
<1>1. sent[c] \in Seq(Nat) /\ Len(sent[c]) \in Nat
    OBVIOUS
<1>2. sent[c] = [i \in 1 .. Len(sent[c]) |-> i]
    BY DEF SentIds
<1> DEFINE N == Len(sent[c])
<1> HIDE DEF N
<1>3. DOMAIN sent[c] = 1 .. N /\ \A i \in 1 .. N : sent[c][i] = i
    BY <1>2 DEF N
<1> QED
    BY <1>1, <1>3 DEF N, Range

\* One of the encoders queues data groups.
LEMMA ChannelsGrow ==
    ASSUME LinkInv, ChannelInv, pc = "idle",
           UNCHANGED <<pad_size, xpad_size, subfields, subfields_size, cis, last_ci_type,
                       last_ci_size, pc, hit, rx>>,
           NEW e \in Channels, NEW L \in Nat,
           sent' = [sent EXCEPT ![e] = @ \o [i \in 1 .. L |-> Len(sent[e]) + i]],
           NEW n \in 0 .. Len(queue), Receives(rx, hit \cup Pending, n), Receives(Ahead, hit, n),
           NEW m \in 0 .. Len(queue'), SlideAfter(m)', Queued(m)',
           \A c \in Channels : Done(c, m)' = Done(c, n)
    PROVE  ChannelInv' /\ ChannelStep
<1>1. Ahead' = Ahead /\ Pending' = Pending
    BY DEF Ahead, Pending, PAD, LaidOut, used_cis, short_xpad, Hit
<1>2. /\ SentIds /\ sent \in [Channels -> Seq(Nat)]
      /\ \A x \in hit \cup Pending : x[1] \in Channels => x[2] \in 0 .. Len(sent[x[1]])
    BY DEF LinkInv, LinkTypes, ChannelInv
<1> DEFINE S == Len(sent[e])
<1>3. /\ S \in Nat /\ Range(sent[e]) = 1 .. S
      /\ sent[e] \in Seq(Nat) /\ \A i \in 1 .. S : sent[e][i] = i
    BY <1>2, Numbered
<1>4. /\ \A c \in Channels \ {e} : sent'[c] = sent[c]
      /\ sent'[e] = [i \in 1 .. S + L |-> i] /\ Len(sent'[e]) = S + L
      /\ DOMAIN sent' = Channels
    <2> DEFINE more == [i \in 1 .. L |-> S + i]
    <2>1. more \in Seq(Nat) /\ Len(more) = L /\ \A i \in 1 .. L : more[i] = S + i
        BY <1>3
    <2>2. sent' = [sent EXCEPT ![e] = sent[e] \o more]
        OBVIOUS
    <2> HIDE DEF more, S
    <2>3. /\ sent[e] \o more \in Seq(Nat) /\ Len(sent[e] \o more) = S + L
          /\ \A i \in 1 .. S + L : (sent[e] \o more)[i] = i
        <3>1. PICK old \in Seq(Nat) : old = sent[e]
            BY <1>3
        <3>2. PICK t : t = old \o more
            OBVIOUS
        <3>3. /\ t \in Seq(Nat) /\ Len(t) = S + L
              /\ \A i \in 1 .. S + L : t[i] = IF i <= S THEN old[i] ELSE more[i - S]
            BY <2>1, <3>1, <3>2, ConcatProperties DEF S
        <3>4. ASSUME NEW i \in 1 .. S + L PROVE t[i] = i
            <4>1. i <= S => i \in 1 .. S
                BY <1>3
            <4>2. ~(i <= S) => i - S \in 1 .. L /\ S + (i - S) = i
                BY <1>3
            <4> QED
                BY <1>3, <2>1, <3>1, <3>3, <4>1, <4>2
        <3> QED
            BY <3>1, <3>2, <3>3, <3>4
    <2>4. sent[e] \o more = [i \in 1 .. S + L |-> i]
        <3>1. PICK t : t = sent[e] \o more
            OBVIOUS
        <3>2. t \in Seq(Nat) /\ Len(t) = S + L /\ \A i \in 1 .. S + L : t[i] = i
            BY <2>3, <3>1
        <3>3. t = [i \in 1 .. S + L |-> t[i]]
            BY <3>2, LenProperties
        <3> QED
            BY <3>1, <3>2, <3>3
    <2> QED
        BY <1>2, <2>2, <2>3, <2>4
<1> HIDE DEF S
<1>5. DOMAIN sent'[e] = 1 .. S + L /\ \A i \in 1 .. S + L : sent'[e][i] = i
    <2>1. PICK t : t = sent'[e]
        OBVIOUS
    <2>2. t = [i \in 1 .. S + L |-> i]
        BY <1>4, <2>1
    <2>3. DOMAIN t = 1 .. S + L /\ \A i \in 1 .. S + L : t[i] = i
        BY <2>2
    <2> QED
        BY <2>1, <2>3
<1>6. SentIds'
    <2>1. \A c \in Channels : sent'[c] = [i \in 1 .. Len(sent'[c]) |-> i]
        BY <1>2, <1>4 DEF SentIds
    <2> QED
        BY <2>1 DEF SentIds
<1>7. \A c \in Channels : Len(sent[c]) \in Nat /\ Len(sent[c]) <= Len(sent'[c])
    <2> SUFFICES ASSUME NEW c \in Channels PROVE Len(sent[c]) \in Nat /\ Len(sent[c]) <= Len(sent'[c])
        OBVIOUS
    <2>1. Len(sent[c]) \in Nat
        BY <1>2
    <2> QED
        BY <1>3, <1>4, <2>1 DEF S
<1>8. \A x \in (hit \cup Pending)' : x[1] \in Channels => x[2] \in 0 .. Len(sent'[x[1]])
    <2> SUFFICES ASSUME NEW x \in hit \cup Pending, x[1] \in Channels
                 PROVE  x[2] \in 0 .. Len(sent'[x[1]])
        BY <1>1
    <2>1. PICK a : a = Len(sent[x[1]])
        OBVIOUS
    <2>2. PICK b : b = Len(sent'[x[1]])
        OBVIOUS
    <2>3. x[2] \in 0 .. a /\ a \in Nat /\ a <= b /\ b \in Nat
        BY <1>2, <1>3, <1>4, <1>7, <2>1, <2>2
    <2> QED
        BY <2>2, <2>3
<1>9. Receives(rx, hit \cup Pending, m)' /\ Receives(Ahead, hit, m)'
    <2>1. PICK h : h = hit \cup Pending
        OBVIOUS
    <2>2. PICK r : r = Ahead
        OBVIOUS
    <2>3. Receives(rx, h, m)' /\ Receives(r, hit, m)'
        BY <2>1, <2>2 DEF Receives, InOrder
    <2> QED
        BY <1>1, <2>1, <2>2, <2>3 DEF Receives, InOrder
<1>10. ChannelInv'
    BY <1>1, <1>6, <1>8, <1>9 DEF ChannelInv, AC!Continues

<1>11. CASE L = 0
    <2>1. sent'[e] = sent[e]
        BY <1>2, <1>3, <1>4, <1>11 DEF SentIds, S
    <2>2. sent' = sent
        BY <1>2, <1>4, <2>1
    <2> QED
        BY <1>10, <2>2 DEF ChannelStep, AC!vars
<1>12. CASE L > 0
    <2>1. sent'[e] \in Seq(Nat \ {0})
        BY <1>3, <1>4
    <2>2. AC!Continues(sent'[e], sent[e])
        BY <1>3, <1>4 DEF AC!Continues, S
    <2>3. sent' # sent
        BY <1>3, <1>4, <1>12 DEF S
    <2>4. AC!IsInjective(sent'[e])
        BY <1>5 DEF AC!IsInjective
    <2>5. ASSUME NEW c \in Channels
          PROVE  {p \in Range(sent'[c]) : <<c, p>> \in hit} = {p \in Range(sent[c]) : <<c, p>> \in hit}
        <3>1. CASE c # e
            BY <1>4, <3>1
        <3>2. CASE c = e
            <4>1. Range(sent'[e]) = 1 .. S + L
                <5>1. PICK t : t = sent'[e]
                    OBVIOUS
                <5>2. DOMAIN t = 1 .. S + L /\ \A i \in 1 .. S + L : t[i] = i
                    BY <1>5, <5>1
                <5>3. Range(t) = 1 .. S + L
                    BY <5>2 DEF Range
                <5> QED
                    BY <5>1, <5>3
            <4>2. 1 .. S \subseteq 1 .. S + L
                BY <1>3
            <4>3. ASSUME NEW p \in 1 .. S + L, <<e, p>> \in hit PROVE p \in 1 .. S
                <5>1. <<e, p>>[2] \in 0 .. Len(sent[<<e, p>>[1]])
                    BY <1>2, <4>3
                <5>2. p \in 0 .. S
                    BY <5>1 DEF S
                <5> QED
                    BY <1>3, <5>2
            <4> QED
                BY <1>3, <3>2, <4>1, <4>2, <4>3
        <3> QED
            BY <3>1, <3>2
    <2>6. AC!Send(e)
        BY <1>4, <2>1, <2>2, <2>3, <2>4, <2>5 DEF AC!Send
    <2> QED
        BY <1>10, <2>6 DEF ChannelStep, AC!Next
<1> QED
    BY <1>11, <1>12

LEMMA LabelChannels ==
    ASSUME LinkInv, ChannelInv, NEW sizes \in Labels, EncodeLabel(sizes)
    PROVE  ChannelInv' /\ ChannelStep
<1> DEFINE L == Len(sizes)
           N == Len(queue)
           D == Len(sent["dls"])
           M == Len(sent["mot"])
<1>1. /\ pc = "idle"
      /\ UNCHANGED <<pad_size, xpad_size, subfields, subfields_size, cis, last_ci_type,
                     last_ci_size, pc, hit, rx>>
      /\ sent' = [sent EXCEPT !["dls"] = @ \o [i \in 1 .. L |-> D + i]]
    BY DEF EncodeLabel, AddDGs
<1>2. PICK n \in 0 .. Len(queue) : /\ SlideAfter(n) /\ Queued(n)
                                   /\ Receives(rx, hit \cup Pending, n)
                                   /\ Receives(Ahead, hit, n)
    BY DEF ChannelInv
<1>3. /\ n = 0 /\ SlideAfter(L)' /\ Len(queue') = L + N
      /\ \A i \in 1 .. L : queue'[i].payload = D + i
      /\ \A i \in 1 .. N : queue'[L + i] = queue[i]
    BY <1>2, EncodeLabelOK
<1>4. /\ N \in Nat /\ L \in Nat /\ D \in Nat /\ M \in Nat /\ sent \in [Channels -> Seq(Nat)]
      /\ Channels = {"dls", "mot"}
    <2>1. queue \in Seq(DGTypes) /\ sent \in [Channels -> Seq(Nat)]
        BY DEF LinkInv, LinkTypes
    <2>2. sizes \in Seq(Nat \ {0})
        BY LinkAssumption
    <2> QED
        BY <2>1, <2>2 DEF Channels
<1>5. /\ Len(sent'["dls"]) = D + L /\ Len(sent'["mot"]) = M
    <2> DEFINE more == [i \in 1 .. L |-> D + i]
    <2>1. more \in Seq(Nat) /\ Len(more) = L
        BY <1>4
    <2>2. sent["dls"] \in Seq(Nat) /\ "dls" # "mot"
        BY <1>4
    <2>3. sent' = [sent EXCEPT !["dls"] = sent["dls"] \o more]
        BY <1>1
    <2> HIDE DEF more, L, D, M
    <2>4. Len(sent["dls"] \o more) = D + L
        BY <2>1, <2>2, ConcatProperties DEF D
    <2>5. sent'["dls"] = sent["dls"] \o more /\ sent'["mot"] = sent["mot"]
        BY <1>4, <2>3
    <2> QED
        BY <2>4, <2>5 DEF M
<1>6. /\ Done("dls", n) = D /\ Done("mot", n) = M - (N + 1) \div 2
      /\ \A i \in 1 .. N : queue[i].payload = M - (N - i) \div 2
      /\ M - (N + 1) \div 2 \in Nat
    BY <1>2, <1>3, <1>4 DEF Queued, Done
<1> HIDE DEF L, N, D, M
<1>7. Done("dls", L)' = D /\ Done("mot", L)' = M - (N + 1) \div 2
    <2>1. (D + L) - L = D /\ (L + N) - L + 1 = N + 1
        BY <1>4
    <2> QED
        BY <1>3, <1>5, <2>1 DEF Done
<1>8. \A c \in Channels : Done(c, L)' = Done(c, n)
    BY <1>4, <1>6, <1>7
<1>9. Queued(L)'
    <2>1. \A j \in L + 1 .. L + N : queue'[j].payload = M - ((L + N) - j) \div 2
        <3> SUFFICES ASSUME NEW j \in L + 1 .. L + N
                     PROVE  queue'[j].payload = M - ((L + N) - j) \div 2
            OBVIOUS
        <3>1. PICK i \in 1 .. N : j = L + i /\ (L + N) - j = N - i
            <4>1. j - L \in 1 .. N /\ j = L + (j - L) /\ (L + N) - j = N - (j - L)
                BY <1>4
            <4> QED
                BY <4>1
        <3> QED
            BY <1>3, <1>6, <3>1
    <2>2. \A c \in Channels : Done(c, L)' \in Nat
        BY <1>4, <1>6, <1>7
    <2> QED
        BY <1>3, <1>5, <1>7, <2>1, <2>2 DEF Queued
<1>10. L \in 0 .. Len(queue')
    BY <1>3, <1>4
<1>11. sent' = [sent EXCEPT !["dls"] = @ \o [i \in 1 .. L |-> Len(sent["dls"]) + i]]
    BY <1>1 DEF D
<1> QED
    BY <1>1, <1>2, <1>3, <1>4, <1>8, <1>9, <1>10, <1>11, ChannelsGrow

LEMMA SlideChannels ==
    ASSUME LinkInv, ChannelInv, NEW sizes \in Slides, EncodeSlide(sizes)
    PROVE  ChannelInv' /\ ChannelStep
<1> DEFINE L == Len(sizes)
           N == Len(queue)
           D == Len(sent["dls"])
           M == Len(sent["mot"])
<1>1. /\ pc = "idle"
      /\ UNCHANGED <<pad_size, xpad_size, subfields, subfields_size, cis, last_ci_type,
                     last_ci_size, pc, hit, rx>>
      /\ sent' = [sent EXCEPT !["mot"] = @ \o [i \in 1 .. L |-> M + i]]
    BY DEF EncodeSlide, AddDGs
<1>2. PICK n \in 0 .. Len(queue) : /\ SlideAfter(n) /\ Queued(n)
                                   /\ Receives(rx, hit \cup Pending, n)
                                   /\ Receives(Ahead, hit, n)
    BY DEF ChannelInv
<1>3. /\ n = N /\ SlideAfter(n)' /\ Len(queue') = N + 2 * L
      /\ \A i \in 1 .. N : queue'[i] = queue[i]
      /\ \A i \in 1 .. 2 * L : queue'[N + i].payload = M + (i + 1) \div 2
    BY <1>2, EncodeSlideOK
<1>4. /\ N \in Nat /\ L \in Nat /\ D \in Nat /\ M \in Nat /\ sent \in [Channels -> Seq(Nat)]
      /\ Channels = {"dls", "mot"}
    <2>1. queue \in Seq(DGTypes) /\ sent \in [Channels -> Seq(Nat)]
        BY DEF LinkInv, LinkTypes
    <2>2. sizes \in Seq(Nat \ {0})
        BY LinkAssumption
    <2> QED
        BY <2>1, <2>2 DEF Channels
<1>5. /\ Len(sent'["dls"]) = D /\ Len(sent'["mot"]) = M + L
    <2> DEFINE more == [i \in 1 .. L |-> M + i]
    <2>1. more \in Seq(Nat) /\ Len(more) = L
        BY <1>4
    <2>2. sent["mot"] \in Seq(Nat) /\ "dls" # "mot"
        BY <1>4
    <2>3. sent' = [sent EXCEPT !["mot"] = sent["mot"] \o more]
        BY <1>1
    <2> HIDE DEF more, L, D, M
    <2>4. Len(sent["mot"] \o more) = M + L
        BY <2>1, <2>2, ConcatProperties DEF M
    <2>5. sent'["mot"] = sent["mot"] \o more /\ sent'["dls"] = sent["dls"]
        BY <1>4, <2>3
    <2> QED
        BY <2>4, <2>5 DEF D
<1>6. /\ Done("dls", n) = D - N /\ Done("mot", n) = M /\ D - N \in Nat
      /\ \A i \in 1 .. N : queue[i].payload = (D - N) + i
    <2>1. (N - N + 1) \div 2 = 0
        BY <1>4
    <2> QED
        BY <1>2, <1>3, <1>4, <2>1 DEF Queued, Done
<1> HIDE DEF L, N, D, M
<1>7. ASSUME NEW i \in 1 .. 2 * L
      PROVE  M + (i + 1) \div 2 = (M + L) - (2 * L - i) \div 2
    <2>1. PICK k \in Nat : k < L /\ (i = 2 * k + 1 \/ i = 2 * k + 2)
        BY <1>4, Halved
    <2>2. (i + 1) \div 2 = k + 1
        BY <2>1
    <2>3. (2 * L - i) \div 2 = L - k - 1
        BY <1>4, <2>1
    <2> QED
        BY <1>4, <2>2, <2>3
<1>8. Done("dls", n)' = D - N /\ Done("mot", n)' = M
    <2>1. ((N + 2 * L) - N + 1) \div 2 = L /\ (M + L) - L = M
        BY <1>4
    <2> QED
        BY <1>3, <1>5, <2>1 DEF Done
<1>9. \A c \in Channels : Done(c, n)' = Done(c, n)
    BY <1>4, <1>6, <1>8
<1>10. Queued(n)'
    <2>1. \A j \in N + 1 .. N + 2 * L : queue'[j].payload = (M + L) - ((N + 2 * L) - j) \div 2
        <3> SUFFICES ASSUME NEW j \in N + 1 .. N + 2 * L
                     PROVE  queue'[j].payload = (M + L) - ((N + 2 * L) - j) \div 2
            OBVIOUS
        <3>1. PICK i \in 1 .. 2 * L : j = N + i /\ (N + 2 * L) - j = 2 * L - i
            <4>1. j - N \in 1 .. 2 * L /\ j = N + (j - N) /\ (N + 2 * L) - j = 2 * L - (j - N)
                BY <1>4
            <4> QED
                BY <4>1
        <3> QED
            BY <1>3, <1>7, <3>1
    <2>2. \A c \in Channels : Done(c, n)' \in Nat
        BY <1>4, <1>6, <1>8
    <2>3. \A i \in 1 .. n : queue'[i].payload = Done("dls", n)' + i
        BY <1>3, <1>6, <1>8
    <2> QED
        BY <1>3, <1>5, <2>1, <2>2, <2>3 DEF Queued
<1>11. n \in 0 .. Len(queue')
    BY <1>3, <1>4
<1>12. sent' = [sent EXCEPT !["mot"] = @ \o [i \in 1 .. L |-> Len(sent["mot"]) + i]]
    BY <1>1 DEF M
<1> QED
    BY <1>1, <1>2, <1>3, <1>4, <1>9, <1>10, <1>11, <1>12, ChannelsGrow

\* A PAD is asked for.
LEMMA SameChannels ==
    ASSUME ChannelInv,
           UNCHANGED <<pad_size, queue, xpad_size, subfields, subfields_size, cis, sent, hit, rx>>
    PROVE  ChannelInv' /\ ChannelStep
<1>1. Ahead' = Ahead /\ Pending' = Pending /\ short_xpad' = short_xpad /\ Begun' = Begun
    BY DEF Ahead, Pending, PAD, LaidOut, used_cis, short_xpad, Hit, Begun
<1>2. PICK n \in 0 .. Len(queue) : /\ SlideAfter(n) /\ Queued(n)
                                   /\ Receives(rx, hit \cup Pending, n)
                                   /\ Receives(Ahead, hit, n)
    BY DEF ChannelInv
<1>3. SlideAfter(n)'
    BY <1>1, <1>2 DEF SlideAfter
<1>4. Queued(n)' /\ \A c \in Channels : Done(c, n)' = Done(c, n)
    BY <1>2 DEF Queued, Done
<1>5. Receives(rx, hit \cup Pending, n)' /\ Receives(Ahead, hit, n)'
    BY <1>1, <1>2, <1>4 DEF Receives, InOrder
<1>6. ChannelInv'
    BY <1>1, <1>3, <1>4, <1>5 DEF ChannelInv, SentIds, AC!Continues
<1> QED
    BY <1>6 DEF ChannelStep, AC!vars

\* What the data groups in the queue are numbered.
LEMMA QueuedKnown ==
    ASSUME queue \in Seq(DGTypes), NEW n \in 0 .. Len(queue), SlideAfter(n), Queued(n),
           sent \in [Channels -> Seq(Nat)], NEW dg \in Partial, Channel(dg.app.start) \in Channels
    PROVE  dg.payload \in 0 .. Len(sent[Channel(dg.app.start)])
<1>1. PICK i \in 1 .. Len(queue) : dg = queue[i]
    BY DEF Partial, Begun
<1>2. /\ Len(queue) \in Nat /\ Len(sent["dls"]) \in Nat /\ Len(sent["mot"]) \in Nat
      /\ dg \in DGTypes /\ dg.payload \in Nat
    <2>1. dg \in DGTypes
        BY <1>1, ElementOfSeq
    <2> QED
        BY <2>1 DEF Channels, DGTypes
<1>3. CASE i \in 1 .. n
    <2>1. dg.app = DLS /\ dg.payload = Done("dls", n) + i
        BY <1>1, <1>3 DEF SlideAfter, Queued
    <2>2. Channel(dg.app.start) = "dls"
        BY <2>1, ChannelValues DEF DLS
    <2>3. dg.payload <= Len(sent["dls"])
        BY <1>2, <1>3, <2>1 DEF Done
    <2> QED
        BY <1>2, <2>2, <2>3
<1>4. CASE i \in n + 1 .. Len(queue)
    <2>1. /\ dg.app \in {MOT, DGLI}
          /\ dg.payload = Len(sent["mot"]) - (Len(queue) - i) \div 2
        BY <1>1, <1>4 DEF SlideAfter, Queued
    <2>2. Channel(dg.app.start) = "mot"
        BY <2>1, ChannelValues DEF MOT, DGLI, Channels
    <2>3. (Len(queue) - i) \div 2 \in Nat
        <3>1. Len(queue) - i \in Nat
            BY <1>2, <1>4
        <3> QED
            BY <3>1, Halves
    <2>4. dg.payload <= Len(sent["mot"])
        <3> DEFINE half == (Len(queue) - i) \div 2
        <3>1. dg.payload = Len(sent["mot"]) - half /\ half \in Nat
            BY <2>1, <2>3
        <3> HIDE DEF half
        <3> QED
            BY <1>2, <3>1
    <2> QED
        BY <1>2, <2>2, <2>4
<1> QED
    BY <1>2, <1>3, <1>4

LEMMA DoneAtMost ==
    ASSUME queue \in Seq(DGTypes), NEW n \in 0 .. Len(queue),
           sent \in [Channels -> Seq(Nat)], NEW c \in Channels
    PROVE  Done(c, n) <= Len(sent[c])
<1>1. Len(queue) \in Nat /\ Len(sent["dls"]) \in Nat /\ Len(sent["mot"]) \in Nat
    BY DEF Channels
<1>2. CASE c = "dls"
    BY <1>1, <1>2 DEF Done
<1>3. CASE c = "mot"
    <2> DEFINE half == (Len(queue) - n + 1) \div 2
    <2>1. half \in Nat
        <3>1. Len(queue) - n + 1 \in Nat
            BY <1>1
        <3> QED
            BY <3>1, Halves
    <2>2. Done(c, n) = Len(sent["mot"]) - half
        BY <1>3 DEF Done
    <2> HIDE DEF half
    <2> QED
        BY <1>1, <1>3, <2>1, <2>2
<1> QED
    BY <1>2, <1>3 DEF Channels

\* A PAD is received: what it completes is delivered.
LEMMA TransmitChannels ==
    ASSUME LinkInv, ChannelInv, Transmit
    PROVE  ChannelInv' /\ ChannelStep
<1>1. Flushed /\ Ahead' = rx' /\ rx' = RxPAD(rx, PAD) /\ hit' = hit /\ sent' = sent
    BY FlushOK DEF Transmit
<1>2. PICK n \in 0 .. Len(queue) : /\ SlideAfter(n) /\ Queued(n)
                                   /\ Receives(rx, hit \cup Pending, n)
                                   /\ Receives(Ahead, hit, n)
    BY DEF ChannelInv
<1>3. /\ SentIds /\ sent \in [Channels -> Seq(Nat)]
      /\ \A x \in hit \cup Pending : x[1] \in Channels => x[2] \in 0 .. Len(sent[x[1]])
      /\ \A c \in Channels : AC!Continues(Ahead.got[c], rx.got[c])
    BY DEF LinkInv, LinkTypes, ChannelInv
<1>4. PICK r : r = Ahead
    OBVIOUS
<1>5. PICK s : s = rx'
    OBVIOUS
<1>6. s.got = r.got /\ s.buffer = r.buffer
    <2>1. r = [last |-> r.last, size |-> r.size, buffer |-> r.buffer, length |-> r.length,
               broken |-> r.broken, unannounced |-> r.unannounced, got |-> r.got]
        BY <1>4 DEF LinkInv, IsReceiver
    <2> DEFINE used == PAD.used - FPAD_LEN
               last == IF PAD.xpad = "none" THEN "none" ELSE r.last
    <2>2. s = [[r EXCEPT !.size = used] EXCEPT !.last = last]
        BY <1>1, <1>4, <1>5, <2>1 DEF RxPAD, Ahead
    <2> HIDE DEF used, last
    <2> QED
        BY <2>1, <2>2
<1>7. Queued(n)' /\ \A c \in Channels : Done(c, n)' = Done(c, n)
    BY <1>1, <1>2 DEF Flushed, Queued, Done
<1>8. Receives(s, hit, n)'
    <2>1. Receives(r, hit, n)
        BY <1>2, <1>4
    <2> QED
        BY <1>1, <1>6, <1>7, <2>1 DEF Receives, InOrder
<1>9. Receives(rx, hit \cup Pending, n)' /\ Receives(Ahead, hit, n)'
    <2>1. hit' \cup Pending' = hit'
        BY <1>1 DEF Flushed
    <2> QED
        BY <1>1, <1>5, <1>8, <2>1 DEF Receives, InOrder
<1>10. /\ \A c \in Channels : s.got[c] \in Seq(Nat)
       /\ s.got = [c \in Channels |-> s.got[c]]
    BY <1>8 DEF Receives, InOrder
<1>11. \A c \in Channels : AC!Continues(Ahead.got[c], rx.got[c])'
    <2>1. \A c \in Channels : AC!Continues(s.got[c], s.got[c])
        <3> SUFFICES ASSUME NEW c \in Channels PROVE AC!Continues(s.got[c], s.got[c])
            OBVIOUS
        <3>1. Len(s.got[c]) \in Nat
            BY <1>10
        <3> QED
            BY <3>1 DEF AC!Continues
    <2> QED
        BY <1>1, <1>5, <2>1 DEF AC!Continues
<1>12. ChannelInv'
    <2>1. SentIds' /\ SlideAfter(n)' /\ n \in 0 .. Len(queue')
        BY <1>1, <1>2, <1>3 DEF SentIds, Flushed
    <2>2. Pending' = {} /\ hit' = hit /\ sent' = sent
        BY <1>1 DEF Flushed
    <2> QED
        BY <1>3, <1>7, <1>9, <1>11, <2>1, <2>2 DEF ChannelInv

<1>13. ASSUME NEW c \in Channels
       PROVE  AC!Continues(s.got[c], rx.got[c]) /\ AC!Received(c, s.got[c])
    <2>1. PICK g : g = s.got[c]
        OBVIOUS
    <2>2. PICK d \in Nat : d = Done(c, n) /\ d <= Len(sent[c])
        <3>1. Done(c, n) \in Nat
            BY <1>2 DEF Queued
        <3>2. Done(c, n) <= Len(sent[c])
            BY <1>2, <1>3, DoneAtMost DEF LinkInv, LinkTypes
        <3> QED
            BY <3>1, <3>2
    <2>3. InOrder(g, c, d, hit)
        BY <1>2, <1>4, <1>6, <2>1, <2>2 DEF Receives
    <2>4. /\ Len(sent[c]) \in Nat /\ Range(sent[c]) = 1 .. Len(sent[c])
          /\ \A i \in 1 .. Len(sent[c]) : sent[c][i] = i
        BY <1>3, Numbered
    <2>5. Range(g) \subseteq 1 .. d /\ 1 .. d \subseteq 1 .. Len(sent[c])
        BY <2>2, <2>3, <2>4 DEF InOrder
    <2>6. \A i \in 1 .. Len(g) : g[i] \in Range(g)
        BY <2>3 DEF InOrder, Range
    <2>7. ASSUME NEW i \in 1 .. Len(g), NEW j \in 1 .. Len(g), i < j
          PROVE  AC!SentBefore(c, g[i], g[j])
        <3>1. g[i] \in 1 .. Len(sent[c]) /\ g[j] \in 1 .. Len(sent[c]) /\ g[i] < g[j]
            BY <2>3, <2>5, <2>6, <2>7 DEF InOrder
        <3> QED
            BY <2>4, <3>1 DEF AC!SentBefore
    <2>8. ASSUME NEW p \in Range(sent[c]), NEW q \in Range(g), AC!SentBefore(c, p, q)
          PROVE  p \in Range(g) \cup {x \in Range(sent[c]) : <<c, x>> \in hit}
        <3>1. PICK i \in 1 .. Len(sent[c]) : \E j \in 1 .. Len(sent[c]) :
                  i < j /\ sent[c][i] = p /\ sent[c][j] = q
            BY <2>8 DEF AC!SentBefore
        <3>2. p < q
            BY <2>4, <3>1
        <3>3. p \in 1 .. d
            BY <2>2, <2>4, <2>5, <3>2
        <3> QED
            BY <2>3, <3>3 DEF InOrder
    <2>9. AC!Received(c, g)
        BY <2>4, <2>5, <2>7, <2>8 DEF AC!Received, AC!Range, Range
    <2>10. AC!Continues(s.got[c], rx.got[c])
        BY <1>3, <1>4, <1>6
    <2> QED
        BY <2>1, <2>9, <2>10
<1>14. CASE rx'.got = rx.got
    BY <1>1, <1>12, <1>14 DEF ChannelStep, AC!vars
<1>15. CASE rx'.got # rx.got
    <2>1. DOMAIN rx'.got = Channels
        BY <1>5, <1>10
    <2>2. AC!Deliver
        BY <1>1, <1>5, <1>13, <1>15, <2>1 DEF AC!Deliver
    <2> QED
        BY <1>12, <2>2 DEF ChannelStep, AC!Next
<1> QED
    BY <1>14, <1>15

\* A PAD is lost: what it carries, and what the receiver might get wrong without it, is
\* damaged, and has not been received before.
LEMMA LoseChannels ==
    ASSUME LinkInv, ChannelInv, Lose
    PROVE  ChannelInv' /\ ChannelStep
<1>1. Flushed /\ Ahead' = rx' /\ rx' = rx /\ sent' = sent /\ hit \cup Pending \subseteq hit'
    BY FlushOK DEF Lose
<1>2. PICK n \in 0 .. Len(queue) : /\ SlideAfter(n) /\ Queued(n)
                                   /\ Receives(rx, hit \cup Pending, n)
                                   /\ Receives(Ahead, hit, n)
    BY DEF ChannelInv
<1>3. /\ SentIds /\ queue \in Seq(DGTypes) /\ sent \in [Channels -> Seq(Nat)]
      /\ \A x \in hit \cup Pending : x[1] \in Channels => x[2] \in 0 .. Len(sent[x[1]])
      /\ \A x \in Pending : x[1] \in Channels => x[2] \notin Range(rx.got[x[1]])
    BY DEF LinkInv, LinkTypes, ChannelInv
<1>4. \A x \in hit' : \/ x \in hit \cup Pending
                      \/ rx.last # "none" /\ x = <<rx.last, rx.buffer[rx.last].payload>>
    BY DEF Lose
<1>5. ASSUME NEW c \in Channels
      PROVE  /\ rx.buffer[c].payload \in 0 .. Len(sent[c])
             /\ rx.buffer[c].payload \notin Range(rx.got[c])
             /\ rx.got[c] \in Seq(Nat)
    <2>1. PICK p : p = rx.buffer[c].payload
        OBVIOUS
    <2>2. <<c, p>> \in Damaged(hit \cup Pending) \cup {Of(dg) : dg \in Partial}
        BY <2>1 DEF LinkInv, Following, Owned
    <2>3. Len(sent[c]) \in Nat
        BY <1>3
    <2>4. CASE <<c, p>> \in hit \cup Pending
        <3>1. <<c, p>>[2] \in 0 .. Len(sent[<<c, p>>[1]])
            BY <1>3, <2>4
        <3> QED
            BY <1>2, <2>1, <3>1 DEF Receives, InOrder
    <2>5. CASE p = NoBuffer.payload
        <3>1. p \in 0 .. Len(sent[c])
            BY <2>3, <2>5 DEF NoBuffer
        <3> QED
            BY <1>2, <2>1, <3>1 DEF Receives, InOrder
    <2>6. CASE \E dg \in Partial : <<c, p>> = Of(dg)
        <3>1. PICK dg \in Partial : c = Channel(dg.app.start) /\ p = dg.payload
            BY <2>6 DEF Of
        <3>2. p \in 0 .. Len(sent[c])
            BY <1>2, <1>3, <3>1, QueuedKnown
        <3> QED
            BY <1>2, <2>1, <3>2 DEF Receives, InOrder
    <2> QED
        BY <2>2, <2>4, <2>5, <2>6 DEF Damaged
<1>6. \A x \in hit' : x[1] \in Channels => x[2] \in 0 .. Len(sent[x[1]])
    BY <1>3, <1>4, <1>5
<1>7. Queued(n)' /\ SlideAfter(n)' /\ \A c \in Channels : Done(c, n)' = Done(c, n)
    BY <1>1, <1>2 DEF Flushed, Queued, Done
<1>8. PICK k : k = hit'
    OBVIOUS
<1>9. Receives(rx, k, n)'
    <2>1. ASSUME NEW c \in Channels
          PROVE  InOrder(rx.got[c], c, Done(c, n), k) /\ rx.buffer[c].payload \notin Range(rx.got[c])
        <3>1. PICK h : h = hit \cup Pending
            OBVIOUS
        <3>2. InOrder(rx.got[c], c, Done(c, n), h) /\ h \subseteq k /\ Done(c, n) \in Nat
            BY <1>1, <1>2, <1>8, <3>1 DEF Receives, Queued
        <3> QED
            BY <1>5, <3>2, SkippedInOrder
    <2>2. rx.got = [c \in Channels |-> rx.got[c]]
        BY <1>2 DEF Receives
    <2> QED
        BY <1>1, <1>7, <2>1, <2>2 DEF Receives, InOrder
<1>10. Receives(rx, hit \cup Pending, n)' /\ Receives(Ahead, hit, n)'
    <2>1. hit' \cup Pending' = hit'
        BY <1>1 DEF Flushed
    <2> QED
        BY <1>1, <1>8, <1>9, <2>1 DEF Receives, InOrder
<1>11. \A c \in Channels : AC!Continues(Ahead.got[c], rx.got[c])'
    <2>1. \A c \in Channels : AC!Continues(rx.got[c], rx.got[c])
        <3> SUFFICES ASSUME NEW c \in Channels PROVE AC!Continues(rx.got[c], rx.got[c])
            OBVIOUS
        <3>1. Len(rx.got[c]) \in Nat
            BY <1>5
        <3> QED
            BY <3>1 DEF AC!Continues
    <2> QED
        BY <1>1, <2>1 DEF AC!Continues
<1>12. ChannelInv'
    <2>1. SentIds' /\ n \in 0 .. Len(queue')
        BY <1>1, <1>3 DEF SentIds, Flushed
    <2>2. Pending' = {} /\ sent' = sent
        BY <1>1 DEF Flushed
    <2> QED
        BY <1>6, <1>7, <1>10, <1>11, <2>1, <2>2 DEF ChannelInv
<1> DEFINE old == [c \in Channels |-> {p \in Range(sent[c]) : <<c, p>> \in hit}]
           new == [c \in Channels |-> {p \in Range(sent'[c]) : <<c, p>> \in hit'}]
<1>13. ASSUME NEW c \in Channels
       PROVE  /\ old[c] \subseteq new[c]
              /\ new[c] \ old[c] \subseteq Range(sent[c]) \ Range(rx.got[c])
    <2>1. old[c] \subseteq new[c]
        BY <1>1
    <2>2. ASSUME NEW p \in new[c] \ old[c] PROVE p \in Range(sent[c]) \ Range(rx.got[c])
        <3>1. p \in Range(sent[c]) /\ <<c, p>> \in hit' /\ <<c, p>> \notin hit
            BY <1>1, <2>2
        <3>2. CASE <<c, p>> \in Pending
            <4>1. <<c, p>>[2] \notin Range(rx.got[<<c, p>>[1]])
                BY <1>3, <3>2
            <4> QED
                BY <3>1, <4>1
        <3>3. CASE <<c, p>> = <<rx.last, rx.buffer[rx.last].payload>>
            BY <1>5, <3>1, <3>3
        <3> QED
            BY <1>4, <3>1, <3>2, <3>3
    <2> QED
        BY <2>1, <2>2
<1>14. CASE new = old
    BY <1>1, <1>12, <1>14 DEF ChannelStep, AC!vars
<1>15. CASE new # old
    <2>1. PICK m : m = old
        OBVIOUS
    <2>2. PICK n1 : n1 = new
        OBVIOUS
    <2> HIDE DEF old, new
    <2>3. /\ n1 # m
          /\ \A c \in Channels : /\ m[c] \subseteq n1[c]
                                /\ n1[c] \ m[c] \subseteq AC!Range(sent[c]) \ AC!Range(rx.got[c])
        BY <1>13, <1>15, <2>1, <2>2 DEF AC!Range, Range
    <2>4. UNCHANGED <<sent, rx.got>>
        BY <1>1
    <2>5. AC!Damage
        BY <2>1, <2>2, <2>3, <2>4 DEF AC!Damage, old, new
    <2> QED
        BY <1>12, <2>5 DEF ChannelStep, AC!Next
<1> QED
    BY <1>14, <1>15

LEMMA ChannelInit == LinkInit => ChannelInv /\ AC!Init
<1> SUFFICES ASSUME LinkInit PROVE ChannelInv /\ AC!Init
    OBVIOUS
<1>1. /\ queue = <<>> /\ sent = [c \in Channels |-> <<>>] /\ hit = {} /\ rx = RxInit
      /\ subfields = <<>>
    BY DEF LinkInit, Init
<1>2. LinkInv
    BY InitOK
<1>3. Ahead = rx /\ Pending = {}
    BY <1>1, <1>2, BetweenPADs DEF LinkInv, LinkTypes
<1>4. PICK n \in 0 .. Len(queue) : SlideAfter(n)
    BY <1>2 DEF LinkInv
<1>5. Len(queue) = 0 /\ n = 0 /\ \A c \in Channels : sent[c] = <<>> /\ Len(sent[c]) = 0
    BY <1>1
<1>6. /\ rx.got = [c \in Channels |-> <<>>]
      /\ \A c \in Channels : rx.buffer[c] = NoBuffer
    BY <1>1 DEF RxInit
<1>7. \A c \in Channels : Done(c, n) = 0
    <2>1. (Len(queue) - n + 1) \div 2 = 0 /\ Channels = {"dls", "mot"}
        BY <1>5 DEF Channels
    <2> QED
        BY <1>5, <2>1 DEF Done
<1>8. Queued(n)
    BY <1>5, <1>7 DEF Queued
<1>9. ASSUME NEW h PROVE Receives(rx, h, n)
    <2>1. \A c \in Channels : rx.got[c] = <<>>
        BY <1>6
    <2>2. (\A c \in Channels : InOrder(<<>>, c, 0, h)) /\ Range(<<>>) = {}
        BY EmptySeq DEF InOrder, Range
    <2> QED
        BY <1>6, <1>7, <2>1, <2>2 DEF Receives
<1>10. SentIds
    BY <1>5 DEF SentIds
<1>11. \A c \in Channels : AC!Continues(Ahead.got[c], rx.got[c])
    BY <1>3, <1>6 DEF AC!Continues
<1>12. ChannelInv
    BY <1>1, <1>3, <1>4, <1>8, <1>9, <1>10, <1>11 DEF ChannelInv
<1>13. AC!Init
    BY <1>1, <1>6 DEF AC!Init
<1> QED
    BY <1>12, <1>13

LEMMA ChannelNext == LinkInv /\ ChannelInv /\ [LinkNext]_allVars => ChannelInv' /\ ChannelStep
<1> SUFFICES ASSUME LinkInv, ChannelInv, [LinkNext]_allVars PROVE ChannelInv' /\ ChannelStep
    OBVIOUS
<1>1. CASE \E sizes \in Labels : EncodeLabel(sizes)
    BY <1>1, LabelChannels
<1>2. CASE \E sizes \in Slides : EncodeSlide(sizes)
    BY <1>2, SlideChannels
<1>3. CASE RequestPAD
    BY <1>3, SameChannels DEF RequestPAD, GetNextPAD
<1>4. CASE Fill
    <2>1. ChannelInv'
        BY <1>4, FillChannels DEF Fill
    <2>2. UNCHANGED AC!vars
        BY <1>4 DEF Fill, linkVars, AC!vars
    <2> QED
        BY <2>1, <2>2 DEF ChannelStep
<1>5. CASE Transmit
    BY <1>5, TransmitChannels
<1>6. CASE Lose
    BY <1>6, LoseChannels
<1>7. CASE UNCHANGED allVars
    BY <1>7, SameChannels DEF allVars, vars, linkVars
<1> QED
    BY <1>1, <1>2, <1>3, <1>4, <1>5, <1>6, <1>7 DEF LinkNext

\* What the encoders have queued is on each channel received in order, once each, and
\* completely but for data groups a lost PAD has damaged: the packetizer and a receiver of
\* its PADs implement AppChannel.
THEOREM ChannelsImplemented == LinkSpec => ImplementsAppChannel
<1>1. LinkInit => LinkInv /\ ChannelInv /\ AC!Init
    BY InitOK, ChannelInit
<1>2. LinkInv /\ ChannelInv /\ [LinkNext]_allVars => LinkInv' /\ ChannelInv' /\ [AC!Next]_(AC!vars)
    BY NextOK, ChannelNext DEF ChannelStep
<1> QED
    BY <1>1, <1>2, PTL DEF LinkSpec, ImplementsAppChannel, AC!Safety

=============================================================================
