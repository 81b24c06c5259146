--------------------------- MODULE DLSEncoderProofs ---------------------------
(***************************************************************************)
(* The Dynamic Label encoder, for every content of its files, read at any  *)
(* moment of their being written: what is sent fits its fields, and a      *)
(* receiver that gets it presents one label as a whole, the last one.      *)
(***************************************************************************)
EXTENDS DLSEncoder, NumberProofs, FiniteSetTheorems, FunctionTheorems,
        SequenceTheorems, TLAPS

-----------------------------------------------------------------------------
(***************************************************************************)
(* Reading a file.                                                         *)
(***************************************************************************)
\* What a file is, at any moment.
LineSeq(c) == c \in Seq(Range(c)) /\ \A i \in 1 .. Len(c) : c[i].size \in Nat

FileOK(f) == LineSeq(f.lines) /\ f.upto \in 0 .. Len(f.lines)

\* What is taken from a sequence is in it, at one of the positions.
LEMMA AtOK ==
    ASSUME NEW c, NEW n \in Nat, NEW p \in SUBSET (1 .. n)
    PROVE  /\ Len(At(c, p)) \in Nat
           /\ (Len(At(c, p)) = 0 => At(c, p) = <<>>)
           /\ \A k \in 1 .. Len(At(c, p)) : \E i \in p : At(c, p)[k] = c[i]
<1>1. p \subseteq Nat /\ IsFiniteSet(p)
    <2>1. IsFiniteSet(1 .. n)
        BY FS_Interval
    <2>2. p \subseteq Nat
        OBVIOUS
    <2> QED
        BY <2>1, <2>2, FS_Subset
<1>2. Cardinality(p) \in Nat
    BY <1>1, FS_CardinalityType
<1> DEFINE a == Ascending(p)
<1>3. a \in Seq(p) /\ Len(a) = Cardinality(p)
    BY <1>1, AscendingOK
<1>4. At(c, p) = [k \in 1 .. Cardinality(p) |-> c[a[k]]]
    BY DEF At
<1> HIDE DEF a
<1>5. \A k \in 1 .. Cardinality(p) : a[k] \in p
    BY <1>3
<1> DEFINE S == {c[i] : i \in p}
<1>6. \A k \in 1 .. Cardinality(p) : c[a[k]] \in S
    BY <1>5
<1>7. At(c, p) \in [1 .. Cardinality(p) -> S]
    BY <1>4, <1>6
<1>8. At(c, p) \in Seq(S) /\ Len(At(c, p)) = Cardinality(p) 
    <2> HIDE DEF S
    <2> QED
        BY <1>2, <1>7
<1>9. Cardinality(p) = 0 => At(c, p) = <<>>
    BY <1>8, EmptySeq
<1> QED
    BY <1>2, <1>4, <1>5, <1>8, <1>9

LEMMA TextLinesOK ==
    ASSUME NEW f, FileOK(f)
    PROVE  /\ Len(TextLines(f)) \in Nat
           /\ (Len(TextLines(f)) = 0 => TextLines(f) = <<>>)
           /\ \A k \in 1 .. Len(TextLines(f)) : TextLines(f)[k].size \in Nat
<1> DEFINE p == {i \in 1 .. f.upto :
                    ~Inside(f, i) /\ f.lines[i].kind # "open" /\ f.lines[i].size > 0}
           t == At(f.lines, p)
<1>1. t = TextLines(f)
    BY DEF TextLines
<1>2. f.upto \in Nat /\ p \in SUBSET (1 .. f.upto) /\ \A i \in p : f.lines[i].size \in Nat
    BY DEF FileOK, LineSeq
<1> HIDE DEF p
<1>3. /\ Len(t) \in Nat /\ (Len(t) = 0 => t = <<>>)
      /\ \A k \in 1 .. Len(t) : \E i \in p : t[k] = f.lines[i]
    BY <1>2, AtOK
<1> HIDE DEF t
<1> QED
    BY <1>1, <1>2, <1>3

LEMMA MinOfTwo ==
    ASSUME NEW m \in Int, NEW n \in Int
    PROVE  Min({m, n}) = IF m <= n THEN m ELSE n
BY DEF Min

\* What is said of a text, or of a part of it: no UCS-2 character is cut.
Sizes == {m \in Nat : ucs2 => m % 2 = 0}

TextOK(t) ==
    /\ t.size \in Sizes /\ t.size <= MAXDLS
    /\ t.size = 0 => t = EmptyText
    /\ \A l \in Range(t.lines) : l.bytes \in Sizes

LEMMA Even ==
    ASSUME NEW m \in Int, NEW n \in Int, m % 2 = 0, n % 2 = 0
    PROVE  (m + n) % 2 = 0 /\ (m - n) % 2 = 0
OBVIOUS

LEMMA SumOfSizes ==
    ASSUME NEW m \in Sizes, NEW n \in Sizes
    PROVE  m + n \in Sizes /\ (n <= m => m - n \in Sizes)
BY Even DEF Sizes

LEMMA LineSizes ==
    ASSUME NEW l, l.size \in Nat
    PROVE  Trimmed(l) \in Sizes /\ LineFeed \in Sizes /\ LineFeed \in {1, 2}
BY DEF Trimmed, LineFeed, Sizes

\* Where the lines of a text start.
Begins(t, start) ==
    start = [n \in 0 .. Len(t) |->
                IF n = 0 THEN 0 ELSE start[n - 1] + (Trimmed(t[n]) + LineFeed)]

LEMMA StartOK ==
    ASSUME NEW t, Len(t) \in Nat, \A k \in 1 .. Len(t) : t[k].size \in Nat
    PROVE  LET start == CHOOSE f : Begins(t, f)
           IN  /\ Begins(t, start)
               /\ \A n \in 0 .. Len(t) : start[n] \in Sizes
<1> DEFINE N == Len(t)
           line(n) == Trimmed(t[n]) + LineFeed
           step == [n \in 1 .. N |-> [v \in Sizes |-> v + line(n)]]
           start == CHOOSE f : Begins(t, f)
<1>1. \A n \in 1 .. N : line(n) \in Sizes
    BY LineSizes, SumOfSizes
<1>2. 0 \in Sizes
    BY DEF Sizes
<1>3. step \in [1 .. N -> [Sizes -> Sizes]]
    <2> HIDE DEF line
    <2>1. \A n \in 1 .. N, v \in Sizes : v + line(n) \in Sizes
        BY <1>1, SumOfSizes
    <2> QED
        BY <2>1
<1>4. PICK g : Follows(g, N, Sizes, 0, step)
    <2>1. StepsWithin(step, N, Sizes) /\ N \in Nat
        BY <1>3 DEF StepsWithin
    <2> HIDE DEF step, N
    <2> QED
        BY <1>2, <2>1, Recursion
<1>5. \A n \in 1 .. N : g[n] = g[n - 1] + line(n)
    <2> SUFFICES ASSUME NEW n \in 1 .. N PROVE g[n] = g[n - 1] + line(n)
        OBVIOUS
    <2>1. n - 1 \in 0 .. N
        OBVIOUS
    <2>2. g[n - 1] \in Sizes
        BY <1>4, <2>1 DEF Follows
    <2> HIDE DEF line
    <2> QED
        BY <1>4, <2>2 DEF Follows
<1>6. Begins(t, g)
    <2>1. g = [n \in 0 .. N |-> g[n]]
        BY <1>4 DEF Follows
    <2>2. \A n \in 0 .. N : g[n] = IF n = 0 THEN 0 ELSE g[n - 1] + line(n)
        BY <1>4, <1>5 DEF Follows
    <2> QED
        BY <2>1, <2>2 DEF Begins
<1>7. Begins(t, start)
    BY <1>6
<1> HIDE DEF start
<1>8. \A n \in 0 .. N : start[n] = IF n = 0 THEN 0 ELSE start[n - 1] + line(n)
    BY <1>7 DEF Begins
<1>9. \A n \in 0 .. N : start[n] \in Sizes
    <2> DEFINE P == {n \in 0 .. N : start[n] \in Sizes}
    <2>1. 0 \in P
        BY <1>2, <1>8
    <2>2. ASSUME NEW n \in 0 .. N - 1, n \in P PROVE n + 1 \in P
        <3>1. n + 1 \in 1 .. N /\ start[n + 1] = start[n] + line(n + 1) /\ start[n] \in Sizes
            BY <1>8, <2>2
        <3>2. line(n + 1) \in Sizes
            BY <1>1, <3>1
        <3> HIDE DEF line
        <3> QED
            BY <3>1, <3>2, SumOfSizes
    <2>3. \A n \in 0 .. N : n \in P
        <3> HIDE DEF P
        <3> QED
            BY <2>1, <2>2, Induction
    <2> QED
        BY <2>3
<1> QED
    BY <1>7, <1>9 DEF start

\* A text that is read is as long as it can be, and no longer.
LEMMA TextOfOK ==
    ASSUME NEW f, FileOK(f)
    PROVE  TextOK(TextOf(f))
<1> DEFINE t == TextLines(f)
           start == CHOOSE s : Begins(t, s)
           kept == {i \in 1 .. Len(t) : start[i - 1] < MAXDLS}
           size == Min({MAXDLS, start[Len(t)] - LineFeed})
           bytes(i) == Min({Trimmed(t[i]), MAXDLS - start[i - 1]})
<1>1. /\ Len(t) \in Nat /\ (Len(t) = 0 => t = <<>>)
      /\ \A k \in 1 .. Len(t) : t[k].size \in Nat
    BY TextLinesOK
<1>2. TextOf(f) = IF t = <<>> \/ size = 0 THEN EmptyText
                  ELSE [lines |-> [i \in kept |-> [line |-> t[i].value, bytes |-> bytes(i)]],
                        size |-> size]
    BY DEF TextOf, Begins
<1> HIDE DEF t
<1>3. Begins(t, start) /\ \A n \in 0 .. Len(t) : start[n] \in Sizes
    BY <1>1, StartOK
<1> HIDE DEF start
<1>4. MAXDLS \in Sizes /\ MAXDLS = 128 /\ 0 \in Sizes
    BY DEF MAXDLS, Sizes
<1>5. \A m, n \in Int : Min({m, n}) = IF m <= n THEN m ELSE n
    BY MinOfTwo
<1>6. \A i \in kept : bytes(i) \in Sizes
    <2> SUFFICES ASSUME NEW i \in kept PROVE bytes(i) \in Sizes
        OBVIOUS
    <2>1. i \in 1 .. Len(t) /\ i - 1 \in 0 .. Len(t) /\ start[i - 1] < MAXDLS
        BY <1>1
    <2>2. Trimmed(t[i]) \in Sizes /\ start[i - 1] \in Sizes
        BY <1>1, <1>3, <2>1, LineSizes
    <2>3. MAXDLS - start[i - 1] \in Sizes
        BY <1>4, <2>1, <2>2, SumOfSizes DEF Sizes
    <2> QED
        BY <1>5, <2>2, <2>3 DEF Sizes
<1>7. ASSUME t # <<>> PROVE size \in Sizes /\ size <= MAXDLS
    <2>1. Len(t) \in 1 .. Len(t) /\ Len(t) \in 0 .. Len(t) /\ Len(t) - 1 \in 0 .. Len(t)
        BY <1>1, <1>7
    <2>2. start[Len(t)] = start[Len(t) - 1] + (Trimmed(t[Len(t)]) + LineFeed)
      <3>1. \A n \in 0 .. Len(t) :
               start[n] = IF n = 0 THEN 0 ELSE start[n - 1] + (Trimmed(t[n]) + LineFeed)
          BY <1>3 DEF Begins
      <3>2. Len(t) # 0
          BY <1>1, <2>1
      <3> QED
          BY <2>1, <3>1, <3>2
    <2>3. Trimmed(t[Len(t)]) \in Sizes /\ LineFeed \in Nat /\ start[Len(t) - 1] \in Sizes
        BY <1>1, <1>3, <2>1, LineSizes
    <2>4. start[Len(t)] - LineFeed = start[Len(t) - 1] + Trimmed(t[Len(t)])
        BY <2>2, <2>3 DEF Sizes
    <2>5. start[Len(t)] - LineFeed \in Sizes
        BY <2>3, <2>4, SumOfSizes
    <2> QED
        BY <1>4, <1>5, <2>5 DEF Sizes
<1> HIDE DEF kept, size, bytes
<1>8. CASE t = <<>> \/ size = 0
    <2>1. TextOf(f) = EmptyText
        BY <1>2, <1>8
    <2>2. Range(<<>>) = {}
        BY DEF Range
    <2> QED
        BY <1>4, <2>1, <2>2 DEF TextOK, EmptyText
<1>9. CASE ~(t = <<>> \/ size = 0)
    <2> DEFINE lines == [i \in kept |-> [line |-> t[i].value, bytes |-> bytes(i)]]
    <2>1. TextOf(f).lines = lines /\ TextOf(f).size = size
        BY <1>2, <1>9
    <2>2. \A l \in Range(lines) : \E i \in kept : l.bytes = bytes(i)
        BY DEF Range
    <2> HIDE DEF lines
    <2> QED
        BY <1>6, <1>7, <1>9, <2>1, <2>2 DEF TextOK
<1> QED
    BY <1>8, <1>9

-----------------------------------------------------------------------------
(***************************************************************************)
(* The inductive invariant.                                                *)
(***************************************************************************)
\* What encodeLabel reads and remembers.
TagLists == {t \in Seq([1 .. 3 -> 0 .. 127]) : Len(t) <= 4}

StateOK(s) ==
    /\ s = [text |-> s.text, dl_plus_enabled |-> s.dl_plus_enabled,
            item_toggle |-> s.item_toggle, item_running |-> s.item_running, tags |-> s.tags]
    /\ TextOK(s.text)
    /\ s.dl_plus_enabled \in BOOLEAN
    /\ s.tags \in TagLists

TypeInv ==
    /\ FileOK(file) /\ FileOK(item)
    /\ pc \in {"idle", "item", "encode"}
    /\ pc # "idle" => chan = <<>>
    /\ StateOK(cur) /\ StateOK(dl_state_prev)
    /\ dl_state_prev.dl_plus_enabled => dl_state_prev.tags # <<>>
    /\ dls_toggle \in BOOLEAN
    /\ chan \in Seq(Range(chan))

\* The data groups of the label that was queued last, how many of them are segments, and
\* how many have been received since: -1 if the removal before them is still to come.
Label    == LabelDGs(dl_state_prev, dls_toggle)
Segments == dls_count(dl_state_prev.text)
Arrived  == Len(Label) - Len(chan)

\* What is on its way is the rest of that label.
ChanInv ==
    /\ Len(chan) <= Len(Label) + 1
    /\ \A i \in 1 .. Len(chan) :
          IF Arrived + i = 0 THEN chan[i].kind = "remove" ELSE chan[i] = Label[Arrived + i]

\* The label as a receiver should present it.
Whole == [text |-> dl_state_prev.text, plus |-> Plus(dl_state_prev)]

CurrentInv ==
    /\ Segments > 0 => Whole \in states
    /\ ~silent => current = IF Segments > 0 THEN Whole ELSE NoLabel

\* The first k segments of a label, and of this one.
Segs(t, toggle, k) == {dls_get(t, toggle, i) : i \in 0 .. k - 1}

First(k) == Segs(dl_state_prev.text, dls_toggle, k)

OldLabel == rx.label # NoLabel => rx.toggle # dls_toggle

\* How far the receiver is: it has nothing of the label yet, a part of the segments, all
\* of them, perhaps without DL Plus yet, or there is nothing to have.
RxNothing  == /\ Arrived <= 0
              /\ Segments > 0 \/ Arrived = -1
              /\ \A s \in rx.segs : s.toggle # dls_toggle
              /\ OldLabel
RxPart     == Arrived \in 1 .. Segments - 1 /\ rx.segs = First(Arrived) /\ OldLabel
RxComplete == /\ Segments > 0
              /\ rx.segs = First(Segments)
              /\ rx.toggle = dls_toggle
              /\ rx.label = Whole \/ (rx.label = [Whole EXCEPT !.plus = NoPlus]
                                      /\ Arrived = Segments)
RxEmpty    == Segments = 0 /\ Arrived >= 0 /\ rx.segs = {} /\ rx.label = NoLabel

RxOK(r) == r = [segs |-> r.segs, label |-> r.label, toggle |-> r.toggle]

RxInv == ~silent => RxOK(rx) /\ (RxNothing \/ RxPart \/ RxComplete \/ RxEmpty)

LabelInv == TypeInv /\ ChanInv /\ CurrentInv /\ RxInv /\ LabelIsOne

-----------------------------------------------------------------------------
(***************************************************************************)
(* The data groups of a label.                                             *)
(***************************************************************************)
LEMMA CountOK ==
    ASSUME NEW t, TextOK(t)
    PROVE  /\ dls_count(t) \in 0 .. 8
           /\ dls_count(t) = 0 <=> t = EmptyText
           /\ dls_count(t) > 0 => /\ 16 * (dls_count(t) - 1) < t.size
                                  /\ t.size <= 16 * dls_count(t)
<1>1. t.size \in 0 .. 128 /\ (t.size = 0 <=> t = EmptyText)
    <2>1. t.size \in Nat /\ t.size <= 128 /\ (t.size = 0 => t = EmptyText)
        BY DEF TextOK, Sizes, MAXDLS
    <2>2. EmptyText.size = 0
        BY DEF EmptyText
    <2> QED
        BY <2>1, <2>2
<1>2. dls_count(t) = (t.size + 15) \div 16
    BY <1>1 DEF dls_count, DLS_SEG_LEN_CHAR_MAX
<1> QED
    BY <1>1, <1>2

PlusDG(s, toggle) == [kind |-> "plus", toggle |-> toggle, plus |-> Plus(s)]

\* The segments are followed by DL Plus, if there is any.
LEMMA LabelShape ==
    ASSUME NEW s, TextOK(s.text), NEW T
    PROVE  LET n == dls_count(s.text)
               L == LabelDGs(s, T)
           IN  /\ n \in Nat
               /\ \E S : L \in Seq(S)
               /\ Len(L) = n + (IF s.dl_plus_enabled THEN 1 ELSE 0)
               /\ \A i \in 1 .. n : L[i] = dls_get(s.text, T, i - 1)
               /\ s.dl_plus_enabled => L[n + 1] = PlusDG(s, T)
<1> DEFINE n == dls_count(s.text)
           g(i) == dls_get(s.text, T, i - 1)
           S == {g(i) : i \in 1 .. n} \cup {PlusDG(s, T)}
           a == [i \in 1 .. n |-> g(i)]
           b == IF s.dl_plus_enabled THEN <<PlusDG(s, T)>> ELSE <<>>
<1>1. n \in Nat
    BY CountOK
<1>2. LabelDGs(s, T) = a \o b
    BY DEF LabelDGs, PlusDG
<1>3. PlusDG(s, T) \in S /\ \A i \in 1 .. n : g(i) \in S
    OBVIOUS
<1> HIDE DEF n, S, g
<1>4. a \in Seq(S) /\ Len(a) = n /\ \A i \in 1 .. n : a[i] = g(i)
    BY <1>1, <1>3
<1>5. CASE s.dl_plus_enabled
    <2>1. b = <<PlusDG(s, T)>>
        BY <1>5
    <2>2. b \in Seq(S) /\ Len(b) = 1 /\ b[1] = PlusDG(s, T)
        BY <1>3, <2>1
    <2> HIDE DEF a, b
    <2>3. /\ a \o b \in Seq(S) /\ Len(a \o b) = n + 1
          /\ \A i \in 1 .. n : (a \o b)[i] = a[i]
          /\ (a \o b)[n + 1] = b[1]
      <3>1. \A i \in 1 .. n : i \in 1 .. n + 1 /\ i <= n
          BY <1>1
      <3>2. n + 1 \in 1 .. n + 1 /\ ~(n + 1 <= n) /\ n + 1 - n = 1
          BY <1>1
      <3>3. /\ a \o b \in Seq(S) /\ Len(a \o b) = Len(a) + Len(b)
            /\ \A i \in 1 .. Len(a) + Len(b) :
                  (a \o b)[i] = IF i <= Len(a) THEN a[i] ELSE b[i - Len(a)]
          BY <1>4, <2>2, ConcatProperties, Zenon
      <3> HIDE DEF a, b
      <3>4. Len(a) = n /\ Len(b) = 1
          BY <1>4, <2>2
      <3> QED
          BY ONLY <3>1, <3>2, <3>3, <3>4
    <2> QED
        BY <1>1, <1>2, <1>4, <1>5, <2>2, <2>3 DEF n, g
<1>6. CASE ~s.dl_plus_enabled
    <2>1. b = <<>>
        BY <1>6
    <2> HIDE DEF a
    <2>2. a \o b = a
        BY <1>4, <2>1
    <2> QED
        BY <1>1, <1>2, <1>4, <1>6, <2>2 DEF n, g
<1> QED
    BY <1>5, <1>6

-----------------------------------------------------------------------------
(***************************************************************************)
(* The receiver.                                                           *)
(***************************************************************************)
\* What a segment says of itself.
LEMMA SegmentFields ==
    ASSUME NEW t, NEW toggle, NEW i
    PROVE  LET g == dls_get(t, toggle, i)
           IN  /\ g.kind = "segment" /\ g.toggle = toggle /\ (g.last <=> i = dls_count(t) - 1)
               /\ g.chars.text = t /\ g.chars.index = i
               /\ g.chars.len = Min({t.size - i * DLS_SEG_LEN_CHAR_MAX, DLS_SEG_LEN_CHAR_MAX})
BY DEF dls_get

LEMMA SegsOK ==
    ASSUME NEW t, NEW toggle, NEW k \in Nat
    PROVE  /\ \A x \in Segs(t, toggle, k) :
                 /\ x.toggle = toggle /\ x.chars.text = t /\ x.chars.index \in 0 .. k - 1
                 /\ x.last <=> x.chars.index = dls_count(t) - 1
           /\ \A i \in 0 .. k - 1 : \E x \in Segs(t, toggle, k) : x.chars.index = i
           /\ Segs(t, toggle, k + 1) = Segs(t, toggle, k) \cup {dls_get(t, toggle, k)}
           /\ Segs(t, toggle, 0) = {}
           /\ IsFiniteSet(Segs(t, toggle, k)) /\ Cardinality(Segs(t, toggle, k)) = k
<1> DEFINE S == Segs(t, toggle, k)
           g(i) == dls_get(t, toggle, i)
<1>1. \A i : /\ g(i).toggle = toggle /\ g(i).chars.text = t /\ g(i).chars.index = i
             /\ (g(i).last <=> i = dls_count(t) - 1)
    BY DEF dls_get
<1>2. \A m : Segs(t, toggle, m) = {g(i) : i \in 0 .. m - 1}
    BY DEF Segs
<1> HIDE DEF g
<1>3. \A x \in S : /\ x.toggle = toggle /\ x.chars.text = t /\ x.chars.index \in 0 .. k - 1
                   /\ x.last <=> x.chars.index = dls_count(t) - 1
    BY <1>1, <1>2
<1>4. \A i \in 0 .. k - 1 : \E x \in S : x.chars.index = i
    BY <1>1, <1>2
<1>5. Segs(t, toggle, k + 1) = S \cup {g(k)}
    <2>1. \A i : i \in 0 .. k + 1 - 1 <=> i \in 0 .. k - 1 \/ i = k
        OBVIOUS
    <2> QED
        BY <1>2, <2>1
<1>6. Segs(t, toggle, 0) = {}
    <2>1. 0 .. 0 - 1 = {}
        OBVIOUS
    <2> QED
        BY <1>2, <2>1
<1>7. IsFiniteSet(S) /\ Cardinality(S) = k
    <2> DEFINE f == [i \in 0 .. k - 1 |-> g(i)]
    <2>1. f \in Bijection(0 .. k - 1, S)
      <3>1. f \in [0 .. k - 1 -> S]
          BY <1>2
      <3>2. \A i, j \in 0 .. k - 1 : f[i] = f[j] => i = j
          BY <1>1
      <3>3. \A x \in S : \E i \in 0 .. k - 1 : f[i] = x
          BY <1>2
      <3> HIDE DEF f, S
      <3> QED
          BY <3>1, <3>2, <3>3, Fun_IsBij
    <2>2. IsFiniteSet(0 .. k - 1) /\ Cardinality(0 .. k - 1) = k
        BY FS_Interval
    <2> HIDE DEF f, S
    <2> QED
        BY <2>1, <2>2, FS_Bijection DEF ExistsBijection
<1> QED
    BY <1>3, <1>4, <1>5, <1>6, <1>7 DEF g

\* A segment the receiver does not have: it has one more, and with the last one the label.
LEMMA ReceiveNew ==
    ASSUME NEW t, TextOK(t), NEW toggle, NEW k \in Nat, k < dls_count(t),
           NEW r, RxOK(r), {s \in r.segs : s.toggle = toggle} = Segs(t, toggle, k)
    PROVE  LET q == RxSegment(r, dls_get(t, toggle, k))
           IN  /\ RxOK(q)
               /\ q.segs = Segs(t, toggle, k + 1)
               /\ k + 1 = dls_count(t) =>
                      q.toggle = toggle /\ q.label = [text |-> t, plus |-> NoPlus]
               /\ k + 1 # dls_count(t) => q.toggle = r.toggle /\ q.label = r.label
<1> DEFINE g == dls_get(t, toggle, k)
           old == {s \in r.segs : s.toggle = g.toggle}
           known == \E s \in old : s.chars.index = g.chars.index
           segs == IF known THEN old ELSE old \cup {g}
           complete == \E s \in segs : s.last /\ Cardinality(segs) = s.chars.index + 1
           q == RxSegment(r, g)
<1>1. g.toggle = toggle /\ g.chars.index = k
    BY DEF dls_get
<1>2. q = IF complete /\ ~known
          THEN [segs |-> segs, toggle |-> g.toggle, label |-> [text |-> Text(segs), plus |-> NoPlus]]
          ELSE [r EXCEPT !.segs = segs]
    BY DEF RxSegment
<1> HIDE DEF g, q
<1>3. old = Segs(t, toggle, k)
    BY <1>1
<1> HIDE DEF old
<1>4. ~known
    BY <1>1, <1>3, SegsOK
<1>5. segs = Segs(t, toggle, k + 1)
    BY <1>3, <1>4, SegsOK DEF g
<1> HIDE DEF segs, known
<1>6. /\ \A x \in segs : /\ x.toggle = toggle /\ x.chars.text = t /\ x.chars.index \in 0 .. k
                         /\ x.last <=> x.chars.index = dls_count(t) - 1
      /\ \E x \in segs : x.chars.index = k
      /\ Cardinality(segs) = k + 1
    <2>1. k + 1 \in Nat /\ k + 1 - 1 = k /\ k \in 0 .. k + 1 - 1
        OBVIOUS
    <2> QED
        BY <1>5, <2>1, SegsOK
<1>7. dls_count(t) \in Nat
    BY CountOK
<1>8. complete <=> k + 1 = dls_count(t)
    BY <1>6, <1>7
<1>9. Text(segs) = t
    BY <1>6 DEF Text
<1> HIDE DEF complete
<1>10. CASE k + 1 = dls_count(t)
    <2>1. q = [segs |-> segs, toggle |-> toggle, label |-> [text |-> t, plus |-> NoPlus]]
        BY <1>1, <1>2, <1>4, <1>8, <1>9, <1>10
    <2> QED
        BY <1>5, <1>10, <2>1 DEF RxOK, q, g
<1>11. CASE k + 1 # dls_count(t)
    <2>1. q = [r EXCEPT !.segs = segs]
        BY <1>2, <1>8, <1>11
    <2>2. q = [segs |-> segs, label |-> r.label, toggle |-> r.toggle]
        BY <2>1 DEF RxOK
    <2> QED
        BY <1>5, <1>11, <2>2 DEF RxOK, q, g
<1> QED
    BY <1>10, <1>11

\* A segment that it has, of a label that it has all of, changes nothing.
LEMMA ReceiveKnown ==
    ASSUME NEW t, TextOK(t), NEW toggle, NEW n \in Nat, NEW i \in 0 .. n - 1,
           NEW r, RxOK(r), r.segs = Segs(t, toggle, n)
    PROVE  RxSegment(r, dls_get(t, toggle, i)) = r
<1> DEFINE g == dls_get(t, toggle, i)
           old == {s \in r.segs : s.toggle = g.toggle}
           known == \E s \in old : s.chars.index = g.chars.index
<1>1. g.toggle = toggle /\ g.chars.index = i
    BY DEF dls_get
<1>2. known => RxSegment(r, g) = [r EXCEPT !.segs = old]
    BY DEF RxSegment
<1> HIDE DEF g
<1>3. \A x \in r.segs : x.toggle = toggle
    BY SegsOK
<1>4. old = r.segs
    BY <1>1, <1>3
<1>5. \E x \in r.segs : x.chars.index = i
    BY SegsOK
<1>6. known
    BY <1>1, <1>4, <1>5
<1> HIDE DEF known, old
<1>7. [r EXCEPT !.segs = r.segs] = r
    BY DEF RxOK
<1> QED
    BY <1>2, <1>4, <1>6, <1>7 DEF g

-----------------------------------------------------------------------------
(***************************************************************************)
(* encodeLabel.                                                            *)
(***************************************************************************)
LEMMA TagsOK ==
    ASSUME NEW f, FileOK(f)
    PROVE  Tags(f) \in TagLists
<1> DEFINE pos == {i \in 1 .. f.upto :
                      Inside(f, i) /\ f.lines[i].kind = "DL_PLUS_TAG"
                      /\ f.lines[i].value \in [1 .. 3 -> 0 .. 127]}
           p == At(f.lines, pos)
           m == Min({4, Len(p)})
           TagSet == [1 .. 3 -> 0 .. 127]
<1>1. Tags(f) = [i \in 1 .. m |-> p[i].value]
    BY DEF Tags, Params, TagValues
<1>2. f.upto \in Nat /\ pos \in SUBSET (1 .. f.upto) /\ \A i \in pos : f.lines[i].value \in TagSet
    <2>1. f.upto \in Nat
        BY DEF FileOK
    <2>2. pos \in SUBSET (1 .. f.upto) /\ \A i \in pos : f.lines[i].value \in TagSet
        <3> HIDE DEF TagSet
        <3> QED
            BY DEF TagSet
    <2> QED
        BY <2>1, <2>2
<1> HIDE DEF pos, TagSet
<1>3. Len(p) \in Nat /\ \A k \in 1 .. Len(p) : \E i \in pos : p[k] = f.lines[i]
    BY <1>2, AtOK
<1> HIDE DEF p
<1>4. m \in 0 .. 4 /\ m <= Len(p)
    BY <1>3, MinOfTwo
<1> HIDE DEF m
<1>5. \A i \in 1 .. m : p[i].value \in TagSet
    BY <1>2, <1>3, <1>4
<1>6. Tags(f) \in Seq(TagSet) /\ Len(Tags(f)) = m
    BY <1>1, <1>4, <1>5
<1> QED
    BY <1>4, <1>6 DEF TagLists, TagSet

LEMMA ParseOK ==
    ASSUME NEW f, FileOK(f)
    PROVE  StateOK(ParseLabel(f))
<1>1. TextOK(TextOf(f)) /\ Tags(f) \in TagLists
    BY TextOfOK, TagsOK
<1>2. \A kind : Flag(f, kind) \in BOOLEAN
    BY DEF Flag
<1> QED
    BY <1>1, <1>2 DEF StateOK, ParseLabel

LEMMA DL_STATE_OK == StateOK(DL_STATE) /\ TextOK(EmptyText)
<1>1. <<>> \in TagLists
    BY EmptySeq DEF TagLists
<1>2. TextOK(EmptyText)
    <2>1. Range(<<>>) = {}
        BY DEF Range
    <2> QED
        BY <2>1 DEF TextOK, EmptyText, Sizes, MAXDLS
<1> QED
    BY <1>1, <1>2 DEF StateOK, DL_STATE

LEMMA WithTagOK ==
    ASSUME NEW s, StateOK(s)
    PROVE  /\ StateOK(WithTag(s))
           /\ WithTag(s).dl_plus_enabled => WithTag(s).tags # <<>>
<1>1. CASE s.dl_plus_enabled /\ s.tags = <<>>
    <2>1. WithTag(s) = [s EXCEPT !.tags = <<DUMMY>>]
        BY <1>1 DEF WithTag
    <2>2. WithTag(s) = [text |-> s.text, dl_plus_enabled |-> s.dl_plus_enabled,
                        item_toggle |-> s.item_toggle, item_running |-> s.item_running,
                        tags |-> <<DUMMY>>]
        BY <2>1 DEF StateOK
    <2>3. DUMMY \in [1 .. 3 -> 0 .. 127]
        BY DEF DUMMY
    <2>4. <<DUMMY>> \in TagLists /\ <<DUMMY>> # <<>>
        BY <2>3 DEF TagLists
    <2> QED
        BY <2>2, <2>4 DEF StateOK
<1>2. CASE ~(s.dl_plus_enabled /\ s.tags = <<>>)
    BY <1>2 DEF WithTag
<1> QED
    BY <1>1, <1>2

\* Labels that are the same to encodeLabel are sent as the same data groups.
LEMMA SameLabel ==
    ASSUME NEW a, NEW b, SameState(a, b), NEW toggle
    PROVE  a.text = b.text /\ Plus(a) = Plus(b) /\ LabelDGs(a, toggle) = LabelDGs(b, toggle)
<1>1. a.text = b.text /\ (a.dl_plus_enabled = b.dl_plus_enabled) /\ Plus(a) = Plus(b)
    BY DEF SameState, Plus
<1> QED
    BY <1>1 DEF LabelDGs

\* What Encode does, in terms of the label that it remembers.
LEMMA EncodeQueues ==
    ASSUME TypeInv, Encode
    PROVE  LET s   == WithTag(cur)
               new == ~SameState(s, dl_state_prev)
           IN  /\ StateOK(s) /\ StateOK(dl_state_prev')
               /\ dl_state_prev'.dl_plus_enabled => dl_state_prev'.tags # <<>>
               /\ s.text = dl_state_prev'.text
               /\ Whole' = [text |-> s.text, plus |-> Plus(s)]
               /\ dls_toggle' \in BOOLEAN
               /\ (new => dls_toggle' # dls_toggle)
               /\ (~new => dls_toggle' = dls_toggle /\ dl_state_prev' = dl_state_prev)
               /\ chan' = (IF new /\ remove_dls THEN <<RemoveLabelDG>> ELSE <<>>) \o Label'
<1> DEFINE s   == WithTag(cur)
           new == ~SameState(s, dl_state_prev)
<1>1. /\ chan' = DataGroups(s, new)
      /\ dls_toggle' = (dls_toggle # new)
      /\ dl_state_prev' = IF new THEN s ELSE dl_state_prev
    BY DEF Encode
<1>2. StateOK(s) /\ (s.dl_plus_enabled => s.tags # <<>>)
    BY WithTagOK DEF TypeInv
<1>3. StateOK(dl_state_prev) /\ (dl_state_prev.dl_plus_enabled => dl_state_prev.tags # <<>>)
    BY DEF TypeInv
<1>4. new \in BOOLEAN
    BY DEF SameState
<1>5. dls_toggle \in BOOLEAN
    BY DEF TypeInv
<1> HIDE DEF s
<1>6. CASE new
    <2>1. dl_state_prev' = s
        BY <1>1, <1>6
    <2>2. dls_toggle' = (dls_toggle # TRUE)
        BY <1>1, <1>6
    <2>3. dls_toggle' \in BOOLEAN /\ dls_toggle' # dls_toggle
        BY <1>5, <2>2
    <2>4. DataGroups(s, new) =
              (IF new /\ remove_dls THEN <<RemoveLabelDG>> ELSE <<>>) \o LabelDGs(s, dls_toggle # new)
        BY DEF DataGroups
    <2>5. (dls_toggle # new) = dls_toggle'
        BY <1>1
    <2> QED
        BY <1>1, <1>2, <1>6, <2>1, <2>3, <2>4, <2>5 DEF Label, Whole, s
<1>7. CASE ~new
    <2>1. dl_state_prev' = dl_state_prev /\ SameState(s, dl_state_prev)
        BY <1>1, <1>7
    <2>2. dls_toggle' = (dls_toggle # FALSE)
        BY <1>1, <1>7
    <2>3. dls_toggle' \in BOOLEAN /\ dls_toggle' = dls_toggle
        BY <1>5, <2>2
    <2>4. DataGroups(s, new) =
              (IF new /\ remove_dls THEN <<RemoveLabelDG>> ELSE <<>>) \o LabelDGs(s, dls_toggle # new)
        BY DEF DataGroups
    <2>5. (dls_toggle # new) = dls_toggle'
        BY <1>1
    <2>6. s.text = dl_state_prev.text /\ Plus(s) = Plus(dl_state_prev)
          /\ LabelDGs(s, dls_toggle') = LabelDGs(dl_state_prev, dls_toggle')
        BY <2>1, SameLabel
    <2> QED
        BY <1>1, <1>2, <1>3, <1>7, <2>1, <2>3, <2>4, <2>5, <2>6 DEF Label, Whole, s
<1> QED
    BY <1>6, <1>7

\* The label of a state that was encoded, and how long it is.
LEMMA LabelLength ==
    ASSUME NEW s, TextOK(s.text), NEW T
    PROVE  /\ dls_count(s.text) \in Nat
           /\ (dls_count(s.text) = 0 <=> s.text = EmptyText)
           /\ \E S : LabelDGs(s, T) \in Seq(S)
           /\ Len(LabelDGs(s, T)) = dls_count(s.text) + (IF s.dl_plus_enabled THEN 1 ELSE 0)
BY LabelShape, CountOK

\* A label that is complete is sent again, or the next one after it.
LEMMA EncodeStep ==
    ASSUME LabelInv, Encode
    PROVE  TypeInv' /\ ChanInv' /\ CurrentInv' /\ RxInv'
<1> DEFINE s   == WithTag(cur)
           new == ~SameState(s, dl_state_prev)
           rem == IF new /\ remove_dls THEN <<RemoveLabelDG>> ELSE <<>>
<1>1. /\ StateOK(s) /\ StateOK(dl_state_prev')
      /\ dl_state_prev'.dl_plus_enabled => dl_state_prev'.tags # <<>>
      /\ s.text = dl_state_prev'.text
      /\ Whole' = [text |-> s.text, plus |-> Plus(s)]
      /\ dls_toggle' \in BOOLEAN
      /\ (new => dls_toggle' # dls_toggle)
      /\ (~new => dls_toggle' = dls_toggle /\ dl_state_prev' = dl_state_prev)
      /\ chan' = rem \o Label'
    BY EncodeQueues DEF LabelInv
<1>2. /\ pc = "encode" /\ pc' = "idle" /\ cur' = DL_STATE
      /\ file' = file /\ item' = item /\ ucs2' = ucs2 /\ rx' = rx
      /\ current' = IF s.text # EmptyText THEN [text |-> s.text, plus |-> Plus(s)]
                    ELSE IF new /\ remove_dls THEN NoLabel
                    ELSE current
      /\ states' = states \cup {[text |-> s.text, plus |-> Plus(s)]}
      /\ silent' = (silent \/ (new /\ s.text = EmptyText /\ ~remove_dls))
    BY DEF Encode, fileVars, optionVars
<1>3. /\ Segments' \in Nat /\ (Segments' = 0 <=> s.text = EmptyText)
      /\ (\E S : Label' \in Seq(S))
      /\ Len(Label') \in Nat
    <2>1. TextOK(dl_state_prev'.text)
        BY <1>1 DEF StateOK
    <2> QED
        BY <1>1, <2>1, LabelLength DEF Segments, Label
<1>4. /\ Len(Label) = Segments + (IF dl_state_prev.dl_plus_enabled THEN 1 ELSE 0)
      /\ Segments \in Nat /\ (Segments = 0 <=> dl_state_prev.text = EmptyText)
    <2>1. TextOK(dl_state_prev.text)
        BY DEF LabelInv, TypeInv, StateOK
    <2> QED
        BY <2>1, LabelLength DEF Segments, Label
<1>5. chan = <<>> /\ Len(chan) = 0 /\ Arrived = Len(Label)
    <2>1. chan = <<>>
        BY <1>2 DEF LabelInv, TypeInv
    <2> QED
        BY <1>4, <2>1 DEF Arrived
<1>6. /\ \E S : chan' \in Seq(S)
      /\ (new /\ remove_dls) => /\ Len(chan') = Len(Label') + 1
                                /\ chan'[1].kind = "remove"
                                /\ \A i \in 1 .. Len(Label') : chan'[i + 1] = Label'[i]
      /\ ~(new /\ remove_dls) => chan' = Label'
    <2>1. PICK S : Label' \in Seq(S)
        BY <1>3
    <2> DEFINE S2 == S \cup {RemoveLabelDG}
    <2>2. Label' \in Seq(S2)
        BY <2>1, SeqMonotonic
    <2>3. rem \in Seq(S2)
      <3>1. RemoveLabelDG \in S2
          OBVIOUS
      <3> HIDE DEF S2
      <3>2. <<RemoveLabelDG>> \in Seq(S2) /\ <<>> \in Seq(S2)
          BY <3>1
      <3> QED
          BY <3>2
    <2> HIDE DEF S2
    <2>4. CASE new /\ remove_dls
        <3>1. rem = <<RemoveLabelDG>> /\ Len(rem) = 1 /\ rem[1] = RemoveLabelDG
            BY <2>4
        <3> HIDE DEF rem, new, s
        <3>2. /\ chan' \in Seq(S2) /\ Len(chan') = Len(rem) + Len(Label')
              /\ \A i \in 1 .. Len(rem) + Len(Label') :
                    chan'[i] = IF i <= Len(rem) THEN rem[i] ELSE Label'[i - Len(rem)]
            BY <1>1, <2>2, <2>3, ConcatProperties, Zenon
        <3>3. RemoveLabelDG.kind = "remove"
            BY DEF RemoveLabelDG
        <3>4. chan'[1] = RemoveLabelDG
            BY <1>3, <3>1, <3>2
        <3>5. \A i \in 1 .. Len(Label') : chan'[i + 1] = Label'[i]
            BY <1>3, <3>1, <3>2
        <3> QED
            BY <1>3, <2>4, <3>1, <3>2, <3>3, <3>4, <3>5
    <2>5. CASE ~(new /\ remove_dls)
        <3>1. rem = <<>>
            BY <2>5
        <3> HIDE DEF rem, new, s
        <3>2. chan' = Label'
            BY <1>1, <2>2, <3>1, ConcatEmptySeq
        <3> QED
            BY <2>2, <2>5, <3>2
    <2> QED
        BY <2>4, <2>5
<1>7. /\ (new /\ remove_dls) => Arrived' = -1
      /\ ~(new /\ remove_dls) => Arrived' = 0
    BY <1>3, <1>6 DEF Arrived
<1> HIDE DEF s, rem
<1>8. TypeInv'
    <2>1. chan' \in Seq(Range(chan'))
        BY <1>6, OwnElements
    <2>2. FileOK(file') /\ FileOK(item') /\ StateOK(DL_STATE)
        BY <1>2, DL_STATE_OK DEF LabelInv, TypeInv
    <2> QED
        BY <1>1, <1>2, <2>1, <2>2 DEF TypeInv, StateOK, TextOK, Sizes
<1>9. ChanInv'
    <2>1. Len(chan') <= Len(Label') + 1
        BY <1>3, <1>6
    <2>2. ASSUME NEW i \in 1 .. Len(chan')
          PROVE  IF Arrived' + i = 0 THEN chan'[i].kind = "remove" ELSE chan'[i] = Label'[Arrived' + i]
        <3>1. CASE new /\ remove_dls
            <4>1. i = 1 \/ (i - 1 \in 1 .. Len(Label') /\ i = i - 1 + 1)
                BY <1>3, <1>6, <3>1
            <4>2. Arrived' + i = i - 1
                BY <1>7, <3>1
            <4> QED
                BY <1>6, <3>1, <4>1, <4>2
        <3>2. CASE ~(new /\ remove_dls)
            <4>1. Arrived' + i = i /\ i # 0
                BY <1>7, <3>2
            <4> QED
                BY <1>6, <3>2, <4>1
        <3> QED
            BY <3>1, <3>2
    <2> QED
        BY <2>1, <2>2 DEF ChanInv
<1>10. CurrentInv'
    <2>1. Whole' \in states'
        BY <1>1, <1>2
    <2>2. ASSUME ~silent' PROVE current' = IF Segments' > 0 THEN Whole' ELSE NoLabel
        <3>1. ~silent
            BY <1>2, <2>2
        <3>2. CASE s.text # EmptyText
            BY <1>1, <1>2, <1>3, <3>2
        <3>3. CASE s.text = EmptyText /\ new
            <4>1. remove_dls
                BY <1>2, <2>2, <3>3
            <4>2. current' = NoLabel
                BY <1>2, <3>3, <4>1
            <4>3. ~(Segments' > 0)
                BY <1>3, <3>3
            <4> QED
                BY <4>2, <4>3
        <3>4. CASE s.text = EmptyText /\ ~new
            <4>1. Segments = 0
                BY <1>1, <1>4, <3>4
            <4>2. current = NoLabel
                BY <3>1, <4>1 DEF LabelInv, CurrentInv
            <4> QED
                BY <1>2, <1>3, <3>4, <4>2
        <3> QED
            BY <3>2, <3>3, <3>4
    <2> QED
        BY <2>1, <2>2 DEF CurrentInv
<1>11. RxInv'
    <2> SUFFICES ASSUME ~silent'
                 PROVE  RxOK(rx') /\ (RxNothing' \/ RxPart' \/ RxComplete' \/ RxEmpty')
        BY DEF RxInv, RxOK
    <2>1. ~silent /\ ~(new /\ s.text = EmptyText /\ ~remove_dls)
        BY <1>2
    <2>2. RxOK(rx) /\ (RxNothing \/ RxPart \/ RxComplete \/ RxEmpty)
        BY <2>1 DEF LabelInv, RxInv
    <2>3. RxComplete \/ RxEmpty
        BY <1>4, <1>5, <2>2 DEF RxNothing, RxPart
    <2>4. CASE new
        <3>1. \A x \in rx.segs : x.toggle = dls_toggle
            BY <1>4, <2>3, SegsOK DEF RxComplete, RxEmpty, First
        <3>2. rx.label # NoLabel => rx.toggle = dls_toggle
            BY <2>3 DEF RxComplete, RxEmpty
        <3>3. dls_toggle' # dls_toggle
            BY <1>1, <2>4
        <3>4. Arrived' <= 0 /\ (Segments' > 0 \/ Arrived' = -1)
            BY <1>3, <1>7, <2>1, <2>4
        <3>5. RxNothing'
            BY <1>2, <3>1, <3>2, <3>3, <3>4 DEF RxNothing, OldLabel
        <3> QED
            BY <1>2, <2>2, <3>5
    <2>5. CASE ~new
        <3>1. dls_toggle' = dls_toggle /\ dl_state_prev' = dl_state_prev /\ Arrived' = 0
            BY <1>1, <1>7, <2>5
        <3>2. Segments' = Segments /\ Whole' = Whole /\ First(Segments)' = First(Segments)
            BY <3>1 DEF Segments, Whole, First
        <3>3. ASSUME RxComplete PROVE RxComplete'
            <4>1. rx.label = Whole
                <5>1. CASE rx.label = [Whole EXCEPT !.plus = NoPlus] /\ Arrived = Segments
                    <6>1. ~dl_state_prev.dl_plus_enabled
                        BY <1>4, <1>5, <5>1
                    <6>2. Plus(dl_state_prev) = NoPlus
                        BY <6>1 DEF Plus
                    <6> QED
                        BY <5>1, <6>2 DEF Whole
                <5> QED
                    BY <3>3, <5>1 DEF RxComplete
            <4> QED
                BY <1>2, <3>1, <3>2, <3>3, <4>1 DEF RxComplete, First
        <3>4. ASSUME RxEmpty PROVE RxEmpty'
            BY <1>2, <3>1, <3>2, <3>4 DEF RxEmpty
        <3> QED
            BY <1>2, <2>2, <2>3, <3>3, <3>4
    <2> QED
        BY <2>4, <2>5
<1> QED
    BY <1>8, <1>9, <1>10, <1>11

\* What the next data group of the channel is.
LEMMA NextDelivered ==
    ASSUME TypeInv, ChanInv, Deliver
    PROVE  /\ rx' = Receive(rx, chan[1])
           /\ Label' = Label /\ Segments' = Segments /\ Whole' = Whole
           /\ Arrived' = Arrived + 1 /\ Arrived \in Int /\ Arrived >= -1 /\ Arrived < Len(Label)
           /\ Segments \in Nat /\ (Segments = 0 <=> dl_state_prev.text = EmptyText)
           /\ Len(Label) = Segments + (IF dl_state_prev.dl_plus_enabled THEN 1 ELSE 0)
           /\ \E S : chan' \in Seq(S)
           /\ ChanInv'
           /\ Arrived = -1 => chan[1].kind = "remove"
           /\ Arrived \in 0 .. Segments - 1 =>
                  chan[1] = dls_get(dl_state_prev.text, dls_toggle, Arrived)
           /\ Arrived >= Segments => /\ Arrived = Segments /\ dl_state_prev.dl_plus_enabled
                                     /\ chan[1] = PlusDG(dl_state_prev, dls_toggle)
<1>1. /\ chan # <<>> /\ rx' = Receive(rx, Head(chan)) /\ chan' = Tail(chan)
      /\ dls_toggle' = dls_toggle /\ dl_state_prev' = dl_state_prev
    BY DEF Deliver, encoderVars
<1>2. /\ Label' = Label /\ Segments' = Segments /\ Whole' = Whole
    BY <1>1 DEF Label, Segments, Whole
<1>3. /\ Segments \in Nat /\ (Segments = 0 <=> dl_state_prev.text = EmptyText)
      /\ Len(Label) = Segments + (IF dl_state_prev.dl_plus_enabled THEN 1 ELSE 0)
      /\ \A i \in 1 .. Segments : Label[i] = dls_get(dl_state_prev.text, dls_toggle, i - 1)
      /\ dl_state_prev.dl_plus_enabled => Label[Segments + 1] = PlusDG(dl_state_prev, dls_toggle)
    <2>1. TextOK(dl_state_prev.text)
        BY DEF TypeInv, StateOK
    <2> QED
        BY <2>1, LabelShape, CountOK DEF Segments, Label
<1> DEFINE R == Range(chan)
<1>4. chan \in Seq(R)
    BY DEF TypeInv
<1> HIDE DEF R
<1>5. /\ Len(chan) \in Nat \ {0} /\ Head(chan) = chan[1]
      /\ chan' \in Seq(R) /\ Len(chan') = Len(chan) - 1
      /\ \A i \in 1 .. Len(chan) - 1 : chan'[i] = chan[i + 1]
    BY <1>1, <1>4
<1>6. /\ Len(chan) <= Len(Label) + 1
      /\ \A i \in 1 .. Len(chan) :
            IF Arrived + i = 0 THEN chan[i].kind = "remove" ELSE chan[i] = Label[Arrived + i]
    BY DEF ChanInv
<1>7. /\ Arrived' = Arrived + 1 /\ Arrived \in Int /\ Arrived >= -1 /\ Arrived < Len(Label)
      /\ Len(Label) \in Nat /\ Arrived = Len(Label) - Len(chan)
    BY <1>2, <1>3, <1>5, <1>6 DEF Arrived
<1> HIDE DEF Arrived
<1>8. ChanInv'
    <2>1. Len(chan') <= Len(Label') + 1
        BY <1>2, <1>5, <1>6, <1>7
    <2>2. ASSUME NEW i \in 1 .. Len(chan')
          PROVE  IF Arrived' + i = 0 THEN chan'[i].kind = "remove" ELSE chan'[i] = Label'[Arrived' + i]
        <3>1. i \in 1 .. Len(chan) - 1 /\ i + 1 \in 1 .. Len(chan) /\ Arrived' + i = Arrived + (i + 1)
            BY <1>5, <1>7
        <3> QED
            BY <1>2, <1>5, <1>6, <3>1
    <2> QED
        BY <2>1, <2>2 DEF ChanInv
<1>9. IF Arrived + 1 = 0 THEN chan[1].kind = "remove" ELSE chan[1] = Label[Arrived + 1]
    BY <1>5, <1>6
<1>10. Arrived \in 0 .. Segments - 1 => chan[1] = dls_get(dl_state_prev.text, dls_toggle, Arrived)
    BY <1>3, <1>7, <1>9
<1>11. Arrived >= Segments => /\ Arrived = Segments /\ dl_state_prev.dl_plus_enabled
                              /\ chan[1] = PlusDG(dl_state_prev, dls_toggle)
    BY <1>3, <1>7, <1>9
<1>12. \E S : chan' \in Seq(S)
    BY <1>5
<1>13. rx' = Receive(rx, chan[1])
    BY <1>1, <1>5
<1>14. Arrived = -1 => chan[1].kind = "remove"
    BY <1>9
<1> QED
    BY <1>2, <1>3, <1>7, <1>8, <1>10, <1>11, <1>12, <1>13, <1>14

\* How far the receiver is with the data group after it.
LEMMA DeliverStep ==
    ASSUME LabelInv, Deliver
    PROVE  /\ TypeInv' /\ ChanInv' /\ CurrentInv' /\ RxInv'
           /\ ~silent => \/ rx'.label \in {rx.label, NoLabel}
                         \/ Whole \in states /\ rx'.label \in {Whole, [Whole EXCEPT !.plus = NoPlus]}
<1> DEFINE t == dl_state_prev.text
           T == dls_toggle
<1>1. /\ rx' = Receive(rx, chan[1])
      /\ Label' = Label /\ Segments' = Segments /\ Whole' = Whole
      /\ Arrived' = Arrived + 1 /\ Arrived \in Int /\ Arrived >= -1 /\ Arrived < Len(Label)
      /\ Segments \in Nat /\ (Segments = 0 <=> t = EmptyText)
      /\ Len(Label) = Segments + (IF dl_state_prev.dl_plus_enabled THEN 1 ELSE 0)
      /\ ChanInv'
      /\ Arrived = -1 => chan[1].kind = "remove"
      /\ Arrived \in 0 .. Segments - 1 => chan[1] = dls_get(t, T, Arrived)
      /\ Arrived >= Segments => /\ Arrived = Segments /\ dl_state_prev.dl_plus_enabled
                                /\ chan[1] = PlusDG(dl_state_prev, T)
    BY NextDelivered DEF LabelInv
<1>2. \E S : chan' \in Seq(S)
    BY NextDelivered DEF LabelInv
<1>3. /\ UNCHANGED <<file, item, ucs2, pc, cur, dls_toggle, dl_state_prev, current, states, silent>>
      /\ chan # <<>>
    BY DEF Deliver, fileVars, optionVars, encoderVars, historyVars
<1>4. TypeInv'
    <2>1. chan' \in Seq(Range(chan'))
        BY <1>2, OwnElements
    <2> QED
        BY <1>3, <2>1 DEF LabelInv, TypeInv, StateOK, TextOK, Sizes
<1>5. CurrentInv'
    BY <1>1, <1>3 DEF LabelInv, CurrentInv
<1>6. TextOK(t)
    BY DEF LabelInv, TypeInv, StateOK
<1>7. Segments = dls_count(t) /\ Whole = [text |-> t, plus |-> Plus(dl_state_prev)]
      /\ \A k : First(k) = Segs(t, T, k) /\ First(k)' = Segs(t, T, k)
    BY <1>3 DEF Segments, Whole, First
<1>8. ASSUME ~silent
      PROVE  /\ RxOK(rx') /\ (RxNothing' \/ RxPart' \/ RxComplete' \/ RxEmpty')
             /\ \/ rx'.label \in {rx.label, NoLabel}
                \/ Segments > 0 /\ rx'.label \in {Whole, [Whole EXCEPT !.plus = NoPlus]}
  <2>1. RxOK(rx) /\ (RxNothing \/ RxPart \/ RxComplete \/ RxEmpty)
      BY <1>8 DEF LabelInv, RxInv
  <2>2. CASE Arrived = -1
    <3>1. rx' = RxInit
        BY <1>1, <2>2 DEF Receive
    <3>2. RxOK(rx') /\ rx'.segs = {} /\ rx'.label = NoLabel
        BY <3>1 DEF RxInit, RxOK
    <3>3. Arrived' = 0
        BY <1>1, <2>2
    <3>4. RxNothing' \/ RxEmpty'
        BY <1>1, <3>2, <3>3 DEF RxNothing, RxEmpty, OldLabel
    <3> QED
        BY <3>2, <3>4
  <2>3. CASE Arrived \in 0 .. Segments - 1
    <3>1. chan[1] = dls_get(t, T, Arrived)
        BY <1>1, <2>3
    <3>2. rx' = RxSegment(rx, dls_get(t, T, Arrived))
      <4>1. dls_get(t, T, Arrived).kind = "segment"
          BY DEF dls_get
      <4> QED
          BY <1>1, <3>1, <4>1 DEF Receive
    <3>3. CASE RxComplete
      <4>1. rx.segs = Segs(t, T, Segments)
          BY <1>7, <3>3 DEF RxComplete
      <4>2. rx' = rx
          BY <1>1, <1>6, <2>1, <2>3, <3>2, <4>1, ReceiveKnown
      <4>3. rx.label = Whole
          BY <1>1, <2>3, <3>3 DEF RxComplete
      <4>4. RxComplete'
          BY <1>1, <1>3, <1>7, <3>3, <4>1, <4>2, <4>3 DEF RxComplete
      <4> QED
          BY <2>1, <4>2, <4>4
    <3>4. CASE RxNothing \/ RxPart
      <4>1. {x \in rx.segs : x.toggle = T} = Segs(t, T, Arrived)
        <5>1. CASE RxNothing
          <6>1. Arrived = 0
              BY <1>1, <2>3, <5>1 DEF RxNothing
          <6>2. Segs(t, T, 0) = {}
              BY SegsOK
          <6> QED
              BY <5>1, <6>1, <6>2 DEF RxNothing
        <5>2. CASE RxPart
          <6>1. rx.segs = Segs(t, T, Arrived) /\ Arrived \in Nat
              BY <1>7, <2>3, <5>2 DEF RxPart
          <6>2. \A x \in rx.segs : x.toggle = T
              BY <6>1, SegsOK
          <6> QED
              BY <6>1, <6>2
        <5> QED
            BY <3>4, <5>1, <5>2
      <4>2. Arrived \in Nat /\ Arrived < dls_count(t)
          BY <1>1, <1>7, <2>3
      <4>3. OldLabel
          BY <3>4 DEF RxNothing, RxPart
      <4>4. /\ RxOK(rx')
            /\ rx'.segs = Segs(t, T, Arrived + 1)
            /\ Arrived + 1 = dls_count(t) => rx'.toggle = T /\ rx'.label = [text |-> t, plus |-> NoPlus]
            /\ Arrived + 1 # dls_count(t) => rx'.toggle = rx.toggle /\ rx'.label = rx.label
          BY <1>6, <2>1, <3>2, <4>1, <4>2, ReceiveNew
      <4>5. CASE Arrived + 1 = dls_count(t)
        <5>1. rx'.label = [Whole EXCEPT !.plus = NoPlus]
            BY <1>7, <4>4, <4>5
        <5>2. RxComplete'
            BY <1>1, <1>3, <1>7, <4>2, <4>4, <4>5, <5>1 DEF RxComplete
        <5>3. Segments > 0
            BY <5>2, <1>1 DEF RxComplete
        <5> QED
            BY <4>4, <5>1, <5>2, <5>3
      <4>6. CASE Arrived + 1 # dls_count(t)
        <5>1. OldLabel'
            BY <1>3, <4>3, <4>4, <4>6 DEF OldLabel
        <5>2. RxPart'
            BY <1>1, <1>7, <2>3, <4>2, <4>4, <4>6, <5>1 DEF RxPart
        <5> QED
            BY <4>4, <4>6, <5>2
      <4> QED
          BY <4>5, <4>6
    <3>5. ~RxEmpty
        BY <1>1, <2>3 DEF RxEmpty
    <3> QED
        BY <2>1, <3>3, <3>4, <3>5
  <2>4. CASE Arrived >= Segments
    <3>1. chan[1] = PlusDG(dl_state_prev, T) /\ Arrived = Segments
        BY <1>1, <2>4
    <3>2. rx' = IF rx.label # NoLabel /\ rx.toggle = T
                THEN [rx EXCEPT !.label.plus = Plus(dl_state_prev)] ELSE rx
        BY <1>1, <3>1 DEF Receive, PlusDG
    <3>3. RxComplete \/ RxEmpty
        BY <1>1, <2>1, <3>1 DEF RxNothing, RxPart
    <3>4. CASE RxComplete
      <4>1. rx.label # NoLabel
        <5>1. rx.label.text = t /\ t # EmptyText
            BY <1>1, <1>7, <3>4 DEF RxComplete
        <5> QED
            BY <5>1 DEF NoLabel
      <4>2. rx' = [rx EXCEPT !.label.plus = Plus(dl_state_prev)]
          BY <3>2, <3>4, <4>1 DEF RxComplete
      <4>3. rx.label = [text |-> t, plus |-> rx.label.plus]
          BY <1>7, <3>4 DEF RxComplete
      <4>4. rx' = [segs |-> rx.segs, label |-> Whole, toggle |-> rx.toggle]
          BY <1>7, <2>1, <4>2, <4>3 DEF RxOK
      <4>5. RxOK(rx') /\ rx'.label = Whole /\ rx'.segs = rx.segs /\ rx'.toggle = rx.toggle
          BY <4>4 DEF RxOK
      <4>6. RxComplete'
          BY <1>1, <1>3, <1>7, <3>4, <4>5 DEF RxComplete
      <4>7. Segments > 0
          BY <3>4 DEF RxComplete
      <4> QED
          BY <4>5, <4>6, <4>7
    <3>5. CASE RxEmpty
      <4>1. rx' = rx
          BY <3>2, <3>5 DEF RxEmpty
      <4>2. RxEmpty'
          BY <1>1, <3>5, <4>1 DEF RxEmpty
      <4> QED
          BY <2>1, <4>1, <4>2
    <3> QED
        BY <3>3, <3>4, <3>5
  <2> QED
      BY <1>1, <2>2, <2>3, <2>4
<1>9. RxInv'
    BY <1>3, <1>8 DEF RxInv, RxOK
<1>10. Segments > 0 => Whole \in states
    BY DEF LabelInv, CurrentInv
<1> QED
    BY <1>1, <1>4, <1>5, <1>8, <1>9, <1>10

-----------------------------------------------------------------------------
(***************************************************************************)
(* The theorems.                                                           *)
(***************************************************************************)
labelVars == <<ucs2, dls_toggle, dl_state_prev, chan, rx, current, states, silent>>

\* The steps that are not about the label on the air.
LEMMA OtherSteps ==
    ASSUME LabelInv, UNCHANGED labelVars
    PROVE  ChanInv' /\ CurrentInv' /\ RxInv' /\ LabelIsOne'
<1>1. UNCHANGED <<Label, Segments, Whole, Arrived>>
    BY DEF labelVars, Label, Segments, Whole, Arrived
<1>2. \A k : First(k)' = First(k)
    BY DEF labelVars, First
<1>3. ChanInv' /\ CurrentInv' /\ LabelIsOne'
    BY <1>1 DEF labelVars, LabelInv, ChanInv, CurrentInv, LabelIsOne
<1>4. /\ RxNothing' <=> RxNothing
      /\ RxPart' <=> RxPart
      /\ RxComplete' <=> RxComplete
      /\ RxEmpty' <=> RxEmpty
    BY <1>1, <1>2 DEF labelVars, RxNothing, RxPart, RxComplete, RxEmpty, OldLabel
<1>5. RxInv'
    BY <1>4 DEF labelVars, LabelInv, RxInv, RxOK
<1> QED
    BY <1>3, <1>5

LEMMA NewContent ==
    ASSUME NEW c \in Contents \cup ItemContents
    PROVE  FileOK([there |-> TRUE, lines |-> c, upto |-> 0])
<1>1. c \in Seq(Range(c)) /\ \A i \in 1 .. Len(c) : c[i].size \in Nat
    BY FileAssumption
<1>2. Len(c) \in Nat
    BY <1>1
<1> QED
    BY <1>1, <1>2 DEF FileOK, LineSeq

LEMMA OneMoreLine ==
    ASSUME NEW f, FileOK(f), f.upto < Len(f.lines), NEW g, g = [f EXCEPT !.upto = @ + 1]
    PROVE  g.lines = f.lines /\ (g = f \/ g.upto = f.upto + 1)
OBVIOUS

LEMMA NextLabelInv == LabelInv /\ [Next]_vars => LabelInv'
<1> SUFFICES ASSUME LabelInv, [Next]_vars PROVE LabelInv'
    OBVIOUS
<1>1. ASSUME NEW c \in Contents, RewriteLabel(c) PROVE LabelInv'
    <2>1. FileOK(file')
        BY <1>1, NewContent DEF RewriteLabel
    <2>2. UNCHANGED labelVars /\ UNCHANGED <<item, pc, cur>>
        BY <1>1 DEF RewriteLabel, optionVars, encoderVars, historyVars, labelVars
    <2> QED
        BY <2>1, <2>2, OtherSteps DEF LabelInv, TypeInv, labelVars, StateOK, TextOK, Sizes
<1>2. ASSUME NEW c \in ItemContents, RewriteItem(c) PROVE LabelInv'
    <2>1. FileOK(item')
        BY <1>2, NewContent DEF RewriteItem
    <2>2. UNCHANGED labelVars /\ UNCHANGED <<file, pc, cur>>
        BY <1>2 DEF RewriteItem, optionVars, encoderVars, historyVars, labelVars
    <2> QED
        BY <2>1, <2>2, OtherSteps DEF LabelInv, TypeInv, labelVars, StateOK, TextOK, Sizes
<1>3. CASE WriteLabelLine
    <2>1. FileOK(file')
      <3>1. FileOK(file)
          BY DEF LabelInv, TypeInv
      <3>2. file' = [file EXCEPT !.upto = @ + 1] /\ file.upto < Len(file.lines)
          BY <1>3 DEF WriteLabelLine
      <3>3. file'.lines = file.lines /\ (file' = file \/ file'.upto = file.upto + 1)
          BY <3>1, <3>2, OneMoreLine
      <3>4. Len(file.lines) \in Nat
          BY <3>1 DEF FileOK, LineSeq
      <3> QED
          BY <3>1, <3>2, <3>3, <3>4 DEF FileOK
    <2>2. UNCHANGED labelVars /\ UNCHANGED <<item, pc, cur>>
        BY <1>3 DEF WriteLabelLine, optionVars, encoderVars, historyVars, labelVars
    <2> QED
        BY <2>1, <2>2, OtherSteps DEF LabelInv, TypeInv, labelVars, StateOK, TextOK, Sizes
<1>4. CASE WriteItemLine
    <2>1. FileOK(item')
      <3>1. FileOK(item)
          BY DEF LabelInv, TypeInv
      <3>2. item' = [item EXCEPT !.upto = @ + 1] /\ item.upto < Len(item.lines)
          BY <1>4 DEF WriteItemLine
      <3>3. item'.lines = item.lines /\ (item' = item \/ item'.upto = item.upto + 1)
          BY <3>1, <3>2, OneMoreLine
      <3>4. Len(item.lines) \in Nat
          BY <3>1 DEF FileOK, LineSeq
      <3> QED
          BY <3>1, <3>2, <3>3, <3>4 DEF FileOK
    <2>2. UNCHANGED labelVars /\ UNCHANGED <<file, pc, cur>>
        BY <1>4 DEF WriteItemLine, optionVars, encoderVars, historyVars, labelVars
    <2> QED
        BY <2>1, <2>2, OtherSteps DEF LabelInv, TypeInv, labelVars, StateOK, TextOK, Sizes
<1>5. CASE EncodeLabel
    <2>1. StateOK(cur')
        BY <1>5, ParseOK DEF EncodeLabel, LabelInv, TypeInv
    <2>2. UNCHANGED labelVars /\ UNCHANGED <<file, item>> /\ chan = <<>> /\ pc' \in {"item", "encode"}
        BY <1>5 DEF EncodeLabel, fileVars, optionVars, historyVars, labelVars
    <2> QED
        BY <2>1, <2>2, OtherSteps DEF LabelInv, TypeInv, labelVars, StateOK, TextOK, Sizes
<1>6. CASE ReadItemState
    <2>1. StateOK(cur')
      <3>1. StateOK(cur) /\ FileOK(item) /\ StateOK(DL_STATE)
          BY DL_STATE_OK DEF LabelInv, TypeInv
      <3>2. CASE item.there
        <4>1. PICK a, b : cur' = [cur EXCEPT !.dl_plus_enabled = TRUE, !.item_toggle = a, !.item_running = b]
            BY <1>6, <3>2 DEF ReadItemState
        <4>2. cur' = [text |-> cur.text, dl_plus_enabled |-> TRUE, item_toggle |-> a,
                      item_running |-> b, tags |-> cur.tags]
            BY <3>1, <4>1 DEF StateOK
        <4> QED
            BY <3>1, <4>2 DEF StateOK
      <3>3. CASE ~item.there
          BY <1>6, <3>1, <3>3 DEF ReadItemState
      <3> QED
          BY <3>2, <3>3
    <2>2. UNCHANGED labelVars /\ UNCHANGED <<file, item>> /\ pc = "item" /\ pc' \in {"idle", "encode"}
        BY <1>6 DEF ReadItemState, fileVars, optionVars, historyVars, labelVars
    <2> QED
        BY <2>1, <2>2, OtherSteps DEF LabelInv, TypeInv, labelVars, StateOK, TextOK, Sizes
<1>7. CASE Encode
    <2>1. TypeInv' /\ ChanInv' /\ CurrentInv' /\ RxInv'
        BY <1>7, EncodeStep
    <2>2. rx' = rx /\ states \subseteq states' /\ (~silent' => ~silent)
        BY <1>7 DEF Encode
    <2>3. LabelIsOne'
        BY <2>2 DEF LabelInv, LabelIsOne
    <2> QED
        BY <2>1, <2>3 DEF LabelInv
<1>8. CASE Deliver
    <2>1. /\ TypeInv' /\ ChanInv' /\ CurrentInv' /\ RxInv'
          /\ ~silent => \/ rx'.label \in {rx.label, NoLabel}
                        \/ Whole \in states /\ rx'.label \in {Whole, [Whole EXCEPT !.plus = NoPlus]}
        BY <1>8, DeliverStep
    <2>2. states' = states /\ silent' = silent
        BY <1>8 DEF Deliver, historyVars
    <2>3. LabelIsOne'
      <3> SUFFICES ASSUME ~silent
                   PROVE  \/ rx'.label = NoLabel
                          \/ rx'.label \in states
                          \/ \E s \in states : rx'.label = [s EXCEPT !.plus = NoPlus]
          BY <2>2 DEF LabelIsOne
      <3>1. CASE rx'.label = rx.label
          BY <3>1 DEF LabelInv, LabelIsOne
      <3>2. CASE rx'.label = NoLabel
          BY <3>2
      <3>3. CASE Whole \in states /\ rx'.label \in {Whole, [Whole EXCEPT !.plus = NoPlus]}
          BY <3>3
      <3> QED
          BY <2>1, <3>1, <3>2, <3>3
    <2> QED
        BY <2>1, <2>3 DEF LabelInv
<1>9. CASE UNCHANGED vars
    <2>1. UNCHANGED labelVars /\ UNCHANGED <<file, item, pc, cur>>
        BY <1>9 DEF vars, fileVars, optionVars, encoderVars, historyVars, labelVars
    <2> QED
        BY <2>1, OtherSteps DEF LabelInv, TypeInv, labelVars, StateOK, TextOK, Sizes
<1> QED
    BY <1>1, <1>2, <1>3, <1>4, <1>5, <1>6, <1>7, <1>8, <1>9 DEF Next, Program

LEMMA InitLabelInv == Init => LabelInv
<1> SUFFICES ASSUME Init PROVE LabelInv
    OBVIOUS
<1>1. /\ file = Absent /\ item = Absent /\ pc = "idle" /\ cur = DL_STATE /\ dls_toggle = FALSE
      /\ dl_state_prev = DL_STATE /\ chan = <<>> /\ rx = RxInit /\ current = NoLabel
    BY DEF Init
<1>2. StateOK(DL_STATE) /\ TextOK(DL_STATE.text)
    BY DL_STATE_OK DEF DL_STATE
<1>3. FileOK(Absent)
    <2>1. <<>> \in Seq(Range(<<>>)) /\ Len(<<>>) = 0
        OBVIOUS
    <2> QED
        BY <2>1 DEF FileOK, LineSeq, Absent
<1>4. ~DL_STATE.dl_plus_enabled /\ DL_STATE.text = EmptyText
    BY DEF DL_STATE
<1>5. TypeInv
    <2>1. chan \in Seq(Range(chan)) /\ Len(chan) = 0
        BY <1>1
    <2>2. FileOK(file) /\ FileOK(item) /\ StateOK(cur) /\ StateOK(dl_state_prev)
        BY <1>1, <1>2, <1>3
    <2>3. pc = "idle" /\ dls_toggle \in BOOLEAN /\ ~dl_state_prev.dl_plus_enabled
        BY <1>1, <1>4
    <2> QED
        BY <2>1, <2>2, <2>3 DEF TypeInv
<1>6. Segments = 0 /\ Len(Label) = 0
    BY <1>1, <1>2, <1>4, LabelLength DEF Segments, Label
<1>7. Arrived = 0
    <2>1. Len(chan) = 0
        BY <1>1
    <2> QED
        BY <1>6, <2>1 DEF Arrived
<1>8. ChanInv
    BY <1>1, <1>6 DEF ChanInv
<1>9. CurrentInv
    BY <1>1, <1>6 DEF CurrentInv
<1>10. RxInv
    BY <1>1, <1>6, <1>7 DEF RxInv, RxOK, RxInit, RxEmpty
<1>11. LabelIsOne
    BY <1>1 DEF LabelIsOne, RxInit
<1> QED
    BY <1>5, <1>8, <1>9, <1>10, <1>11 DEF LabelInv

LEMMA AlwaysLabelInv == Spec => []LabelInv
BY InitLabelInv, NextLabelInv, PTL DEF Spec

\* A receiver that has all that was sent presents the text last encoded, with its own DL
\* Plus, or nothing if it was removed, whatever the files' contents and however often they
\* are rewritten while they are read: as long as no state goes by unsent.
THEOREM ReceiverUpToDate == Spec => []UpToDate
<1>1. LabelInv => UpToDate
  <2> SUFFICES ASSUME LabelInv, chan = <<>>, ~silent PROVE rx.label = current
      BY DEF UpToDate
  <2>1. /\ Len(Label) = Segments + (IF dl_state_prev.dl_plus_enabled THEN 1 ELSE 0)
        /\ Segments \in Nat
    <3>1. TextOK(dl_state_prev.text)
        BY DEF LabelInv, TypeInv, StateOK
    <3> QED
        BY <3>1, LabelLength DEF Segments, Label
  <2>2. Arrived = Len(Label)
      BY <2>1 DEF Arrived
  <2>3. RxComplete \/ RxEmpty
      BY <2>1, <2>2 DEF LabelInv, RxInv, RxNothing, RxPart
  <2>4. CASE RxComplete
    <3>1. current = Whole
        BY <2>4 DEF LabelInv, CurrentInv, RxComplete
    <3>2. CASE rx.label = [Whole EXCEPT !.plus = NoPlus] /\ Arrived = Segments
      <4>1. ~dl_state_prev.dl_plus_enabled
          BY <2>1, <2>2, <3>2
      <4>2. Plus(dl_state_prev) = NoPlus
          BY <4>1 DEF Plus
      <4> QED
          BY <3>1, <3>2, <4>2 DEF Whole
    <3> QED
        BY <2>4, <3>1, <3>2 DEF RxComplete
  <2>5. CASE RxEmpty
      BY <2>1, <2>5 DEF LabelInv, CurrentInv, RxEmpty
  <2> QED
      BY <2>3, <2>4, <2>5
<1> QED
    BY <1>1, AlwaysLabelInv, PTL

\* At no time it presents parts of two texts together, or a text with tags of another one.
THEOREM OneLabel == Spec => []LabelIsOne
<1>1. LabelInv => LabelIsOne
    BY DEF LabelInv
<1> QED
    BY <1>1, AlwaysLabelInv, PTL

\* Lengths, numbers and counts fit the fields of the data groups, the segments are the
\* text, and no UCS-2 character is cut, for every line length and number of tags.
THEOREM GroupsFit == Spec => []FieldsFit
<1>1. LabelInv => FieldsFit
  <2> SUFFICES ASSUME LabelInv, NEW i \in 1 .. Len(chan)
               PROVE  /\ chan[i].kind = "segment" =>
                           LET c == chan[i].chars
                           IN  /\ c.len \in 1 .. 16
                               /\ c.index \in 0 .. 7
                               /\ chan[i].last => c.index * DLS_SEG_LEN_CHAR_MAX + c.len = c.text.size
                               /\ ~chan[i].last => c.len = DLS_SEG_LEN_CHAR_MAX
                               /\ ucs2 => /\ c.len % 2 = 0
                                          /\ \A l \in Range(c.text.lines) : l.bytes % 2 = 0
                      /\ chan[i].kind = "plus" => Len(chan[i].plus[3]) \in 1 .. 4
      BY DEF FieldsFit
  <2> DEFINE t == dl_state_prev.text
             j == Arrived + i
  <2>1. /\ TextOK(t) /\ StateOK(dl_state_prev)
        /\ dl_state_prev.dl_plus_enabled => dl_state_prev.tags # <<>>
      BY DEF LabelInv, TypeInv, StateOK
  <2>2. /\ Segments \in Nat /\ Segments = dls_count(t)
        /\ Len(Label) = Segments + (IF dl_state_prev.dl_plus_enabled THEN 1 ELSE 0)
        /\ \A k \in 1 .. Segments : Label[k] = dls_get(t, dls_toggle, k - 1)
        /\ dl_state_prev.dl_plus_enabled => Label[Segments + 1] = PlusDG(dl_state_prev, dls_toggle)
      BY <2>1, LabelShape DEF Segments, Label
  <2>3. Len(chan) \in Nat /\ Len(chan) <= Len(Label) + 1
      BY DEF LabelInv, TypeInv, ChanInv
  <2>4. j \in 0 .. Len(Label) /\ (j = 0 => chan[i].kind = "remove") /\ (j # 0 => chan[i] = Label[j])
      BY <2>2, <2>3 DEF Arrived, LabelInv, ChanInv
  <2> HIDE DEF j, t
  <2>5. CASE j \in 1 .. Segments
    <3>1. chan[i] = dls_get(t, dls_toggle, j - 1)
        BY <2>2, <2>4, <2>5
    <3>2. /\ t.size \in Nat /\ t.size <= 128 /\ (ucs2 => t.size % 2 = 0)
          /\ \A l \in Range(t.lines) : ucs2 => l.bytes % 2 = 0
        BY <2>1 DEF TextOK, Sizes, MAXDLS
    <3>3. Segments \in 0 .. 8 /\ 16 * (Segments - 1) < t.size /\ t.size <= 16 * Segments
        BY <2>1, <2>2, <2>5, CountOK
    <3> DEFINE m == t.size - (j - 1) * 16
               len == IF m <= 16 THEN m ELSE 16
    <3>4. /\ chan[i].kind = "segment" /\ (chan[i].last <=> j = Segments)
          /\ chan[i].chars.text = t /\ chan[i].chars.index = j - 1
          /\ chan[i].chars.len = Min({m, 16})
      <4> DEFINE g == dls_get(t, dls_toggle, j - 1)
      <4>1. /\ g.kind = "segment" /\ (g.last <=> j - 1 = dls_count(t) - 1)
            /\ g.chars.text = t /\ g.chars.index = j - 1
            /\ g.chars.len = Min({t.size - (j - 1) * DLS_SEG_LEN_CHAR_MAX, DLS_SEG_LEN_CHAR_MAX})
          BY DEF dls_get
      <4>2. j - 1 = dls_count(t) - 1 <=> j = Segments
          BY <2>2, <2>5
      <4>3. Min({t.size - (j - 1) * DLS_SEG_LEN_CHAR_MAX, DLS_SEG_LEN_CHAR_MAX}) = Min({m, 16})
          BY DEF DLS_SEG_LEN_CHAR_MAX
      <4> HIDE DEF g, m
      <4> QED
          BY <3>1, <4>1, <4>2, <4>3 DEF g
    <3>5. m \in Int /\ m >= 1
        BY <2>5, <3>2, <3>3
    <3>6. chan[i].chars.len = len
        BY <3>4, <3>5, MinOfTwo
    <3>7. len \in 1 .. 16 /\ j - 1 \in 0 .. 7
        BY <2>5, <3>3, <3>5
    <3>8. j = Segments => (j - 1) * 16 + len = t.size
        BY <2>5, <3>2, <3>3
    <3>9. j # Segments => len = 16
        BY <2>5, <3>2, <3>3
    <3>10. ucs2 => len % 2 = 0
        BY <2>5, <3>2
    <3> HIDE DEF len, m
    <3> QED
        BY <3>2, <3>4, <3>6, <3>7, <3>8, <3>9, <3>10 DEF DLS_SEG_LEN_CHAR_MAX
  <2>6. CASE j = Segments + 1
    <3>1. dl_state_prev.dl_plus_enabled
        BY <2>2, <2>4, <2>6
    <3>2. chan[i] = PlusDG(dl_state_prev, dls_toggle)
        BY <2>2, <2>4, <2>6, <3>1
    <3>3. chan[i].kind = "plus" /\ chan[i].plus[3] = dl_state_prev.tags
        BY <3>1, <3>2 DEF PlusDG, Plus
    <3>4. dl_state_prev.tags \in TagLists /\ dl_state_prev.tags # <<>>
        BY <2>1, <3>1 DEF StateOK
    <3>5. Len(dl_state_prev.tags) \in 1 .. 4
      <4> DEFINE tags == dl_state_prev.tags
                 TagSet == [1 .. 3 -> 0 .. 127]
      <4>1. tags \in Seq(TagSet) /\ Len(tags) <= 4 /\ tags # <<>>
          BY <3>4 DEF TagLists
      <4> HIDE DEF tags, TagSet
      <4>2. Len(tags) \in Nat /\ Len(tags) # 0
          BY <4>1, EmptySeq
      <4> DEFINE n == Len(tags)
      <4>3. n \in Nat /\ n # 0 /\ n <= 4
          BY <4>1, <4>2
      <4> HIDE DEF n
      <4>4. n \in 1 .. 4
          BY <4>3
      <4> QED
          BY <4>4 DEF n, tags
    <3> QED
        BY <3>3, <3>5
  <2>7. CASE j = 0
      BY <2>4, <2>7
  <2> QED
      BY <2>2, <2>4, <2>5, <2>6, <2>7
<1> QED
    BY <1>1, AlwaysLabelInv, PTL

=============================================================================
