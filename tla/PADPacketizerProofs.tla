------------------------- MODULE PADPacketizerProofs -------------------------
(***************************************************************************)
(* The packetizer never writes outside the PAD or its buffers, whatever    *)
(* the PAD length and the data groups: IInv is inductive and implies the   *)
(* type invariant and the safety properties of PADPacketizer.              *)
(***************************************************************************)
EXTENDS PADPacketizer, TLAPS

-----------------------------------------------------------------------------
(***************************************************************************)
(* Lemmas on the operators.                                                *)
(***************************************************************************)
\* Max and Min pick an extreme member of a set of sub-field indexes.
LEMMA ExtremeIndex ==
    ASSUME NEW S \in SUBSET (1 .. 8), S # {}
    PROVE  Max(S) \in S /\ Min(S) \in S
<1>1. \E x \in S : \A y \in S : x >= y
  <2> SUFFICES ASSUME \A x \in S : \E y \in S : x < y PROVE FALSE
      OBVIOUS
  <2>1. 8 \notin S /\ 7 \notin S
      OBVIOUS
  <2>2. 6 \notin S /\ 5 \notin S
      BY <2>1
  <2>3. 4 \notin S /\ 3 \notin S
      BY <2>1, <2>2
  <2>4. 2 \notin S /\ 1 \notin S
      BY <2>1, <2>2, <2>3
  <2>5. PICK x \in S : x \in 1 .. 8
      OBVIOUS
  <2> QED
      BY <2>1, <2>2, <2>3, <2>4, <2>5
<1>2. \E x \in S : \A y \in S : x =< y
  <2> SUFFICES ASSUME \A x \in S : \E y \in S : y < x PROVE FALSE
      OBVIOUS
  <2>1. 1 \notin S /\ 2 \notin S
      OBVIOUS
  <2>2. 3 \notin S /\ 4 \notin S
      BY <2>1
  <2>3. 5 \notin S /\ 6 \notin S
      BY <2>1, <2>2
  <2>4. 7 \notin S /\ 8 \notin S
      BY <2>1, <2>2, <2>3
  <2>5. PICK x \in S : x \in 1 .. 8
      OBVIOUS
  <2> QED
      BY <2>1, <2>2, <2>3, <2>4, <2>5
<1> QED
    BY <1>1, <1>2 DEF Max, Min

\* OptimalSubFieldSizeIndex returns the index of a sub-field that the PAD has
\* room for, provided it has room for the smallest one.
LEMMA OptimalFits ==
    ASSUME NEW available \in Nat,
           NEW need \in 0 .. 2, need = AddCINeededBytes(used_cis),
           NEW room \in Int, room = Room, 4 + need <= room
    PROVE  /\ OptimalSubFieldSizeIndex(available) \in 1 .. 8
           /\ SUBFIELD_LENS[OptimalSubFieldSizeIndex(available)] + need <= room
<1> DEFINE Holding == {i \in 1 .. 8 : SUBFIELD_LENS[i] >= available} \cup {8}
           Fitting == {i \in 1 .. Min(Holding) :
                          SUBFIELD_LENS[i] + need <= room} \cup {1}
           best    == Max(Fitting)
<1>1. Min(Holding) \in 1 .. 8
  <2>1. Holding \in SUBSET (1 .. 8) /\ Holding # {}
      OBVIOUS
  <2> HIDE DEF Holding
  <2> QED
      BY <2>1, ExtremeIndex
<1>2. best \in Fitting
  <2> HIDE DEF Holding
  <2>1. Fitting \in SUBSET (1 .. 8) /\ Fitting # {}
    <3>1. \A i \in 1 .. Min(Holding) : i \in 1 .. 8
        BY <1>1
    <3>2. 1 \in Fitting
        OBVIOUS
    <3>3. ASSUME NEW i \in Fitting PROVE i \in 1 .. 8
        BY <3>1, <3>3
    <3> HIDE DEF Fitting
    <3> QED
        BY <3>2, <3>3, Zenon
  <2> HIDE DEF Fitting
  <2> QED
      BY <2>1, ExtremeIndex
<1>3. best \in 1 .. 8 /\ SUBFIELD_LENS[best] + need <= room
    BY <1>1, <1>2 DEF SUBFIELD_LENS
<1>4. best > 1 => best - 1 \in 1 .. 8 /\ SUBFIELD_LENS[best - 1] + need <= room
    BY <1>3 DEF SUBFIELD_LENS
<1>5. OptimalSubFieldSizeIndex(available) \in {best} \cup (IF best > 1 THEN {best - 1} ELSE {})
    BY DEF OptimalSubFieldSizeIndex
<1> HIDE DEF best
<1> QED
    BY <1>3, <1>4, <1>5

\* What a pad length that CheckPADLen lets through means for the X-PAD.
LEMMA XPADSizeMax ==
    ASSUME pad_size \in PadLens
    PROVE  \/ short_xpad /\ xpad_size_max = 4 /\ max_cis = 1
           \/ ~short_xpad /\ xpad_size_max \in 6 .. 194 /\ max_cis = 4
BY PadLensAssumption DEF CheckPADLen, xpad_size_max, short_xpad, max_cis,
   FPAD_LEN, SHORT_PAD, VARSIZE_PAD_MIN, VARSIZE_PAD_MAX

-----------------------------------------------------------------------------
(***************************************************************************)
(* The invariant.                                                          *)
(***************************************************************************)
LEMMA InitIInv == Init => IInv
<1> SUFFICES ASSUME Init PROVE IInv
    OBVIOUS
<1>1. TypeOK
    BY XPADSizeMax, JunkAssumption DEF Init, TypeOK, used_cis
<1> QED
    BY <1>1 DEF Init, IInv, UnderConstruction, PhaseOK, LastSizeOK

\* The front of the queue is a data group with bytes left.
LEMMA FrontDG ==
    ASSUME TypeOK, queue # <<>>
    PROVE  LET dg == Head(queue)
           IN  /\ dg \in DataGroups
               /\ dg.written < dg.size
               /\ dg.size \in Nat /\ dg.written \in Nat
               /\ dg.app \in [start : AppTypes, cont : AppTypes]
               /\ dg.payload \in Payloads
               /\ Available(dg) \in Nat
               /\ AppType(dg) \in AppTypes
<1> DEFINE dg == Head(queue)
<1>1. dg \in DataGroups /\ dg.written < dg.size
    BY DEF TypeOK
<1>2. /\ dg.app \in Apps /\ dg.payload \in Payloads
      /\ dg.size \in DGSizes /\ dg.written \in Nat
    BY <1>1 DEF DataGroups
<1> HIDE DEF dg
<1>3. dg.size \in Nat /\ dg.app \in [start : AppTypes, cont : AppTypes]
    BY <1>2, AppsAssumption, DGSizesAssumption DEF AppTypes
<1>4. Available(dg) \in Nat /\ AppType(dg) \in AppTypes
    BY <1>1, <1>2, <1>3 DEF Available, AppType
<1> QED
    BY <1>1, <1>2, <1>3, <1>4 DEF dg

\* A queue stays well typed when its front data group is replaced.
LEMMA NewFront ==
    ASSUME NEW q \in Seq(DataGroups), q # <<>>,
           \A i \in 1 .. Len(q) : q[i].written < q[i].size,
           NEW rest \in DataGroups, rest.written < rest.size
    PROVE  LET r == <<rest>> \o Tail(q)
           IN  /\ r \in Seq(DataGroups)
               /\ \A i \in 1 .. Len(r) : r[i].written < r[i].size
<1> DEFINE r == <<rest>> \o Tail(q)
<1>1. Tail(q) \in Seq(DataGroups) /\ Len(Tail(q)) = Len(q) - 1
    OBVIOUS
<1>2. \A i \in 1 .. Len(q) - 1 : Tail(q)[i] = q[i + 1]
    OBVIOUS
<1>3. Len(q) \in Nat /\ Len(q) > 0
    OBVIOUS
<1>4. <<rest>> \in Seq(DataGroups) /\ Len(<<rest>>) = 1 /\ <<rest>>[1] = rest
    OBVIOUS
<1>5. r \in Seq(DataGroups) /\ Len(r) = Len(q) /\ r[1] = rest
    BY <1>1, <1>3, <1>4
<1>6. \A i \in 2 .. Len(q) : r[i] = Tail(q)[i - 1]
    BY <1>1, <1>3, <1>4
<1> HIDE DEF r
<1>7. \A i \in 2 .. Len(q) : r[i] = q[i]
  <2> SUFFICES ASSUME NEW i \in 2 .. Len(q) PROVE r[i] = q[i]
      OBVIOUS
  <2>1. i - 1 \in 1 .. Len(q) - 1 /\ (i - 1) + 1 = i
      BY <1>3
  <2> QED
      BY <1>2, <1>6, <2>1
<1>8. ASSUME NEW i \in 1 .. Len(r) PROVE r[i].written < r[i].size
  <2>1. i = 1 \/ i \in 2 .. Len(q)
      BY <1>3, <1>5
  <2>2. CASE i = 1
      BY <1>5, <2>2
  <2>3. CASE i \in 2 .. Len(q)
      BY <1>7, <2>3
  <2> QED
      BY <2>1, <2>2, <2>3
<1> QED
    BY <1>5, <1>8 DEF r

\* DATA_GROUP::Write keeps the queue and the sub-fields well typed, and drops
\* the front data group when nothing of it is left.
LEMMA WriteTypes ==
    ASSUME TypeOK, queue # <<>>, NEW len \in Nat \ {0}, WriteDGToSubField(len)
    PROVE  /\ queue' \in Seq(DataGroups)
           /\ \A i \in 1 .. Len(queue') : queue'[i].written < queue'[i].size
           /\ subfields' \in Seq(Pieces)
           /\ last_ci_type' \in AppTypes \cup {-1}
           /\ subfields_size' = subfields_size + len
<1> DEFINE dg == Head(queue)
           n  == WrittenNow(dg, len)
<1>1. /\ dg \in DataGroups
      /\ dg.written < dg.size
      /\ dg.size \in Nat /\ dg.written \in Nat
      /\ dg.app \in [start : AppTypes, cont : AppTypes]
      /\ dg.payload \in Payloads
    BY FrontDG
<1>2. n \in Nat /\ n <= Available(dg) /\ Available(dg) \in Nat
    BY <1>1 DEF WrittenNow, Available
<1>3. AppType(dg) \in AppTypes
    BY FrontDG
<1>4. subfields' \in Seq(Pieces)
  <2>1. [app |-> AppType(dg), payload |-> dg.payload, first |-> dg.written,
         bytes |-> n, total |-> dg.size, len |-> len] \in Pieces
      BY <1>1, <1>2, <1>3 DEF Pieces
  <2> QED
      BY <2>1 DEF TypeOK, WriteDGToSubField
<1>5. CASE ~Exhausted(dg, len)
  <2> DEFINE rest == [dg EXCEPT !.written = @ + n]
  <2>1. rest \in DataGroups /\ rest.written < rest.size
      BY <1>1, <1>2, <1>5 DEF DataGroups, Available, WrittenNow, Exhausted
  <2>2. queue' = <<rest>> \o Tail(queue)
      BY <1>5 DEF WriteDGToSubField
  <2> HIDE DEF rest
  <2>3. /\ queue' \in Seq(DataGroups)
        /\ \A i \in 1 .. Len(queue') : queue'[i].written < queue'[i].size
      BY <2>1, <2>2, NewFront DEF TypeOK
  <2> QED
      BY <1>1, <1>4, <1>5, <2>3 DEF WriteDGToSubField
<1>6. CASE Exhausted(dg, len)
  <2>1. queue' = Tail(queue)
      BY <1>6 DEF WriteDGToSubField
  <2>2. /\ queue' \in Seq(DataGroups)
        /\ \A i \in 1 .. Len(queue') : queue'[i].written < queue'[i].size
      BY <2>1 DEF TypeOK
  <2> QED
      BY <1>4, <1>6, <2>2 DEF WriteDGToSubField
<1> QED
    BY <1>5, <1>6

\* A step that leaves the PAD alone keeps all of IInv but the type of the queue.
LEMMA SamePAD ==
    ASSUME IInv, queue' \in Seq(DataGroups),
           \A i \in 1 .. Len(queue') : queue'[i].written < queue'[i].size,
           UNCHANGED <<pad_size, xpad_size, subfields, subfields_size, cis,
                       last_ci_type, last_ci_size>>,
           pc = "idle", pc' \in {"idle", "fill", "flush"}
    PROVE  IInv'
<1>1. TypeOK'
    BY DEF IInv, TypeOK, used_cis, max_cis, short_xpad
<1>2. xpad_size = 0
    BY DEF IInv, PhaseOK
<1>3. PhaseOK'
    BY <1>2 DEF PhaseOK
<1>4. UnderConstruction'
    BY <1>2 DEF IInv, UnderConstruction, XPADSizes
<1>5. LastSizeOK'
    BY DEF IInv, LastSizeOK, XPADSizes, xpad_size_max
<1> QED
    BY <1>1, <1>3, <1>4, <1>5 DEF IInv

LEMMA AddDGIInv ==
    ASSUME IInv, NEW dg \in NewDataGroups, NEW prepend \in BOOLEAN, AddDG(dg, prepend)
    PROVE  IInv'
<1>1. dg \in DataGroups /\ dg.written < dg.size
  <2>1. /\ dg = [app |-> dg.app, payload |-> dg.payload, size |-> dg.size,
                 written |-> dg.written]
        /\ dg.app \in Apps /\ dg.payload \in Payloads /\ dg.size \in DGSizes
        /\ dg.written = 0
      BY DEF NewDataGroups
  <2> QED
      BY <2>1, DGSizesAssumption DEF DataGroups
<1>2. queue \in Seq(DataGroups) /\ \A i \in 1 .. Len(queue) : queue[i].written < queue[i].size
    BY DEF IInv, TypeOK
<1>3. queue' = <<dg>> \o queue \/ queue' = queue \o <<dg>>
    BY DEF AddDG, AddDGs
<1>4. /\ queue' \in Seq(DataGroups)
      /\ \A i \in 1 .. Len(queue') : queue'[i].written < queue'[i].size
  <2>1. CASE queue' = <<dg>> \o queue
      BY <1>1, <1>2, <2>1
  <2>2. CASE queue' = queue \o <<dg>>
      BY <1>1, <1>2, <2>2
  <2> QED
      BY <1>3, <2>1, <2>2
<1> QED
    BY <1>4, SamePAD DEF AddDG, AddDGs

LEMMA GetNextPADIInv ==
    ASSUME IInv, NEW output_xpad \in BOOLEAN, GetNextPAD(output_xpad)
    PROVE  IInv'
<1>1. queue \in Seq(DataGroups) /\ \A i \in 1 .. Len(queue) : queue[i].written < queue[i].size
    BY DEF IInv, TypeOK
<1> QED
    BY <1>1, SamePAD DEF GetNextPAD

LEMMA WithoutCIIInv ==
    ASSUME IInv, pc = "fill", queue # <<>>, OmitCIs(Head(queue)), AppendDGWithoutCI,
           UNCHANGED <<pad_size, last_ci_size>>
    PROVE  IInv'
<1>1. /\ cis = <<>> /\ cis' = <<>>
      /\ xpad_size = 0 /\ subfields_size = 0
      /\ last_ci_size \in XPADSizes
      /\ pc' = "flush"
    BY DEF OmitCIs, used_cis, IInv, TypeOK, PhaseOK, UnderConstruction, LastSizeOK,
       AppendDGWithoutCI
<1>2. last_ci_size \in Nat \ {0}
    BY <1>1 DEF XPADSizes
<1>3. /\ queue' \in Seq(DataGroups)
      /\ \A i \in 1 .. Len(queue') : queue'[i].written < queue'[i].size
      /\ subfields' \in Seq(Pieces)
      /\ last_ci_type' \in AppTypes \cup {-1}
      /\ subfields_size' = subfields_size + last_ci_size
    BY <1>2, WriteTypes DEF AppendDGWithoutCI, IInv
<1>4. /\ xpad_size' = last_ci_size /\ subfields_size' = last_ci_size
      /\ last_ci_size' = last_ci_size /\ XPADSizes' = XPADSizes
      /\ pad_size' = pad_size
    BY <1>1, <1>2, <1>3 DEF AppendDGWithoutCI, XPADSizes, xpad_size_max
<1>5. TypeOK'
    BY <1>1, <1>2, <1>3, <1>4, XPADSizeMax
       DEF TypeOK, IInv, used_cis, max_cis, short_xpad, AppTypes
<1> QED
    BY <1>1, <1>4, <1>5 DEF IInv, UnderConstruction, PhaseOK, LastSizeOK

LEMMA FlushIInv ==
    ASSUME IInv, FlushPAD
    PROVE  IInv'
<1>1. TypeOK'
    BY XPADSizeMax DEF FlushPAD, ResetPAD, IInv, TypeOK, used_cis, max_cis, short_xpad
<1>2. UnderConstruction' /\ PhaseOK'
    BY DEF FlushPAD, ResetPAD, UnderConstruction, PhaseOK
<1>3. LastSizeOK'
  <2>1. CASE xpad_size = 0
      BY <2>1 DEF FlushPAD, ResetPAD, IInv, UnderConstruction, LastSizeOK, XPADSizes
  <2>2. CASE xpad_size # 0
      BY <2>2 DEF FlushPAD, ResetPAD, IInv, UnderConstruction, LastSizeOK, XPADSizes, xpad_size_max
  <2> QED
      BY <2>1, <2>2
<1> QED
    BY <1>1, <1>2, <1>3 DEF IInv

\* The sizes of a packetizer in a state that satisfies the invariant.
LEMMA IInvSizes ==
    ASSUME IInv
    PROVE  /\ xpad_size \in Nat /\ xpad_size <= xpad_size_max
           /\ xpad_size_max \in 4 .. 194
           /\ max_cis \in {1, 4} /\ max_cis <= xpad_size_max
           /\ used_cis \in 0 .. max_cis
<1>1. \/ short_xpad /\ xpad_size_max = 4 /\ max_cis = 1
      \/ ~short_xpad /\ xpad_size_max \in 6 .. 194 /\ max_cis = 4
    BY XPADSizeMax DEF IInv, TypeOK
<1>2. xpad_size_max \in 4 .. 194 /\ max_cis \in {1, 4} /\ max_cis <= xpad_size_max
    BY <1>1
<1>3. xpad_size = 0 \/ xpad_size \in XPADSizes
    BY DEF IInv, UnderConstruction
<1>4. xpad_size \in Nat /\ xpad_size <= xpad_size_max
    BY <1>2, <1>3 DEF XPADSizes
<1>5. used_cis \in Nat /\ used_cis <= max_cis
    BY DEF IInv, TypeOK, used_cis
<1> QED
    BY <1>2, <1>4, <1>5

\* While a PAD is filled there is room for one more CI and the smallest sub-field
\* (3 bytes in a short X-PAD, which is filled only when empty).
LEMMA RoomForCI ==
    ASSUME IInv, pc = "fill"
    PROVE  /\ used_cis \in 0 .. max_cis - 1
           /\ AddCINeededBytes(used_cis) \in 0 .. 2
           /\ xpad_size \in Nat /\ subfields_size \in Nat
           /\ (IF short_xpad THEN 3 ELSE 4) + AddCINeededBytes(used_cis) <= Room
           /\ Room = xpad_size_max - xpad_size
<1> DEFINE need == AddCINeededBytes(used_cis)
<1>1. need \in 0 .. 2 /\ Room = xpad_size_max - xpad_size
    BY DEF AddCINeededBytes, Room
<1>2. subfields_size \in Nat
    BY DEF IInv, TypeOK
<1>3. CASE xpad_size = 0
  <2>1. used_cis = 0
      BY <1>3 DEF IInv, UnderConstruction, XPADSizes, used_cis
  <2>2. need = IF short_xpad THEN 1 ELSE 2
      BY <2>1, IInvSizes DEF AddCINeededBytes
  <2>3. \/ short_xpad /\ xpad_size_max = 4 /\ max_cis = 1
        \/ ~short_xpad /\ xpad_size_max \in 6 .. 194 /\ max_cis = 4
      BY XPADSizeMax DEF IInv, TypeOK
  <2> HIDE DEF need
  <2>4. (IF short_xpad THEN 3 ELSE 4) + need <= xpad_size_max
      BY <2>2, <2>3
  <2>5. (IF short_xpad THEN 3 ELSE 4) + need <= Room
      BY <1>1, <1>3, <2>4, IInvSizes
  <2> QED
      BY <1>1, <1>2, <1>3, <2>1, <2>5, IInvSizes DEF need
<1>4. CASE ~Full(used_cis, xpad_size)
  <2>1. used_cis # max_cis /\ ~(4 + need > xpad_size_max - xpad_size)
      BY <1>4 DEF Full, SUBFIELD_LENS
  <2> HIDE DEF need
  <2> QED
      BY <1>1, <1>2, <2>1, IInvSizes DEF need
<1> QED
    BY <1>3, <1>4 DEF IInv, PhaseOK

LEMMA WithCIIInv ==
    ASSUME IInv, pc = "fill", queue # <<>>, AppendDGWithCI,
           UNCHANGED <<pad_size, last_ci_size>>
    PROVE  IInv'
<1> DEFINE index == IF short_xpad THEN 1
                    ELSE OptimalSubFieldSizeIndex(Available(Head(queue)))
           len   == IF short_xpad THEN 3 ELSE SUBFIELD_LENS[index]
           need  == AddCINeededBytes(used_cis)
           ci    == [type |-> AppType(Head(queue)), len_index |-> index]
\* the front data group
<1>1. Available(Head(queue)) \in Nat /\ AppType(Head(queue)) \in AppTypes
    BY FrontDG DEF IInv
\* there is room for a CI and the smallest sub-field
<1>2. /\ used_cis \in 0 .. max_cis - 1
      /\ need \in 0 .. 2
      /\ xpad_size \in Nat /\ subfields_size \in Nat
      /\ (IF short_xpad THEN 3 ELSE 4) + need <= Room
      /\ Room = xpad_size_max - xpad_size
    BY RoomForCI
\* so the chosen sub-field fits
<1>3. /\ index \in 1 .. 8
      /\ len + need <= Room
      /\ len \in Nat /\ len > 0
      /\ short_xpad => len = 3
      /\ ~short_xpad => len = 48 \/ len \in 4 .. 32
  <2>1. CASE short_xpad
      BY <1>2, <2>1
  <2>2. CASE ~short_xpad
    <3>1. index \in 1 .. 8 /\ SUBFIELD_LENS[index] + need <= Room
        BY <1>1, <1>2, <2>2, OptimalFits, XPADSizeMax DEF IInv, TypeOK
    <3>2. SUBFIELD_LENS[index] \in {4, 6, 8, 12, 16, 24, 32, 48}
        BY <3>1 DEF SUBFIELD_LENS
    <3>3. len = SUBFIELD_LENS[index]
        BY <2>2
    <3> HIDE DEF index, len
    <3> QED
        BY <2>2, <3>1, <3>2, <3>3
  <2> QED
      BY <2>1, <2>2
<1> HIDE DEF index, len, need, ci
<1>4. len \in Nat \ {0}
    BY <1>3
<1>5. /\ WriteDGToSubField(len)
      /\ cis' = Append(cis, ci)
      /\ xpad_size' = xpad_size + len + need
      /\ pc' = IF Full(used_cis + 1, xpad_size') THEN "flush" ELSE "fill"
    BY DEF AppendDGWithCI, index, len, need, ci
<1>6. /\ queue' \in Seq(DataGroups)
      /\ \A i \in 1 .. Len(queue') : queue'[i].written < queue'[i].size
      /\ subfields' \in Seq(Pieces)
      /\ last_ci_type' \in AppTypes \cup {-1}
      /\ subfields_size' = subfields_size + len
    BY <1>4, <1>5, WriteTypes DEF IInv
<1>7. /\ cis' \in Seq([type : AppTypes, len_index : 1 .. 8])
      /\ cis' # <<>>
      /\ used_cis' = used_cis + 1
  <2>1. ci \in [type : AppTypes, len_index : 1 .. 8]
      BY <1>1, <1>3 DEF ci
  <2> QED
      BY <1>5, <2>1 DEF IInv, TypeOK, used_cis
<1>8. pad_size' = pad_size /\ max_cis' = max_cis /\ xpad_size_max' = xpad_size_max
      /\ (short_xpad' <=> short_xpad)
    BY DEF max_cis, xpad_size_max, short_xpad
<1>9. TypeOK'
  <2>1. xpad_size' \in Nat /\ subfields_size' \in Nat
      BY <1>2, <1>3, <1>5, <1>6
  <2>2. used_cis' <= max_cis'
      BY <1>2, <1>7, <1>8 DEF max_cis
  <2> QED
      BY <1>5, <1>6, <1>7, <1>8, <2>1, <2>2 DEF IInv, TypeOK
\* the accounting
<1>10. UnderConstruction'
  <2>1. \/ used_cis = 0 /\ xpad_size = 0 /\ subfields_size = 0
        \/ /\ used_cis > 0
           /\ ~short_xpad
           /\ xpad_size = subfields_size + used_cis + 1
           /\ \/ subfields_size = 48 * used_cis
              \/ subfields_size + 16 <= 48 * used_cis
           /\ subfields_size >= 4
    <3>1. CASE xpad_size = 0
        BY <3>1 DEF IInv, UnderConstruction, used_cis, XPADSizes
    <3>2. CASE xpad_size # 0
      <4>1. /\ cis # <<>> /\ xpad_size = LaidOut
            /\ IF short_xpad THEN subfields_size = 3
               ELSE /\ subfields_size >= 4
                    /\ \/ subfields_size = 48 * used_cis
                       \/ subfields_size + 16 <= 48 * used_cis
          BY <3>2 DEF IInv, UnderConstruction, PhaseOK
      <4>2. used_cis > 0 /\ used_cis \in 1 .. max_cis - 1
          BY <1>2, <4>1 DEF used_cis, IInv, TypeOK
      <4>3. ~short_xpad
          BY <4>2 DEF max_cis
      <4> QED
          BY <1>2, <4>1, <4>2, <4>3 DEF LaidOut
    <3> QED
        BY <3>1, <3>2
  <2>2. xpad_size' \in Nat /\ xpad_size' <= xpad_size_max /\ xpad_size_max \in 4 .. 194
    <3>1. xpad_size_max \in 4 .. 194
        BY XPADSizeMax DEF IInv, TypeOK
    <3> QED
        BY <1>2, <1>3, <1>5, <3>1
  <2>3. CASE short_xpad
    <3>1. max_cis = 1 /\ used_cis = 0 /\ need = 1 /\ len = 3
        BY <1>2, <1>3, <2>3 DEF max_cis, AddCINeededBytes, need
    <3>2. xpad_size' = 4 /\ subfields_size' = 3 /\ LaidOut' = 4
        BY <1>5, <1>6, <1>7, <1>8, <2>1, <3>1, <2>3 DEF LaidOut
    <3> QED
        BY <1>7, <1>8, <2>2, <2>3, <3>2 DEF UnderConstruction, XPADSizes
  <2>4. CASE ~short_xpad
    <3>1. max_cis = 4 /\ need = (IF used_cis = 0 THEN 2 ELSE IF used_cis = 3 THEN 0 ELSE 1)
        BY <2>4, <1>2 DEF max_cis, AddCINeededBytes, need
    <3>2. /\ subfields_size' = 48 * (used_cis + 1) \/ subfields_size' + 16 <= 48 * (used_cis + 1)
          /\ subfields_size' >= 4
        BY <1>2, <1>3, <1>6, <2>1, <2>4
    <3>3. xpad_size' = subfields_size' + used_cis' + (IF used_cis' = 4 THEN 0 ELSE 1)
        BY <1>2, <1>4, <1>5, <1>6, <1>7, <2>1, <3>1
    <3>4. xpad_size' = LaidOut'
        BY <1>2, <1>7, <1>8, <3>1, <3>2, <3>3 DEF LaidOut
    <3>5. xpad_size' \in 4 .. 180
        BY <1>2, <1>4, <1>6, <1>7, <2>2, <3>1, <3>2, <3>3
    <3> QED
        BY <1>7, <1>8, <2>2, <2>4, <3>2, <3>4, <3>5 DEF UnderConstruction, XPADSizes
  <2> QED
      BY <2>3, <2>4
<1>11. PhaseOK'
    BY <1>5, <1>7, <1>8 DEF PhaseOK, Full, AddCINeededBytes
<1>12. LastSizeOK'
    BY <1>7 DEF LastSizeOK
<1> QED
    BY <1>9, <1>10, <1>11, <1>12 DEF IInv

\* IInv is preserved by every step.
LEMMA NextIInv == IInv /\ [Next]_vars => IInv'
<1> SUFFICES ASSUME IInv, [Next]_vars PROVE IInv'
    OBVIOUS
<1>1. CASE \E dg \in NewDataGroups, prepend \in BOOLEAN :
              Len(queue) < MaxQueue /\ AddDG(dg, prepend)
    BY <1>1, AddDGIInv
<1>2. CASE \E output_xpad \in BOOLEAN : GetNextPAD(output_xpad)
    BY <1>2, GetNextPADIInv
<1>3. CASE AppendDG
    BY <1>3, WithoutCIIInv, WithCIIInv DEF AppendDG
<1>4. CASE FlushPAD
    BY <1>4, FlushIInv
<1>5. CASE UNCHANGED vars
    BY <1>5 DEF vars, IInv, TypeOK, UnderConstruction, PhaseOK, LastSizeOK,
       used_cis, max_cis, short_xpad, XPADSizes, xpad_size_max, LaidOut, Full,
       AddCINeededBytes
<1> QED
    BY <1>1, <1>2, <1>3, <1>4, <1>5 DEF Next

\* The invariant of the packetizer, for every set of PAD lengths, data group
\* sizes and application types.
THEOREM Invariant == Spec => []IInv
BY InitIInv, NextIInv, PTL DEF Spec

-----------------------------------------------------------------------------
(***************************************************************************)
(* What it implies.                                                        *)
(***************************************************************************)
LEMMA IInvPADFits == IInv => PADFits
<1> SUFFICES ASSUME IInv PROVE PADFits
    OBVIOUS
<1>1. xpad_size = LaidOut
  <2>1. CASE cis = <<>>
    <3>1. subfields_size = xpad_size /\ used_cis = 0 /\ xpad_size \in Nat
        BY <2>1, IInvSizes DEF IInv, UnderConstruction, used_cis
    <3> QED
        BY <3>1 DEF LaidOut
  <2>2. CASE cis # <<>>
      BY <2>2 DEF IInv, UnderConstruction
  <2> QED
      BY <2>1, <2>2
<1> QED
    BY <1>1, IInvSizes DEF PADFits

LEMMA IInvBuffersFit == IInv => BuffersFit
<1> SUFFICES ASSUME IInv PROVE BuffersFit
    OBVIOUS
<1>1. \/ subfields_size \in {0, 3}
      \/ subfields_size = xpad_size /\ xpad_size \in XPADSizes
      \/ subfields_size = 48 * used_cis
      \/ subfields_size + 16 <= 48 * used_cis
    BY DEF IInv, UnderConstruction
<1>2. used_cis \in 0 .. 4 /\ subfields_size \in Nat
    BY IInvSizes DEF IInv, TypeOK
<1> QED
    BY <1>1, <1>2 DEF XPADSizes, BuffersFit

LEMMA IInvNoSizeUnderflow == IInv => NoSizeUnderflow
<1> SUFFICES ASSUME IInv PROVE NoSizeUnderflow
    OBVIOUS
<1>1. ASSUME used_cis = 0, last_ci_type # -1
      PROVE  last_ci_size \in max_cis .. xpad_size_max
  <2>1. cis = <<>>
      BY <1>1 DEF IInv, TypeOK, used_cis
  <2>2. last_ci_size \in XPADSizes
      BY <1>1, <2>1 DEF IInv, LastSizeOK
  <2> QED
      BY <2>2, IInvSizes DEF XPADSizes
<1> QED
    BY <1>1, IInvSizes DEF NoSizeUnderflow

\* Every variable keeps its type, a queued data group is never exhausted and the
\* CI arrays never overflow (PADPacketizer's fields, pad_common.h).
THEOREM TypeCorrect == Spec => []TypeOK
BY Invariant, PTL DEF IInv

\* FlushPAD never writes before the start of the PAD, and the used length it
\* reports is the length of what it lays out, for every PAD length CheckPADLen
\* accepts and every mix of data groups.
THEOREM PADNeverOverrun == Spec => []PADFits
BY Invariant, IInvPADFits, PTL

\* WriteDGToSubField never writes behind the sub-fields array.
THEOREM BuffersNeverOverrun == Spec => []BuffersFit
BY Invariant, IInvBuffersFit, PTL

\* None of the packetizer's size_t subtractions wraps around.
THEOREM SizesNeverWrap == Spec => []NoSizeUnderflow
BY Invariant, IInvNoSizeUnderflow, PTL

=============================================================================
