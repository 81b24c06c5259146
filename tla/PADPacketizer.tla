---------------------------- MODULE PADPacketizer ----------------------------
(***************************************************************************)
(* The PAD packetizer (src/src/pad_common.cpp): a queue of data groups is  *)
(* cut into data sub-fields, and at most four of them, with the list of    *)
(* their content indicators (CIs), make one PAD of a fixed length.         *)
(*                                                                         *)
(* The bytes of a data group are abstracted to its payload (a name) and to *)
(* the interval of its bytes a sub-field carries; every length is exact.   *)
(* GetNextPAD is split at the steps of GetPAD's loops: AppendDG and        *)
(* FlushPAD.  Sub-field sizes are indexed from 1 (the code: from 0).       *)
(***************************************************************************)
EXTENDS Integers, Sequences, FiniteSetsExt

CONSTANTS PadLens,     \* the PAD lengths the audio encoder may ask for
          Apps,        \* the application types [start, cont] of data groups
          Payloads,    \* names for the contents of data groups
          DGSizes,     \* sizes of data groups, CRC included
          MaxQueue,    \* bound on the length of the queue (model only)
          Junk         \* the values an uninitialised last_ci_size may have

-----------------------------------------------------------------------------
SUBFIELD_LENS   == <<4, 6, 8, 12, 16, 24, 32, 48>>
FPAD_LEN        == 2
SHORT_PAD       == 6
VARSIZE_PAD_MIN == 8
VARSIZE_PAD_MAX == 196

\* The lengths the caller of PADPacketizer has let through.
CheckPADLen(len) ==
    len = SHORT_PAD \/ len \in VARSIZE_PAD_MIN .. VARSIZE_PAD_MAX

ASSUME PadLensAssumption == \A len \in PadLens : len \in Nat /\ CheckPADLen(len)
ASSUME DGSizesAssumption == DGSizes \subseteq Nat \ {0}
ASSUME AppsAssumption    == Apps \subseteq [start : 1 .. 31, cont : 1 .. 31]
ASSUME JunkAssumption    == Junk \subseteq Nat /\ Junk # {}

\* A data group: start and cont are apptype_start and apptype_cont.
DataGroups ==
    [app : Apps, payload : Payloads, size : DGSizes, written : Nat]

NewDataGroups ==
    [app : Apps, payload : Payloads, size : DGSizes, written : {0}]

VARIABLES pad_size,        \* the constructor's argument: fixed for the object
          queue,           \* the data groups not yet completely written
          xpad_size,       \* bytes of X-PAD used, CI list included
          subfields,       \* what the sub-fields array holds, in order
          subfields_size,  \* bytes of it in use
          cis,             \* the CI list; used_cis is its length
          last_ci_type,    \* app type a PAD without CIs would continue, or -1
          last_ci_size,    \* X-PAD size of the previous PAD
          pc               \* where GetNextPAD is

vars == <<pad_size, queue, xpad_size, subfields, subfields_size, cis,
          last_ci_type, last_ci_size, pc>>

xpad_size_max == pad_size - FPAD_LEN
short_xpad    == pad_size = SHORT_PAD
max_cis       == IF short_xpad THEN 1 ELSE 4
used_cis      == Len(cis)

Init ==
    /\ pad_size \in PadLens
    /\ queue = <<>>
    /\ xpad_size = 0
    /\ subfields = <<>>
    /\ subfields_size = 0
    /\ cis = <<>>
    /\ last_ci_type = -1
    /\ last_ci_size \in Junk
    /\ pc = "idle"

-----------------------------------------------------------------------------
(***************************************************************************)
(* What the encoders call: queueing data groups and asking for a PAD.      *)
(***************************************************************************)
\* Faulty: prepends one data group after the other, so that they end up reversed.
AddDGsReversed(dgs, prepend) ==
    /\ pc = "idle"
    /\ queue' = IF prepend THEN [i \in 1 .. Len(dgs) |-> dgs[Len(dgs) + 1 - i]] \o queue
                ELSE queue \o dgs
    /\ UNCHANGED <<pad_size, xpad_size, subfields, subfields_size, cis,
                   last_ci_type, last_ci_size, pc>>

AddDGs(dgs, prepend) ==
    /\ pc = "idle"
    /\ queue' = IF prepend THEN dgs \o queue ELSE queue \o dgs
    /\ UNCHANGED <<pad_size, xpad_size, subfields, subfields_size, cis,
                   last_ci_type, last_ci_size, pc>>

AddDG(dg, prepend) == AddDGs(<<dg>>, prepend)

QueueContainsDG(apptype_start) ==
    \E i \in 1 .. Len(queue) : queue[i].app.start = apptype_start

\* A PAD is asked for, with an X-PAD or with the F-PAD only.
GetNextPAD(output_xpad) ==
    /\ pc = "idle"
    /\ pc' = IF output_xpad THEN "fill" ELSE "flush"
    /\ UNCHANGED <<pad_size, queue, xpad_size, subfields, subfields_size, cis,
                   last_ci_type, last_ci_size>>

-----------------------------------------------------------------------------
(***************************************************************************)
(* Filling a PAD.                                                          *)
(***************************************************************************)
Available(dg) == dg.size - dg.written

\* Faulty: forgets the end marker of the CI list.
AddCINeededBytesNoEndMarker(used) == 1

\* Bytes the next CI costs when used CIs are there: the first one brings the
\* end marker with it, the last one takes its place.
AddCINeededBytes(used) ==
    IF short_xpad \/ used \notin {0, max_cis - 1} THEN 1
    ELSE IF used = 0 THEN 2 ELSE 0

\* Room left in the X-PAD (a size_t subtraction in the code).
Room == xpad_size_max - xpad_size

OptimalSubFieldSizeIndex(available_bytes) ==
    LET Holding == {i \in 1 .. 8 : SUBFIELD_LENS[i] >= available_bytes} \cup {8}
        Fitting == {i \in 1 .. Min(Holding) :
                       SUBFIELD_LENS[i] + AddCINeededBytes(used_cis) <= Room} \cup {1}
        best    == Max(Fitting)
        wasted  == SUBFIELD_LENS[best] - available_bytes
    IN  IF best > 1 /\ wasted >= SUBFIELD_LENS[1] THEN best - 1 ELSE best

\* The bytes of the front data group that go into len bytes of sub-field.
WrittenNow(dg, len) == IF len < Available(dg) THEN len ELSE Available(dg)

\* Faulty: does not notice a data group that fits exactly.
ExhaustedIfShorter(dg, len) == Available(dg) < len

\* After len more bytes there is nothing left of the data group.
Exhausted(dg, len) == Available(dg) <= len

AppType(dg) == IF dg.written > 0 THEN dg.app.cont ELSE dg.app.start

\* DATA_GROUP::Write for the front of the queue, and the deletion of the data
\* group once it is exhausted.
WriteDGToSubField(len) ==
    LET dg == Head(queue)
        n  == WrittenNow(dg, len)
    IN  /\ subfields' = Append(subfields,
                            [app |-> AppType(dg), payload |-> dg.payload,
                             first |-> dg.written, bytes |-> n,
                             total |-> dg.size, len |-> len])
        /\ subfields_size' = subfields_size + len
        /\ last_ci_type' = IF Exhausted(dg, len) THEN -1 ELSE dg.app.cont
        /\ queue' = IF Exhausted(dg, len) THEN Tail(queue)
                    ELSE <<[dg EXCEPT !.written = @ + n]>> \o Tail(queue)

\* The condition under which the CI list is omitted.
OmitCIs(dg) ==
    /\ used_cis = 0
    /\ last_ci_type # -1
    /\ last_ci_type = dg.app.cont
    /\ \/ short_xpad
       \/ /\ last_ci_size >= xpad_size_max - max_cis
          /\ Available(dg) >= last_ci_size - max_cis

AppendDGWithoutCI ==
    /\ WriteDGToSubField(last_ci_size)
    /\ xpad_size' = xpad_size + last_ci_size
    /\ pc' = "flush"
    /\ UNCHANGED cis

\* No further sub-field could be added to a PAD with used CIs and size bytes of
\* X-PAD: it must be flushed.
Full(used, size) ==
    \/ used = max_cis
    \/ SUBFIELD_LENS[1] + AddCINeededBytes(used) > xpad_size_max - size

AppendDGWithCI ==
    LET index == IF short_xpad THEN 1
                 ELSE OptimalSubFieldSizeIndex(Available(Head(queue)))
        len   == IF short_xpad THEN 3 ELSE SUBFIELD_LENS[index]
    IN  /\ WriteDGToSubField(len)
        /\ cis' = Append(cis, [type |-> AppType(Head(queue)), len_index |-> index])
        /\ xpad_size' = xpad_size + len + AddCINeededBytes(used_cis)
        /\ pc' = IF Full(used_cis + 1, xpad_size') THEN "flush" ELSE "fill"

AppendDG ==
    /\ pc = "fill"
    /\ queue # <<>>
    /\ IF OmitCIs(Head(queue)) THEN AppendDGWithoutCI ELSE AppendDGWithCI
    /\ UNCHANGED <<pad_size, last_ci_size>>

-----------------------------------------------------------------------------
(***************************************************************************)
(* Flushing a PAD.                                                         *)
(***************************************************************************)
\* Bytes FlushPAD writes in front of the F-PAD: the CIs, the end marker if the
\* list is not full, the sub-fields.
LaidOut ==
    IF subfields_size = 0 THEN 0
    ELSE subfields_size
         + used_cis + (IF used_cis \in 1 .. max_cis - 1 THEN 1 ELSE 0)

\* The PAD that FlushPAD returns: the F-PAD's X-PAD and CI flags, the CI list,
\* the sub-fields, and the used length in its last byte.
PAD == [xpad |-> CASE subfields_size = 0 -> "none"
                   [] subfields_size > 0 /\ short_xpad -> "short"
                   [] OTHER -> "variable",
        ci_flag |-> subfields_size > 0 /\ used_cis > 0,
        cis |-> cis,
        subfields |-> subfields,
        used |-> xpad_size + FPAD_LEN]

\* Faulty: the next PAD's sub-fields are put behind this one's.
ResetPADKeepsSubFields ==
    /\ xpad_size' = 0
    /\ cis' = <<>>
    /\ UNCHANGED <<subfields, subfields_size>>

ResetPAD ==
    /\ xpad_size' = 0
    /\ subfields' = <<>>
    /\ subfields_size' = 0
    /\ cis' = <<>>

\* Faulty: a PAD without X-PAD does not end the continuation without CIs.
FlushPADKeepsType ==
    /\ pc = "flush" \/ (pc = "fill" /\ queue = <<>>)
    /\ last_ci_size' = xpad_size
    /\ ResetPAD
    /\ pc' = "idle"
    /\ UNCHANGED <<pad_size, queue, last_ci_type>>

FlushPAD ==
    /\ pc = "flush" \/ (pc = "fill" /\ queue = <<>>)
    /\ last_ci_type' = IF subfields_size > 0 THEN last_ci_type ELSE -1
    /\ last_ci_size' = xpad_size
    /\ ResetPAD
    /\ pc' = "idle"
    /\ UNCHANGED <<pad_size, queue>>

-----------------------------------------------------------------------------
Next ==
    \/ \E dg \in NewDataGroups, prepend \in BOOLEAN :
          Len(queue) < MaxQueue /\ AddDG(dg, prepend)
    \/ \E output_xpad \in BOOLEAN : GetNextPAD(output_xpad)
    \/ AppendDG
    \/ FlushPAD

Spec == Init /\ [][Next]_vars

-----------------------------------------------------------------------------
(***************************************************************************)
(* Properties.                                                             *)
(***************************************************************************)
AppTypes == 1 .. 31

Pieces == [app : AppTypes, payload : Payloads, first : Nat, bytes : Nat,
           total : Nat, len : Nat]

\* Types; a queued data group is never exhausted, and the CI list never
\* outgrows the ci_type and ci_len_index arrays.
TypeOK ==
    /\ pad_size \in PadLens
    /\ queue \in Seq(DataGroups)
    /\ \A i \in 1 .. Len(queue) : queue[i].written < queue[i].size
    /\ xpad_size \in Nat
    /\ subfields \in Seq(Pieces)
    /\ subfields_size \in Nat
    /\ cis \in Seq([type : AppTypes, len_index : 1 .. 8])
    /\ used_cis <= max_cis
    /\ last_ci_type \in AppTypes \cup {-1}
    /\ last_ci_size \in Nat
    /\ pc \in {"idle", "fill", "flush"}

\* What FlushPAD writes downwards from pad[xpad_size_max] stays inside the PAD:
\* pad_offset never passes zero, and the used length reported in the last byte
\* (counted CI by CI in AddCI) is what is really laid out, end marker included.
PADFits ==
    /\ LaidOut <= xpad_size_max
    /\ xpad_size = LaidOut

\* The sub-fields stay inside "uint8_t subfields[4*48]", also when a PAD without
\* CIs takes one sub-field as long as the whole previous X-PAD.
BuffersFit == subfields_size <= 4 * 48

\* No size_t subtraction wraps: the room left in the X-PAD (AppendDG and
\* OptimalSubFieldSizeIndex), and, where the condition for leaving out the CIs
\* is evaluated, xpad_size_max - max_cis and last_ci_size - max_cis.  The latter
\* also needs that an uninitialised last_ci_size is never looked at.
NoSizeUnderflow ==
    /\ xpad_size <= xpad_size_max
    /\ pc = "fill" /\ used_cis = 0 /\ last_ci_type # -1 =>
          /\ max_cis <= xpad_size_max
          /\ last_ci_size \in max_cis .. xpad_size_max

(***************************************************************************)
(* The inductive invariant behind them.                                    *)
(***************************************************************************)
\* The X-PAD of a PAD with data: 3 x 48 + 32 bytes in four sub-fields and four
\* CIs are the most that 194 bytes can hold.
XPADSizes == {n \in 4 .. 180 : n <= xpad_size_max}

\* The PAD under construction is empty, is one sub-field without CIs of a length
\* the previous PAD had, or has one sub-field per CI.
UnderConstruction ==
    \/ xpad_size = 0 /\ subfields_size = 0 /\ cis = <<>>
    \/ xpad_size \in XPADSizes /\ subfields_size = xpad_size /\ cis = <<>>
    \/ /\ xpad_size \in XPADSizes
       /\ cis # <<>>
       /\ xpad_size = LaidOut
       /\ IF short_xpad THEN subfields_size = 3
          ELSE /\ subfields_size >= 4
               /\ \/ subfields_size = 48 * used_cis
                  \/ subfields_size + 16 <= 48 * used_cis

PhaseOK ==
    /\ pc = "idle" => xpad_size = 0
    /\ pc = "fill" => xpad_size = 0 \/ (cis # <<>> /\ ~Full(used_cis, xpad_size))

LastSizeOK == cis = <<>> /\ last_ci_type # -1 => last_ci_size \in XPADSizes

IInv == TypeOK /\ UnderConstruction /\ PhaseOK /\ LastSizeOK

=============================================================================
