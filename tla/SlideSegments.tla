----------------------------- MODULE SlideSegments -----------------------------
(***************************************************************************)
(* How SLSEncoder::encodeSlide (src/src/sls.cpp) cuts the body of a slide. *)
(***************************************************************************)
EXTENDS Integers

CONSTANT MAXSEGLEN

ASSUME SegLenAssumption == MAXSEGLEN \in Nat \ {0}

lastseglen(blobsize) == blobsize % MAXSEGLEN

nseg(blobsize) == blobsize \div MAXSEGLEN + (IF lastseglen(blobsize) # 0 THEN 1 ELSE 0)

\* Segment i, from 0, begins at byte i * MAXSEGLEN and is so long:
curseglen(blobsize, i) ==
    IF i = nseg(blobsize) - 1 THEN lastseglen(blobsize) ELSE MAXSEGLEN

SegmentBytes(blobsize, i) ==
    i * MAXSEGLEN .. i * MAXSEGLEN + curseglen(blobsize, i) - 1
=============================================================================
