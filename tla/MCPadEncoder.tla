---------------------------- MODULE MCPadEncoder ----------------------------
EXTENDS PadEncoder

\* One file or two; labels more often and less often than files change; slides at once
\* or at an interval, X-PAD in every frame or in every second.  The labels of the last
\* combination take longer than their interval.
MCOptions ==
    {[slide_interval |-> 0, label_interval |-> 3, label_insertion |-> 6, xpad_interval |-> 1,
      dls_files |-> 2],
     [slide_interval |-> 2, label_interval |-> 5, label_insertion |-> 6, xpad_interval |-> 2,
      dls_files |-> 2],
     [slide_interval |-> 2, label_interval |-> 5, label_insertion |-> 4, xpad_interval |-> 1,
      dls_files |-> 1],
     [slide_interval |-> 0, label_interval |-> 3, label_insertion |-> 6, xpad_interval |-> 3,
      dls_files |-> 2]}

MCCapacity == [p \in 6 .. 196 |-> IF p = 6 THEN 1 ELSE 2]

=============================================================================
