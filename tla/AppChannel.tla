------------------------------ MODULE AppChannel ------------------------------
(***************************************************************************)
(* What the packetizer promises the DLS and the MOT encoder: each has a    *)
(* channel of its own to the receivers, on which the data groups arrive    *)
(* complete, once each and in the order they were queued, whatever the     *)
(* other encoder does; only those that are on their way while something is *)
(* lost may not arrive.  PADLink is shown to implement it.                 *)
(***************************************************************************)
EXTENDS Integers, Sequences, Functions

CONSTANTS Channels,  \* the user applications
          Messages   \* their data groups, each sent once

VARIABLES sent,    \* what each encoder has queued
          got,     \* what a receiver has completely received
          damaged  \* what may be lost

vars == <<sent, got, damaged>>

Init ==
    /\ sent = [c \in Channels |-> <<>>]
    /\ got = [c \in Channels |-> <<>>]
    /\ damaged = [c \in Channels |-> {}]

\* Sequence t begins with all of s.
Continues(t, s) == Len(s) <= Len(t) /\ \A i \in 1 .. Len(s) : t[i] = s[i]

\* The encoder of channel c queues some more data groups.
Send(c) ==
    /\ sent' # sent
    /\ sent'[c] \in Seq(Messages)
    /\ Continues(sent'[c], sent[c])
    /\ IsInjective(sent'[c])
    /\ \A d \in Channels \ {c} : sent'[d] = sent[d]
    /\ UNCHANGED <<got, damaged>>

SentBefore(c, m, n) ==
    \E i, j \in 1 .. Len(sent[c]) : i < j /\ sent[c][i] = m /\ sent[c][j] = n

\* What may have been received on channel c: data groups in the order in which they were
\* sent, and of those sent before one of them at most damaged ones are missing.
Received(c, s) ==
    /\ Range(s) \subseteq Range(sent[c])
    /\ \A i, j \in 1 .. Len(s) : i < j => SentBefore(c, s[i], s[j])
    /\ \A m \in Range(sent[c]), n \in Range(s) :
          SentBefore(c, m, n) => m \in Range(s) \cup damaged[c]

\* One PAD may complete data groups of several channels.
Deliver ==
    /\ got' # got
    /\ DOMAIN got' = Channels
    /\ \A c \in Channels : Continues(got'[c], got[c]) /\ Received(c, got'[c])
    /\ UNCHANGED <<sent, damaged>>

\* Something is lost: of what has been sent and not yet received more may not arrive.
Damage ==
    /\ damaged' # damaged
    /\ \A c \in Channels :
          /\ damaged[c] \subseteq damaged'[c]
          /\ damaged'[c] \ damaged[c] \subseteq Range(sent[c]) \ Range(got[c])
    /\ UNCHANGED <<sent, got>>

Next == Deliver \/ Damage \/ \E c \in Channels : Send(c)

Safety == Init /\ [][Next]_vars

\* As long as something waits on channel c that is not damaged, more is received.
Waiting(c) == {m \in Range(sent[c]) : m \notin Range(got[c]) \cup damaged[c]}

Arrive(c) == []<>(Waiting(c) = {}) \/ []<><<got'[c] # got[c]>>_vars

Spec == Safety /\ \A c \in Channels : Arrive(c)
=============================================================================
