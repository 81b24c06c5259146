-------------------------------- MODULE History --------------------------------
(***************************************************************************)
(* The slide history (class History, src/src/sls.cpp): which transport id  *)
(* (fidx) a slide is sent with.  A slide is known by its fingerprint, the  *)
(* name, size and modification time of its file, here one value.           *)
(***************************************************************************)
EXTENDS Integers, Sequences

CONSTANTS Fingerprints,
          MAXHISTORYLEN,  \* fingerprints remembered (the code: 50)
          MAXSLIDEID      \* roll-over value of the fidx (the code: 9999)

ASSUME HistoryAssumption ==
    /\ MAXHISTORYLEN \in Nat \ {0}
    /\ MAXSLIDEID \in Nat
    /\ MAXHISTORYLEN <= MAXSLIDEID

VARIABLES m_database,        \* the remembered fingerprints, oldest first
          m_last_given_fidx  \* in fact the next fidx to be given

historyVars == <<m_database, m_last_given_fidx>>

Ids == 0 .. MAXSLIDEID

Entries == [fp : Fingerprints, fidx : Ids]

HistoryInit ==
    /\ m_database = <<>>
    /\ m_last_given_fidx = 0

-----------------------------------------------------------------------------
Known(fp) == \E i \in 1 .. Len(m_database) : m_database[i].fp = fp

\* The id that get_fidx returns: find's for a known fingerprint (the first match
\* is the only one), else the next one.
Fidx(fp) ==
    IF Known(fp)
    THEN m_database[CHOOSE i \in 1 .. Len(m_database) : m_database[i].fp = fp].fidx
    ELSE m_last_given_fidx

\* Faulty: never forgets.
addWithoutLimit(entry) == m_database' = Append(m_database, entry)

add(entry) ==
    LET longer == Append(m_database, entry)
    IN  m_database' = IF Len(longer) > MAXHISTORYLEN THEN Tail(longer) ELSE longer

\* Faulty: does not look for the fingerprint first.
get_fidxAlwaysNew(fp) ==
    /\ add([fp |-> fp, fidx |-> m_last_given_fidx])
    /\ m_last_given_fidx' = IF m_last_given_fidx + 1 > MAXSLIDEID THEN 0
                            ELSE m_last_given_fidx + 1

\* Faulty: the ids roll over one too late.
get_fidxLateRollOver(fp) ==
    IF Known(fp)
    THEN UNCHANGED historyVars
    ELSE /\ add([fp |-> fp, fidx |-> m_last_given_fidx])
         /\ m_last_given_fidx' = IF m_last_given_fidx > MAXSLIDEID THEN 0
                                 ELSE m_last_given_fidx + 1

get_fidx(fp) ==
    IF Known(fp)
    THEN UNCHANGED historyVars
    ELSE /\ add([fp |-> fp, fidx |-> m_last_given_fidx])
         /\ m_last_given_fidx' = IF m_last_given_fidx + 1 > MAXSLIDEID THEN 0
                                 ELSE m_last_given_fidx + 1

HistoryNext == \E fp \in Fingerprints : get_fidx(fp)

HistorySpec == HistoryInit /\ [][HistoryNext]_historyVars

-----------------------------------------------------------------------------
HistoryTypeOK ==
    /\ m_database \in Seq(Entries)
    /\ Len(m_database) <= MAXHISTORYLEN
    /\ m_last_given_fidx \in Ids

\* Receivers cache slides by their id, so no two remembered slides share one,
\* also after the ids have rolled over; and no slide is remembered twice.
UniqueIds ==
    \A i, j \in 1 .. Len(m_database) :
        i # j => /\ m_database[i].fidx # m_database[j].fidx
                 /\ m_database[i].fp # m_database[j].fp

\* A new slide never gets the id of a remembered one.
NextIdFree ==
    \A i \in 1 .. Len(m_database) : m_database[i].fidx # m_last_given_fidx

\* "we can retransmit identical slides with the same index": as long as a slide
\* is remembered its id does not change.
StableIds ==
    [][\A fp \in Fingerprints : Known(fp) /\ Known(fp)' => Fidx(fp)' = Fidx(fp)]_historyVars

-----------------------------------------------------------------------------
\* The inductive invariant: the remembered ids are the last ones given, in order.
\* The id given n ids before next.
Ago(next, n) == IF n <= next THEN next - n ELSE next - n + MAXSLIDEID + 1

LastIds ==
    \A i \in 1 .. Len(m_database) :
        m_database[i].fidx = Ago(m_last_given_fidx, Len(m_database) + 1 - i)

UniqueFingerprints ==
    \A i, j \in 1 .. Len(m_database) :
        m_database[i].fp = m_database[j].fp => i = j

HistoryInv == HistoryTypeOK /\ LastIds /\ UniqueFingerprints
=============================================================================
