-------------------------- MODULE SlideCarouselProofs --------------------------
(***************************************************************************)
(* The slides that are sent, for every set of file names, every length of  *)
(* the history and however many writes and removals there are.  First the  *)
(* history alone: the ids of the remembered slides are unique and stable.  *)
(* Then the store with its history: the history works as it does on its    *)
(* own, a slide is sent again in spite of --erase only if it could not be  *)
(* erased, and the slides of a round have different ids.                   *)
(***************************************************************************)
EXTENDS SlideCarousel, NumberProofs, FiniteSetTheorems,
        FunctionTheorems, SequenceTheorems, TLAPS

-----------------------------------------------------------------------------
(***************************************************************************)
(* The history: the database always holds the last ids given, and it is    *)
(* shorter than a round of the ids.                                        *)
(***************************************************************************)
LEMMA InitHistoryInv == HistoryInit => HistoryInv
BY HistoryAssumption
   DEF HistoryInit, HistoryInv, HistoryTypeOK, LastIds, UniqueFingerprints, Ids

\* What get_fidx does for a new slide, entry by entry: all entries, or all but
\* the oldest, move up, and the new one is the last.
LEMMA NewEntry ==
    ASSUME HistoryTypeOK, NEW fp \in Fingerprints, ~Known(fp), get_fidx(fp)
    PROVE  LET entry == [fp |-> fp, fidx |-> m_last_given_fidx]
           IN  \E gone \in {0, 1} :
                 /\ m_database' \in Seq(Entries)
                 /\ Len(m_database') = Len(m_database) + 1 - gone
                 /\ Len(m_database') <= MAXHISTORYLEN
                 /\ \A i \in 1 .. Len(m_database') - 1 :
                       m_database'[i] = m_database[i + gone]
                 /\ Len(m_database') > 0
                 /\ m_database'[Len(m_database')] = entry
<1> DEFINE entry  == [fp |-> fp, fidx |-> m_last_given_fidx]
           longer == Append(m_database, entry)
<1>1. entry \in Entries
    BY DEF HistoryTypeOK, Entries
<1>2. m_database \in Seq(Entries) /\ Len(m_database) \in Nat
    BY DEF HistoryTypeOK
<1> HIDE DEF entry
<1>3. /\ longer \in Seq(Entries)
      /\ Len(longer) = Len(m_database) + 1
      /\ \A i \in 1 .. Len(m_database) : longer[i] = m_database[i]
      /\ longer[Len(m_database) + 1] = entry
    BY <1>1, <1>2
<1>4. m_database' = IF Len(longer) > MAXHISTORYLEN THEN Tail(longer) ELSE longer
    BY DEF get_fidx, add, entry
<1> HIDE DEF longer
<1>5. Len(m_database) <= MAXHISTORYLEN /\ MAXHISTORYLEN \in Nat \ {0}
    BY HistoryAssumption DEF HistoryTypeOK
<1>6. CASE Len(longer) > MAXHISTORYLEN
  <2>1. /\ m_database' \in Seq(Entries)
        /\ Len(m_database') = Len(m_database)
        /\ \A i \in 1 .. Len(m_database) : m_database'[i] = longer[i + 1]
    BY <1>2, <1>3, <1>4, <1>6
  <2>2. Len(m_database) > 0
    BY <1>2, <1>3, <1>5, <1>6
  <2>3. \A i \in 1 .. Len(m_database) - 1 : m_database'[i] = m_database[i + 1]
    BY <1>2, <1>3, <2>1
  <2>4. m_database'[Len(m_database)] = entry
    BY <1>2, <1>3, <2>1, <2>2
  <2>5. /\ m_database' \in Seq(Entries)
        /\ Len(m_database') = Len(m_database) + 1 - 1
        /\ Len(m_database') <= MAXHISTORYLEN
        /\ \A i \in 1 .. Len(m_database') - 1 : m_database'[i] = m_database[i + 1]
        /\ Len(m_database') > 0
        /\ m_database'[Len(m_database')] = entry
    BY <1>2, <1>5, <2>1, <2>2, <2>3, <2>4
  <2> QED
    BY <2>5 DEF entry
<1>7. CASE ~(Len(longer) > MAXHISTORYLEN)
  <2>1. m_database' = longer
    BY <1>4, <1>7
  <2>2. /\ m_database' \in Seq(Entries)
        /\ Len(m_database') = Len(m_database) + 1 - 0
        /\ Len(m_database') <= MAXHISTORYLEN
        /\ \A i \in 1 .. Len(m_database') - 1 : m_database'[i] = m_database[i + 0]
        /\ Len(m_database') > 0
        /\ m_database'[Len(m_database')] = entry
    BY <1>2, <1>3, <1>5, <1>7, <2>1
  <2> QED
    BY <2>2 DEF entry
<1> QED
    BY <1>6, <1>7

LEMMA NextHistoryInv == HistoryInv /\ [HistoryNext]_historyVars => HistoryInv'
<1> SUFFICES ASSUME HistoryInv, [HistoryNext]_historyVars PROVE HistoryInv'
    OBVIOUS
<1>1. CASE UNCHANGED historyVars
    BY <1>1 DEF historyVars, HistoryInv, HistoryTypeOK, LastIds, UniqueFingerprints, Ago
<1>2. ASSUME NEW fp \in Fingerprints, get_fidx(fp), Known(fp) PROVE HistoryInv'
    BY <1>1, <1>2 DEF get_fidx
<1>3. ASSUME NEW fp \in Fingerprints, get_fidx(fp), ~Known(fp) PROVE HistoryInv'
  <2> DEFINE entry == [fp |-> fp, fidx |-> m_last_given_fidx]
  <2>1. PICK gone \in {0, 1} :
             /\ m_database' \in Seq(Entries)
             /\ Len(m_database') = Len(m_database) + 1 - gone
             /\ Len(m_database') <= MAXHISTORYLEN
             /\ \A i \in 1 .. Len(m_database') - 1 :
                   m_database'[i] = m_database[i + gone]
             /\ Len(m_database') > 0
             /\ m_database'[Len(m_database')] = entry
      BY <1>3, NewEntry DEF HistoryInv
  <2>2. m_last_given_fidx' = IF m_last_given_fidx + 1 > MAXSLIDEID THEN 0
                             ELSE m_last_given_fidx + 1
      BY <1>3 DEF get_fidx
  <2>3. /\ m_last_given_fidx \in Nat /\ m_last_given_fidx <= MAXSLIDEID
        /\ MAXSLIDEID \in Nat /\ MAXHISTORYLEN \in Nat \ {0}
        /\ MAXHISTORYLEN <= MAXSLIDEID /\ Len(m_database) \in Nat
      BY HistoryAssumption DEF HistoryInv, HistoryTypeOK, Ids
  <2>4. HistoryTypeOK'
      BY <2>1, <2>2, <2>3 DEF HistoryTypeOK, Ids
  <2>5. LastIds'
    <3> DEFINE next == m_last_given_fidx
    <3> SUFFICES ASSUME NEW i \in 1 .. Len(m_database')
                 PROVE  m_database'[i].fidx = Ago(next', Len(m_database') + 1 - i)
        BY DEF LastIds
    <3>1. Len(m_database') \in Nat
        BY <2>1, <2>3
    <3>2. CASE i = Len(m_database')
      <4>1. m_database'[i].fidx = next
          BY <2>1, <3>2
      <4>2. Ago(next', 1) = next
          BY <2>2, <2>3 DEF Ago
      <4>3. Len(m_database') + 1 - i = 1
          BY <3>1, <3>2
      <4> QED
          BY <4>1, <4>2, <4>3
    <3>3. CASE i # Len(m_database')
      <4>1. i \in 1 .. Len(m_database') - 1 /\ i + gone \in 1 .. Len(m_database)
          BY <2>1, <2>3, <3>1, <3>3
      <4>2. m_database'[i].fidx = Ago(next, Len(m_database) + 1 - (i + gone))
          BY <2>1, <4>1 DEF HistoryInv, LastIds
      <4> DEFINE n == Len(m_database') + 1 - i
      <4>3. n \in Nat /\ n >= 2 /\ n <= MAXSLIDEID
          BY <2>1, <2>3, <3>1, <4>1
      <4>4. Len(m_database) + 1 - (i + gone) = n - 1
          BY <2>1, <2>3, <3>1, <4>1
      <4> HIDE DEF n
      <4>5. Ago(next, n - 1) = Ago(next', n)
          BY <2>2, <2>3, <4>3 DEF Ago
      <4> QED
          BY <4>2, <4>4, <4>5 DEF n
    <3> QED
        BY <3>2, <3>3
  <2>6. UniqueFingerprints'
    <3>1. \A i \in 1 .. Len(m_database) : m_database[i].fp # fp
        BY <1>3 DEF Known
    <3>2. entry.fp = fp
        OBVIOUS
    <3> HIDE DEF entry
    <3> SUFFICES ASSUME NEW i \in 1 .. Len(m_database'), NEW j \in 1 .. Len(m_database'),
                        m_database'[i].fp = m_database'[j].fp
                 PROVE  i = j
        BY DEF UniqueFingerprints
    <3>3. \A k \in 1 .. Len(m_database') - 1 :
             k + gone \in 1 .. Len(m_database) /\ m_database'[k] = m_database[k + gone]
      <4>1. /\ gone \in Int /\ gone >= 0
            /\ Len(m_database') - 1 = Len(m_database) - gone
          BY <2>1, <2>3
      <4>2. \A k \in 1 .. Len(m_database') - 1 : m_database'[k] = m_database[k + gone]
          BY <2>1
      <4> DEFINE len == Len(m_database)
      <4>3. \A k \in 1 .. len - gone : k + gone \in 1 .. len
        <5>1. len \in Nat
            BY <2>3
        <5> HIDE DEF len
        <5> QED
            BY <4>1, <5>1
      <4> QED
          BY <4>1, <4>2, <4>3
    <3>4. Len(m_database') \in Nat \ {0} /\ m_database'[Len(m_database')].fp = fp
        BY <2>1, <3>2
    <3>5. \A k \in 1 .. Len(m_database') - 1 : m_database'[k].fp # fp
        BY <3>1, <3>3
    <3>6. CASE i = Len(m_database') \/ j = Len(m_database')
        BY <3>4, <3>5, <3>6
    <3>7. CASE i # Len(m_database') /\ j # Len(m_database')
      <4>1. i \in 1 .. Len(m_database') - 1 /\ j \in 1 .. Len(m_database') - 1
          BY <3>4, <3>7
      <4>2. m_database[i + gone].fp = m_database[j + gone].fp
          BY <3>3, <4>1
      <4>3. i + gone = j + gone
          BY <3>3, <4>1, <4>2 DEF HistoryInv, UniqueFingerprints
      <4> QED
          BY <4>3
    <3> QED
        BY <3>6, <3>7
  <2> QED
      BY <2>4, <2>5, <2>6 DEF HistoryInv
<1> QED
    BY <1>1, <1>2, <1>3 DEF HistoryNext

\* The database always holds the last ids given, each for another slide.
THEOREM HistoryInvariant == HistorySpec => []HistoryInv
BY InitHistoryInv, NextHistoryInv, PTL DEF HistorySpec

-----------------------------------------------------------------------------
LEMMA HistoryInvUnique == HistoryInv => UniqueIds /\ NextIdFree
<1> SUFFICES ASSUME HistoryInv PROVE UniqueIds /\ NextIdFree
    OBVIOUS
<1> DEFINE next == m_last_given_fidx
           len  == Len(m_database)
<1>1. /\ next \in Nat /\ next <= MAXSLIDEID
      /\ MAXSLIDEID \in Nat /\ len \in Nat /\ len <= MAXSLIDEID
    BY HistoryAssumption DEF HistoryInv, HistoryTypeOK, Ids
<1>2. \A i \in 1 .. len : m_database[i].fidx = Ago(next, len + 1 - i)
    BY DEF HistoryInv, LastIds
<1> HIDE DEF next, len
\* within a round the ids given are different
<1>3. \A m, n \in 1 .. len : m # n => Ago(next, m) # Ago(next, n)
    BY <1>1 DEF Ago
<1>4. \A n \in 1 .. len : Ago(next, n) # next
    BY <1>1 DEF Ago
<1>5. \A i \in 1 .. len : len + 1 - i \in 1 .. len
    BY <1>1
<1>6. NextIdFree
    BY <1>2, <1>4, <1>5 DEF NextIdFree, next, len
<1>7. ASSUME NEW i \in 1 .. len, NEW j \in 1 .. len, i # j
      PROVE  m_database[i].fidx # m_database[j].fidx /\ m_database[i].fp # m_database[j].fp
  <2>1. len + 1 - i # len + 1 - j
      BY <1>1, <1>7
  <2>2. m_database[i].fidx # m_database[j].fidx
      BY <1>2, <1>3, <1>5, <2>1
  <2>3. m_database[i].fp # m_database[j].fp
      BY <1>7 DEF HistoryInv, UniqueFingerprints, len
  <2> QED
      BY <2>2, <2>3
<1> QED
    BY <1>6, <1>7 DEF UniqueIds, len

\* No two remembered slides share an id or a fingerprint, also after the ids have
\* rolled over at MAXSLIDEID (History::get_fidx, History::add).
THEOREM IdsUnique == HistorySpec => []UniqueIds
BY HistoryInvariant, HistoryInvUnique, PTL

\* The next id to be given belongs to no remembered slide.
THEOREM NextIdIsFree == HistorySpec => []NextIdFree
BY HistoryInvariant, HistoryInvUnique, PTL

-----------------------------------------------------------------------------
\* The id of a remembered slide is that of its only entry.
LEMMA FidxOfEntry ==
    ASSUME UniqueFingerprints, NEW i \in 1 .. Len(m_database)
    PROVE  Fidx(m_database[i].fp) = m_database[i].fidx
BY DEF UniqueFingerprints, Fidx, Known

LEMMA StableStep ==
    ASSUME HistoryInv, [HistoryNext]_historyVars,
           NEW slide \in Fingerprints, Known(slide), Known(slide)'
    PROVE  Fidx(slide)' = Fidx(slide)
<1>1. HistoryInv'
    BY NextHistoryInv
<1>2. CASE UNCHANGED historyVars
    BY <1>2 DEF historyVars, Fidx, Known
<1>3. ASSUME NEW fp \in Fingerprints, get_fidx(fp), Known(fp)
      PROVE  Fidx(slide)' = Fidx(slide)
    BY <1>2, <1>3 DEF get_fidx
<1>4. ASSUME NEW fp \in Fingerprints, get_fidx(fp), ~Known(fp)
      PROVE  Fidx(slide)' = Fidx(slide)
  <2> DEFINE entry == [fp |-> fp, fidx |-> m_last_given_fidx]
  <2>1. PICK gone \in {0, 1} :
             /\ m_database' \in Seq(Entries)
             /\ Len(m_database') = Len(m_database) + 1 - gone
             /\ Len(m_database') <= MAXHISTORYLEN
             /\ \A i \in 1 .. Len(m_database') - 1 :
                   m_database'[i] = m_database[i + gone]
             /\ Len(m_database') > 0
             /\ m_database'[Len(m_database')] = entry
      BY <1>4, NewEntry DEF HistoryInv
  <2>2. PICK j \in 1 .. Len(m_database') : m_database'[j].fp = slide
      BY DEF Known
  <2>3. slide # fp
      BY <1>4
  <2>4. j \in 1 .. Len(m_database') - 1
      BY <2>1, <2>2, <2>3
  <2>5. j + gone \in 1 .. Len(m_database) /\ m_database'[j] = m_database[j + gone]
      BY <2>1, <2>4
  <2>6. Fidx(slide) = m_database[j + gone].fidx
      BY <2>2, <2>5, FidxOfEntry DEF HistoryInv
  <2>7. Fidx(slide)' = m_database'[j].fidx
      BY <1>1, <2>2 DEF HistoryInv, UniqueFingerprints, Fidx, Known
  <2> QED
      BY <2>5, <2>6, <2>7
<1> QED
    BY <1>2, <1>3, <1>4 DEF HistoryNext

\* As long as a slide stays in the history it is sent with the same id
\* (History::find before a new id is given).
THEOREM IdsStable == HistorySpec => StableIds
<1>1. HistoryInv /\ [HistoryNext]_historyVars =>
         [\A fp \in Fingerprints : Known(fp) /\ Known(fp)' => Fidx(fp)' = Fidx(fp)]_historyVars
    BY StableStep
<1> QED
    BY <1>1, HistoryInvariant, PTL DEF HistorySpec, StableIds

-----------------------------------------------------------------------------
(***************************************************************************)
(* Sorting by rank.                                                        *)
(***************************************************************************)
SlideList == Seq([name : Names, fidx : Ids])

\* The sorted list has the slides of the list, each once, none before one of a lower id.
LEMMA SortOK ==
    ASSUME NEW list \in SlideList
    PROVE  /\ sort(list) \in SlideList
           /\ Len(sort(list)) = Len(list)
           /\ \E p \in [1 .. Len(list) -> 1 .. Len(list)] :
                 /\ \A k \in 1 .. Len(list) : sort(list)[k] = list[p[k]]
                 /\ \A k, l \in 1 .. Len(list) : k # l => p[k] # p[l]
           /\ \A k, l \in 1 .. Len(list) : k < l => sort(list)[k].fidx <= sort(list)[l].fidx
<1> DEFINE c == Len(list)
           S == 1 .. c
           id(i) == list[i].fidx
           before(i) == {j \in S : ById(list[j], list[i]) \/ (j <= i /\ ~ById(list[i], list[j]))}
           r == [i \in S |-> Rank(list, i)]
<1>1. c \in Nat /\ \A i \in S : list[i] \in [name : Names, fidx : Ids]
    <2> DEFINE R == [name : Names, fidx : Ids]
    <2>1. list \in Seq(R)
        BY DEF SlideList
    <2> HIDE DEF R
    <2>2. Len(list) \in Nat /\ \A i \in 1 .. Len(list) : list[i] \in R
        BY <2>1
    <2> QED
        BY <2>2 DEF R
<1>2. c \in Nat /\ \A i \in S : id(i) \in Int
    BY <1>1, HistoryAssumption DEF Ids
<1>3. \A i \in S : list[i] \in [name : Names, fidx : Ids]
    BY <1>1
<1>4. IsFiniteSet(S) /\ Cardinality(S) = c
    BY <1>2, FS_Interval
<1>5. \A i \in S : before(i) = {j \in S : id(j) < id(i) \/ (j <= i /\ ~(id(i) < id(j)))}
    BY DEF ById
<1>6. \A i \in S : r[i] = Cardinality(before(i))
    BY DEF Rank
<1> HIDE DEF S, id, before, r
<1>7. ASSUME NEW i \in S PROVE r[i] \in 1 .. c
    <2>1. before(i) \in SUBSET S /\ i \in before(i)
        BY <1>2, <1>5 DEF S
    <2>2. IsFiniteSet(before(i)) /\ Cardinality(before(i)) <= c
        BY <1>4, <2>1, FS_Subset
    <2>3. Cardinality(before(i)) \in Nat /\ Cardinality(before(i)) # 0
        BY <2>1, <2>2, FS_CardinalityType, FS_EmptySet
    <2> QED
        BY <1>2, <1>6, <2>2, <2>3
<1>8. ASSUME NEW i \in S, NEW j \in S, id(i) < id(j) \/ (id(i) = id(j) /\ i < j) PROVE r[i] < r[j]
    <2>1. before(j) \in SUBSET S /\ before(i) \in SUBSET S
        BY <1>5
    <2>2. \A k \in before(i) : k \in before(j)
        BY <1>2, <1>5, <1>8 DEF S
    <2>3. j \in before(j) /\ j \notin before(i)
        BY <1>2, <1>5, <1>8 DEF S
    <2>4. Cardinality(before(i)) < Cardinality(before(j))
        BY <1>4, <2>1, <2>2, <2>3, FewerBefore
    <2> QED
        BY <1>6, <2>4
<1>9. \A i, j \in S : r[i] = r[j] => i = j
    <2> SUFFICES ASSUME NEW i \in S, NEW j \in S, r[i] = r[j], i # j PROVE FALSE
        OBVIOUS
    <2>1. \/ id(i) < id(j) \/ (id(i) = id(j) /\ i < j)
          \/ id(j) < id(i) \/ (id(j) = id(i) /\ j < i)
        BY <1>2 DEF S
    <2>2. r[i] \in Int /\ r[j] \in Int
        BY <1>7
    <2> QED
        BY <1>8, <2>1, <2>2
<1>10. \A k \in S : \E i \in S : Rank(list, i) = k
    <2>1. r \in [S -> 1 .. Cardinality(S)]
        BY <1>4, <1>7 DEF r
    <2>2. \A k \in 1 .. c : \E i \in S : r[i] = k
        BY <1>4, <1>9, <2>1, RanksTaken
    <2> QED
        BY <2>2 DEF r, S
<1> DEFINE p == [k \in S |-> CHOOSE i \in S : Rank(list, i) = k]
<1>11. \A k \in S : p[k] \in S /\ r[p[k]] = k
    BY <1>10 DEF r
<1>12. sort(list) = [k \in S |-> list[p[k]]]
    BY DEF sort, S
<1> HIDE DEF p
<1>13. p \in [S -> S] /\ \A k, l \in S : k # l => p[k] # p[l]
    BY <1>11 DEF p
<1>14. sort(list) \in [S -> [name : Names, fidx : Ids]]
    BY <1>11, <1>12, <1>3
<1>15. sort(list) \in SlideList /\ Len(sort(list)) = c
    BY <1>2, <1>14 DEF S, SlideList
<1>16. ASSUME NEW k \in S, NEW l \in S, k < l PROVE id(p[k]) <= id(p[l])
    <2>1. r[p[k]] < r[p[l]]
        BY <1>11, <1>16
    <2>2. ~(r[p[l]] < r[p[k]])
        BY <1>7, <1>11, <2>1
    <2>3. ~(id(p[l]) < id(p[k]))
        BY <1>8, <1>11, <2>2
    <2> QED
        BY <1>2, <1>11, <2>3
<1>17. \A k \in S : sort(list)[k] = list[p[k]] /\ sort(list)[k].fidx = id(p[k])
    BY <1>12 DEF id
<1> QED
    BY <1>13, <1>15, <1>16, <1>17 DEF S

-----------------------------------------------------------------------------
(***************************************************************************)
(* Types, and the history.                                                 *)
(***************************************************************************)
TypeInv ==
    /\ CarouselTypeOK
    /\ erase_after_tx \in BOOLEAN /\ accessible \in BOOLEAN /\ writes \in 0 .. MaxWrites
    /\ pc \in {"encode", "erase"} => cur.name \in Names

\* What stat leaves in the fingerprint is one that a file may have.
LEMMA FingerprintsOK ==
    ASSUME CarouselTypeOK, NEW n \in Names
    PROVE  FingerprintsOf(n) \subseteq [name : {n}, ver : Versions]
<1>1. File(n) \in Files
    BY DEF File, CarouselTypeOK, Files, Absent
<1>2. File(n) # Absent => File(n).ver \in Versions
    BY <1>1, CarouselAssumption DEF Files, Versions
<1> QED
    BY <1>2 DEF FingerprintsOf

\* Every step is one of the history on its own, or leaves the history alone.
LEMMA HistoryStep == TypeInv /\ [CarouselNext]_carouselVars => [HistoryNext]_historyVars
<1> SUFFICES ASSUME TypeInv, [CarouselNext]_carouselVars PROVE [HistoryNext]_historyVars
    OBVIOUS
<1>1. CASE StatFile
    <2>1. PICK fp \in FingerprintsOf(Head(todo)) : get_fidx(fp)
        BY <1>1 DEF StatFile
    <2>2. Head(todo) \in Names
        BY <1>1 DEF StatFile, TypeInv, CarouselTypeOK
    <2>3. fp \in Fingerprints
        BY <2>1, <2>2, FingerprintsOK, CarouselAssumption DEF TypeInv
    <2> QED
        BY <2>1, <2>3 DEF HistoryNext
<1>2. CASE ~StatFile
    BY <1>2 DEF CarouselNext, Program, WriteFile, RemoveFile, RequestReread, LoseDirectory, TransmissionEnds,
            Call, ScanDir, SortSlides, GetSlide, EncodeOK, EncodeFails, EraseFile, programVars, carouselVars
<1> QED
    BY <1>1, <1>2

LEMMA InitTypeInv == CarouselInit => TypeInv
<1> SUFFICES ASSUME CarouselInit PROVE TypeInv
    OBVIOUS
<1>1. HistoryTypeOK
    BY InitHistoryInv DEF CarouselInit, HistoryInv
<1>2. 0 \in Ids /\ 0 \in Versions /\ 0 \in 0 .. MaxWrites
    BY HistoryAssumption, CarouselAssumption DEF Ids, Versions
<1>3. dir \in [Names -> Files]
    BY DEF CarouselInit, Files
<1>4. onair \in [name : Names \cup {0}, ver : Versions, fidx : Ids]
    BY <1>2 DEF CarouselInit, Idle
<1> QED
    BY <1>1, <1>2, <1>3, <1>4, CarouselAssumption DEF TypeInv, CarouselTypeOK, CarouselInit

\* The id that a slide is given is one.
LEMMA FidxOK ==
    ASSUME HistoryTypeOK, NEW fp
    PROVE  Fidx(fp) \in Ids
<1>1. CASE Known(fp)
    <2> DEFINE i == CHOOSE i \in 1 .. Len(m_database) : m_database[i].fp = fp
    <2>1. i \in 1 .. Len(m_database)
        BY <1>1 DEF Known
    <2> HIDE DEF i
    <2>2. m_database[i] \in Entries
        BY <2>1 DEF HistoryTypeOK
    <2> QED
        BY <1>1, <2>2 DEF Fidx, Entries, i
<1>2. CASE ~Known(fp)
    BY <1>2 DEF Fidx, HistoryTypeOK
<1> QED
    BY <1>1, <1>2

LEMMA NextTypeInv == TypeInv /\ HistoryInv /\ [CarouselNext]_carouselVars => TypeInv'
<1> SUFFICES ASSUME TypeInv, HistoryInv, [CarouselNext]_carouselVars PROVE TypeInv'
    OBVIOUS
<1> USE DEF TypeInv, CarouselTypeOK
<1>1. HistoryTypeOK'
    BY HistoryStep, NextHistoryInv DEF HistoryInv
<1>2. CASE UNCHANGED carouselVars
    BY <1>1, <1>2 DEF carouselVars, dirVars, logVars
<1>3. ASSUME NEW n \in Names, NEW good \in BOOLEAN, WriteFile(n, good) PROVE TypeInv'
    <2>1. writes + 1 \in 1 .. MaxWrites /\ writes' = writes + 1
        BY <1>3, CarouselAssumption DEF WriteFile
    <2>2. [ver |-> writes + 1, good |-> good] \in Files
        BY <2>1 DEF Files
    <2>3. dir' \in [Names -> Files]
        BY <1>3, <2>2 DEF WriteFile
    <2> QED
        BY <1>1, <1>3, <2>1, <2>3 DEF WriteFile, programVars, logVars
<1>4. ASSUME NEW n \in Names, RemoveFile(n) PROVE TypeInv'
    <2>1. dir' \in [Names -> Files]
        BY <1>4 DEF RemoveFile, Files
    <2> QED
        BY <1>1, <1>4, <2>1 DEF RemoveFile, programVars, logVars
<1>5. CASE RequestReread \/ LoseDirectory
    BY <1>1, <1>5 DEF RequestReread, LoseDirectory, programVars, logVars
<1>6. CASE TransmissionEnds
    <2>1. Idle \in [name : Names \cup {0}, ver : Versions, fidx : Ids]
        BY HistoryAssumption, CarouselAssumption DEF Idle, Ids, Versions
    <2> QED
        BY <1>1, <1>6, <2>1 DEF TransmissionEnds, dirVars
<1>7. CASE Call
    <2>1. slides' \in {<<>>, slides} /\ pc' \in {"next", "failed"}
        BY <1>7 DEF Call
    <2>2. slides' \in Seq([name : Names, fidx : Ids])
        BY <2>1, EmptySeq
    <2> QED
        BY <1>1, <1>7, <2>1, <2>2 DEF Call, logVars
<1>8. CASE ScanDir
    <2> DEFINE there == {n \in Names : dir[n] # Absent}
    <2>1. there \in SUBSET Names /\ there \subseteq Nat /\ IsFiniteSet(there)
        BY CarouselAssumption, FS_Subset
    <2>2. alphasort(there) \in Seq(there)
        BY <2>1, AscendingOK DEF alphasort
    <2>3. alphasort(there) \in Seq(Names)
        BY <2>1, <2>2, SeqMonotonic
    <2>4. todo' \in Seq(Names) /\ pc' \in {"stat", "failed"}
        BY <1>8, <2>3 DEF ScanDir
    <2> QED
        BY <1>1, <1>8, <2>4 DEF ScanDir, dirVars, logVars
<1>9. CASE StatFile
    <2>1. Head(todo) \in Names /\ Tail(todo) \in Seq(Names)
        BY <1>9 DEF StatFile
    <2>2. PICK fp \in FingerprintsOf(Head(todo)) :
                 slides' = Append(slides, [name |-> Head(todo), fidx |-> Fidx(fp)])
        BY <1>9 DEF StatFile
    <2>3. slides' \in Seq([name : Names, fidx : Ids])
        BY <2>1, <2>2, FidxOK
    <2> QED
        BY <1>1, <1>9, <2>1, <2>3 DEF StatFile, dirVars, logVars
<1>10. CASE SortSlides
    <2>1. slides' \in Seq([name : Names, fidx : Ids])
        BY <1>10, SortOK DEF SortSlides, SlideList
    <2> QED
        BY <1>1, <1>10, <2>1 DEF SortSlides, dirVars, logVars
<1>11. CASE GetSlide
    <2>1. /\ cur' \in [name : Names, fidx : Ids]
          /\ slides' \in Seq([name : Names, fidx : Ids])
        <3> DEFINE R == [name : Names, fidx : Ids]
        <3>1. slides \in Seq(R) /\ slides # <<>> /\ cur' = Head(slides) /\ slides' = Tail(slides)
            BY <1>11 DEF GetSlide
        <3> HIDE DEF R
        <3>2. cur' \in R /\ slides' \in Seq(R)
            BY ONLY <3>1
        <3> QED
            BY <3>2 DEF R
    <2> QED
        BY <1>1, <1>11, <2>1 DEF GetSlide, dirVars, logVars
<1>12. CASE EncodeOK
    <2> DEFINE slide == [name |-> cur.name, ver |-> dir[cur.name].ver, fidx |-> cur.fidx]
    <2>1. cur.name \in Names /\ cur.fidx \in Ids
        BY <1>12 DEF EncodeOK
    <2>2. dir[cur.name] # Absent
        BY <1>12 DEF EncodeOK, File, Absent
    <2>3. dir[cur.name].ver \in 1 .. MaxWrites
        BY <2>1, <2>2 DEF Files
    <2>4. slide \in [name : Names, ver : 1 .. MaxWrites, fidx : Ids]
        BY <2>1, <2>3
    <2>5. slide \in [name : Names \cup {0}, ver : Versions, fidx : Ids]
        BY <2>1, <2>3, CarouselAssumption DEF Versions
    <2> HIDE DEF slide
    <2>6. onair' = slide /\ sentIds' = sentIds \cup {slide}
        BY <1>12 DEF EncodeOK, slide
    <2>7. pc' \in {"erase", "idle"}
        BY <1>12 DEF EncodeOK
    <2> QED
        BY <1>1, <1>12, <2>1, <2>4, <2>5, <2>6, <2>7 DEF EncodeOK, dirVars
<1>13. CASE EncodeFails
    BY <1>1, <1>13 DEF EncodeFails, dirVars, logVars
<1>14. CASE EraseFile
    <2>1. dir' \in [Names -> Files]
        BY <1>14 DEF EraseFile, Files
    <2>2. cur.name \in Names /\ dir[cur.name] \in Files
        BY <1>14 DEF EraseFile
    <2>3. dir[cur.name].ver \in 1 .. MaxWrites \cup {0}
        BY <2>2 DEF Files, Absent
    <2>4. kept' \subseteq 1 .. MaxWrites
        BY <1>14, <2>3 DEF EraseFile
    <2> QED
        BY <1>1, <1>14, <2>1, <2>4 DEF EraseFile
<1> QED
    BY <1>2, <1>3, <1>4, <1>5, <1>6, <1>7, <1>8, <1>9, <1>10, <1>11, <1>12, <1>13, <1>14
    DEF CarouselNext, Program

\* Types, for all names and bounds.
THEOREM CarouselTypes == CarouselSpec => []CarouselTypeOK
<1>1. CarouselInit => TypeInv /\ HistoryInv
    BY InitTypeInv, InitHistoryInv DEF CarouselInit
<1>2. TypeInv /\ HistoryInv /\ [CarouselNext]_carouselVars => (TypeInv /\ HistoryInv)'
    BY NextTypeInv, HistoryStep, NextHistoryInv
<1>3. TypeInv => CarouselTypeOK
    BY DEF TypeInv
<1> QED
    BY <1>1, <1>2, <1>3, PTL DEF CarouselSpec

LEMMA CarouselInvariant == CarouselSpec => [](TypeInv /\ HistoryInv)
<1>1. CarouselInit => TypeInv /\ HistoryInv
    BY InitTypeInv, InitHistoryInv DEF CarouselInit
<1>2. TypeInv /\ HistoryInv /\ [CarouselNext]_carouselVars => (TypeInv /\ HistoryInv)'
    BY NextTypeInv, HistoryStep, NextHistoryInv
<1> QED
    BY <1>1, <1>2, PTL DEF CarouselSpec

\* EncodeSlide uses the history as the module History says, whatever happens to the files:
\* SlideStore::InitFromDir implements HistorySpec.
THEOREM HistoryUsed == CarouselSpec => HistorySpec
<1>1. CarouselInit => HistoryInit
    BY DEF CarouselInit
<1> QED
    BY <1>1, HistoryStep, CarouselInvariant, PTL DEF CarouselSpec, HistorySpec

\* Thus the last ids given are the ones remembered, ...
THEOREM HistoryInvKept == CarouselSpec => []HistoryInv
BY HistoryUsed, HistoryInvariant, PTL

\* ... no two slides in the history of the running program share an id, ...
THEOREM CarouselIdsUnique == CarouselSpec => []UniqueIds
BY HistoryUsed, IdsUnique, PTL

\* ... and a remembered slide keeps its id there.
THEOREM CarouselIdsStable == CarouselSpec => StableIds
BY HistoryUsed, IdsStable, PTL

-----------------------------------------------------------------------------
(***************************************************************************)
(* Erased slides are sent once.                                            *)
(***************************************************************************)
\* With --erase, no version of a file that has been sent is in the directory, except for
\* the one about to be erased and those that could not be.
SentAndGone ==
    erase_after_tx =>
        /\ twice \subseteq kept
        /\ \A s \in sentIds : s.ver <= writes
        /\ \A n \in Names : dir[n].ver <= writes
        /\ \A m, n \in Names : dir[m] # Absent /\ dir[m].ver = dir[n].ver => m = n
        /\ \A n \in Names : accessible /\ dir[n] # Absent /\ (\E s \in sentIds : s.ver = dir[n].ver)
                            => dir[n].ver \in kept \/ (pc = "erase" /\ cur.name = n)

LEMMA NextSentAndGone == TypeInv /\ SentAndGone /\ [CarouselNext]_carouselVars => SentAndGone'
<1> SUFFICES ASSUME TypeInv, SentAndGone, [CarouselNext]_carouselVars, erase_after_tx'
             PROVE  SentAndGone'
    BY DEF SentAndGone
<1>1. erase_after_tx' = erase_after_tx
    BY DEF CarouselNext, Program, WriteFile, RemoveFile, RequestReread, LoseDirectory, TransmissionEnds, Call,
           ScanDir, StatFile, SortSlides, GetSlide, EncodeOK, EncodeFails, EraseFile, programVars, carouselVars
<1>2. /\ twice \subseteq kept
      /\ \A s \in sentIds : s.ver <= writes
      /\ \A n \in Names : dir[n].ver <= writes
      /\ \A m, n \in Names : dir[m] # Absent /\ dir[m].ver = dir[n].ver => m = n
      /\ \A n \in Names : accessible /\ dir[n] # Absent /\ (\E s \in sentIds : s.ver = dir[n].ver)
                          => dir[n].ver \in kept \/ (pc = "erase" /\ cur.name = n)
    BY <1>1 DEF SentAndGone
<1>3. /\ writes \in Nat /\ dir \in [Names -> Files] /\ accessible \in BOOLEAN
      /\ \A n \in Names : dir[n].ver \in Nat
      /\ \A s \in sentIds : s.ver \in Nat
    <2>1. \A f \in Files : f.ver \in Nat
        BY DEF Files, Absent
    <2>2. writes \in Nat /\ dir \in [Names -> Files] /\ accessible \in BOOLEAN
          /\ sentIds \subseteq [name : Names, ver : 1 .. MaxWrites, fidx : Ids]
        BY DEF TypeInv, CarouselTypeOK
    <2> QED
        BY <2>1, <2>2
<1>4. CASE \/ UNCHANGED carouselVars \/ RequestReread \/ TransmissionEnds \/ Call \/ ScanDir \/ StatFile
           \/ SortSlides \/ GetSlide \/ EncodeFails
    <2>1. /\ UNCHANGED <<dir, accessible, writes, sentIds, twice, kept>>
          /\ pc = "erase" => pc' = "erase" /\ cur' = cur
        BY <1>4 DEF RequestReread, TransmissionEnds, Call, ScanDir, StatFile, SortSlides, GetSlide,
                    EncodeFails, carouselVars, dirVars, logVars, programVars
    <2> QED
        BY <1>2, <2>1 DEF SentAndGone
<1>5. CASE LoseDirectory
    BY <1>2, <1>5 DEF LoseDirectory, SentAndGone, programVars, logVars
<1>6. ASSUME NEW n \in Names, NEW good \in BOOLEAN, WriteFile(n, good) PROVE SentAndGone'
    <2>1. /\ UNCHANGED <<accessible, sentIds, twice, kept, pc, cur>>
          /\ writes' = writes + 1
          /\ dir' = [dir EXCEPT ![n] = [ver |-> writes + 1, good |-> good]]
        BY <1>6 DEF WriteFile, programVars, logVars
    <2>2. /\ dir'[n].ver = writes + 1
          /\ \A m \in Names \ {n} : dir'[m] = dir[m]
        BY <1>3, <2>1
    <2>3. \A s \in sentIds : s.ver # writes + 1
        BY <1>2, <1>3
    <2>4. \A m \in Names : dir[m].ver # writes + 1
        BY <1>2, <1>3
    <2>5. \A m \in Names : dir'[m].ver <= writes'
        BY <1>2, <1>3, <2>1, <2>2
    <2>6. \A s \in sentIds' : s.ver <= writes'
        BY <1>2, <1>3, <2>1
    <2>7. \A l, m \in Names : dir'[l] # Absent /\ dir'[l].ver = dir'[m].ver => l = m
        BY <1>2, <2>2, <2>4
    <2>8. \A m \in Names : accessible' /\ dir'[m] # Absent /\ (\E s \in sentIds' : s.ver = dir'[m].ver)
                              => dir'[m].ver \in kept' \/ (pc' = "erase" /\ cur'.name = m)
        BY <1>2, <2>1, <2>2, <2>3
    <2> QED
        BY <1>2, <2>1, <2>5, <2>6, <2>7, <2>8 DEF SentAndGone
<1>7. ASSUME NEW n \in Names, dir' = [dir EXCEPT ![n] = Absent],
             UNCHANGED <<accessible, writes, sentIds, twice, kept>>,
             \A m \in Names \ {n} : pc = "erase" /\ cur.name = m => pc' = "erase" /\ cur'.name = m
      PROVE  SentAndGone'
    <2>1. /\ dir'[n] = Absent /\ dir'[n].ver = 0
          /\ \A m \in Names \ {n} : dir'[m] = dir[m]
        BY <1>3, <1>7 DEF Absent
    <2>2. \A m \in Names : dir'[m].ver <= writes'
        BY <1>2, <1>3, <1>7, <2>1
    <2>3. \A m \in Names : dir[m] # Absent => dir[m].ver # 0
        BY <1>3 DEF Files
    <2>4. \A l, m \in Names : dir'[l] # Absent /\ dir'[l].ver = dir'[m].ver => l = m
        BY <1>2, <2>1, <2>3
    <2>5. \A m \in Names : accessible' /\ dir'[m] # Absent /\ (\E s \in sentIds' : s.ver = dir'[m].ver)
                              => dir'[m].ver \in kept' \/ (pc' = "erase" /\ cur'.name = m)
        BY <1>2, <1>7, <2>1
    <2> QED
        BY <1>2, <1>7, <2>2, <2>4, <2>5 DEF SentAndGone
<1>8. ASSUME NEW n \in Names, RemoveFile(n) PROVE SentAndGone'
    BY <1>7, <1>8 DEF RemoveFile, programVars, logVars
<1>9. CASE EncodeOK
    <2> DEFINE n == cur.name
               slide == [name |-> n, ver |-> dir[n].ver, fidx |-> cur.fidx]
    <2>1. /\ pc = "encode" /\ accessible /\ dir[n] # Absent /\ n \in Names
        BY <1>9 DEF EncodeOK, File, Absent, TypeInv
    <2>2. (\E s \in sentIds : s.ver = slide.ver) => slide.ver \in kept
        BY <1>2, <2>1
    <2>3. /\ UNCHANGED <<dir, accessible, writes, cur, kept>>
          /\ sentIds' = sentIds \cup {slide}
          /\ twice' \subseteq kept
          /\ pc' = "erase"
        BY <1>1, <1>2, <1>9, <2>2 DEF EncodeOK, dirVars
    <2>4. slide.ver = dir[n].ver
        OBVIOUS
    <2> HIDE DEF slide
    <2>5. \A s \in sentIds' : s.ver <= writes'
        BY <1>2, <2>1, <2>3, <2>4
    <2>6. \A m \in Names : accessible' /\ dir'[m] # Absent /\ (\E s \in sentIds' : s.ver = dir'[m].ver)
                              => dir'[m].ver \in kept' \/ (pc' = "erase" /\ cur'.name = m)
        BY <1>2, <2>1, <2>3, <2>4
    <2> QED
        BY <1>2, <2>3, <2>5, <2>6 DEF SentAndGone
<1>10. CASE EraseFile
    <2>1. /\ pc = "erase" /\ cur.name \in Names /\ UNCHANGED <<accessible, writes, sentIds, twice, cur>>
        BY <1>10 DEF EraseFile, TypeInv
    <2>2. CASE dir' = [dir EXCEPT ![cur.name] = Absent] /\ kept' = kept
        BY <1>7, <2>1, <2>2
    <2>3. CASE dir' = dir /\ kept' = kept \cup ({dir[cur.name].ver} \ {0})
        <3>1. \A n \in Names : dir[n] # Absent => dir[n].ver # 0
            BY <1>3 DEF Files
        <3>2. \A n \in Names : accessible' /\ dir'[n] # Absent /\ (\E s \in sentIds' : s.ver = dir'[n].ver)
                                  => dir'[n].ver \in kept'
            BY <1>2, <2>1, <2>3, <3>1
        <3> QED
            BY <1>2, <2>1, <2>3, <3>2 DEF SentAndGone
    <2> QED
        BY <1>10, <2>2, <2>3 DEF EraseFile
<1> QED
    BY <1>4, <1>5, <1>6, <1>8, <1>9, <1>10 DEF CarouselNext, Program

LEMMA InitSentAndGone == CarouselInit => SentAndGone
<1> SUFFICES ASSUME CarouselInit PROVE SentAndGone
    OBVIOUS
<1>1. \A n \in Names : dir[n] = Absent
    BY DEF CarouselInit
<1> QED
    BY <1>1 DEF CarouselInit, SentAndGone, Absent

\* "set the --erase flag to ensure a slide is only transmitted once" (README.md), whoever
\* writes or removes slides meanwhile: no version of a file is sent twice unless unlink
\* failed for it (EncodeSlide erases before it returns).
THEOREM SentOnce == CarouselSpec => []ErasedSentOnce
<1>1. SentAndGone => ErasedSentOnce
    BY DEF SentAndGone, ErasedSentOnce
<1> QED
    BY <1>1, InitSentAndGone, NextSentAndGone, CarouselInvariant, PTL DEF CarouselSpec

-----------------------------------------------------------------------------
(***************************************************************************)
(* The slides of a round have different ids.                               *)
(***************************************************************************)
\* The ids of a round do not come round to one remembered at its beginning; with the code's
\* constants this allows 9951 files.
FewFiles ==
    MAXHISTORYLEN + Cardinality({n \in Names : dir[n] # Absent}) <= MAXSLIDEID + 2

\* The id of slide i is one of those given lately; if it is remembered still, then for a
\* file of this name.
Recalled(i) ==
    \E a \in 1 .. MAXHISTORYLEN + Len(slides) - i :
       /\ slides[i].fidx = Ago(m_last_given_fidx, a)
       /\ a <= Len(m_database) =>
              m_database[Len(m_database) + 1 - a].fp.name = slides[i].name

RoundInv ==
    /\ RoundHasDistinctIds
    /\ pc = "stat" =>
           /\ MAXHISTORYLEN + Len(slides) + Len(todo) <= MAXSLIDEID + 2
           /\ \A i \in 1 .. Len(slides) : Recalled(i)
           /\ \A i \in 1 .. Len(slides), j \in 1 .. Len(todo) : slides[i].name # todo[j]
           /\ \A i, j \in 1 .. Len(todo) : i # j => todo[i] # todo[j]

\* Ids given less than a round ago are different, ...
LEMMA AgoDiffers ==
    ASSUME NEW next \in Ids, NEW a \in 1 .. MAXSLIDEID + 1, NEW b \in 1 .. MAXSLIDEID + 1, a # b
    PROVE  Ago(next, a) # Ago(next, b)
BY HistoryAssumption DEF Ago, Ids

\* ... and one more is given since when the next one is.
LEMMA AgoGrows ==
    ASSUME NEW next \in Ids, NEW a \in 1 .. MAXSLIDEID
    PROVE  LET after == IF next + 1 > MAXSLIDEID THEN 0 ELSE next + 1
           IN  Ago(after, a + 1) = Ago(next, a) /\ Ago(after, 1) = next
BY HistoryAssumption DEF Ago, Ids

\* A slide is given an id; those of the others are still recalled, and are different.
LEMMA StatRecalls ==
    ASSUME TypeInv, HistoryInv, RoundInv, StatFile
    PROVE  /\ \A i \in 1 .. Len(slides') : Recalled(i)'
           /\ \A i, j \in 1 .. Len(slides') : i # j => slides'[i].fidx # slides'[j].fidx
<1> DEFINE n == Head(todo)
           L == Len(slides)
           D == Len(m_database)
           next == m_last_given_fidx
           bound == MAXHISTORYLEN + L
<1>1. /\ n \in Names /\ L \in Nat /\ D \in Nat /\ D <= MAXHISTORYLEN /\ next \in Ids
      /\ slides \in SlideList
      /\ MAXHISTORYLEN \in Nat \ {0} /\ MAXSLIDEID \in Nat /\ MAXHISTORYLEN <= MAXSLIDEID
      /\ \A i \in 1 .. L : slides[i].name # n
      /\ bound <= MAXSLIDEID + 1
    <2>1. /\ pc = "stat" /\ todo # <<>> /\ todo \in Seq(Names)
          /\ slides \in SlideList /\ m_database \in Seq(Entries) /\ D <= MAXHISTORYLEN /\ next \in Ids
        BY DEF StatFile, TypeInv, CarouselTypeOK, HistoryTypeOK, SlideList
    <2>2. 1 \in 1 .. Len(todo) /\ n = todo[1] /\ n \in Names /\ Len(todo) \in Nat \ {0}
        BY <2>1
    <2>3. L \in Nat /\ D \in Nat
        BY <2>1 DEF SlideList
    <2>4. \A i \in 1 .. L : slides[i].name # n
        BY <2>1, <2>2 DEF RoundInv
    <2>5. bound <= MAXSLIDEID + 1
        BY <2>1, <2>2, <2>3, HistoryAssumption DEF RoundInv
    <2> QED
        BY <2>1, <2>2, <2>3, <2>4, <2>5, HistoryAssumption
<1>2. PICK fp \in FingerprintsOf(n) :
           slides' = Append(slides, [name |-> n, fidx |-> Fidx(fp)]) /\ get_fidx(fp)
    BY DEF StatFile
<1>3. fp.name = n /\ fp \in Fingerprints
    <2>1. fp \in [name : {n}, ver : Versions]
        BY <1>1, <1>2, FingerprintsOK DEF TypeInv
    <2> QED
        BY <1>1, <2>1, CarouselAssumption
<1>4. /\ Len(slides') = L + 1
      /\ slides'[L + 1] = [name |-> n, fidx |-> Fidx(fp)]
      /\ \A i \in 1 .. L : slides'[i] = slides[i]
    <2>1. Fidx(fp) \in Ids
        BY FidxOK DEF TypeInv, CarouselTypeOK
    <2>2. [name |-> n, fidx |-> Fidx(fp)] \in [name : Names, fidx : Ids]
        BY <1>1, <2>1
    <2> QED
        BY <1>1, <1>2, <2>2, AppendProperties DEF SlideList
<1> HIDE DEF n
\* the ages of the ids, before
<1>5. \A i \in 1 .. L : \E a \in 1 .. bound - i :
          /\ slides[i].fidx = Ago(next, a)
          /\ a <= D => m_database[D + 1 - a].fp.name = slides[i].name
    <2> SUFFICES ASSUME NEW i \in 1 .. L
                 PROVE  \E a \in 1 .. bound - i :
                          /\ slides[i].fidx = Ago(next, a)
                          /\ a <= D => m_database[D + 1 - a].fp.name = slides[i].name
        OBVIOUS
    <2>1. Recalled(i)
        BY DEF RoundInv, StatFile
    <2>2. PICK a \in 1 .. MAXHISTORYLEN + Len(slides) - i :
             /\ slides[i].fidx = Ago(m_last_given_fidx, a)
             /\ a <= Len(m_database) => m_database[Len(m_database) + 1 - a].fp.name = slides[i].name
        BY ONLY <2>1 DEF Recalled
    <2>3. MAXHISTORYLEN + Len(slides) - i = bound - i
        BY <1>1
    <2>4. a \in 1 .. bound - i
        BY ONLY <2>2, <2>3
    <2> QED
        BY <2>2, <2>4, Zenon
<1> DEFINE D2 == Len(m_database')
           next2 == m_last_given_fidx'
\* the age of the new one, and those of the others, after
<1>6. \E b \in 1 .. MAXHISTORYLEN :
         /\ Fidx(fp) = Ago(next2, b)
         /\ b <= D2 => m_database'[D2 + 1 - b].fp.name = n
         /\ \A i \in 1 .. L : \E a \in 1 .. bound + 1 - i :
               /\ a # b
               /\ slides[i].fidx = Ago(next2, a)
               /\ a <= D2 => m_database'[D2 + 1 - a].fp.name = slides[i].name
  <2>1. CASE Known(fp)
    <3>1. m_database' = m_database /\ next2 = next
        BY <1>2, <2>1 DEF get_fidx, historyVars
    <3>2. PICK j \in 1 .. D : m_database[j].fp = fp
        BY <2>1 DEF Known
    <3>3. Fidx(fp) = m_database[j].fidx
        BY <3>2, FidxOfEntry DEF HistoryInv
    <3> DEFINE b == D + 1 - j
    <3>4. b \in 1 .. D /\ b \in 1 .. MAXHISTORYLEN /\ D + 1 - b = j
        BY <1>1, <3>2
    <3>5. Fidx(fp) = Ago(next, b)
        BY <3>2, <3>3 DEF HistoryInv, LastIds
    <3>6. m_database[D + 1 - b].fp.name = n
        BY <1>3, <3>2, <3>4
    <3> HIDE DEF b
    <3>7. ASSUME NEW i \in 1 .. L
          PROVE  \E a \in 1 .. bound + 1 - i :
                    /\ a # b
                    /\ slides[i].fidx = Ago(next, a)
                    /\ a <= D => m_database[D + 1 - a].fp.name = slides[i].name
      <4>1. PICK a \in 1 .. bound - i :
                    /\ slides[i].fidx = Ago(next, a)
                    /\ a <= D => m_database[D + 1 - a].fp.name = slides[i].name
          BY <1>5
      <4>2. a # b
          BY <1>1, <3>4, <3>6, <4>1
      <4>3. a \in 1 .. bound + 1 - i
          BY <1>1, <4>1
      <4> QED
          BY <4>1, <4>2, <4>3
    <3> QED
        BY <3>1, <3>4, <3>5, <3>6, <3>7
  <2>2. CASE ~Known(fp)
    <3>1. next2 = IF next + 1 > MAXSLIDEID THEN 0 ELSE next + 1
        BY <1>2, <2>2 DEF get_fidx
    <3>2. PICK gone \in {0, 1} :
               /\ Len(m_database') = Len(m_database) + 1 - gone
               /\ \A i \in 1 .. Len(m_database') - 1 : m_database'[i] = m_database[i + gone]
               /\ Len(m_database') > 0
               /\ m_database'[Len(m_database')] = [fp |-> fp, fidx |-> m_last_given_fidx]
        BY <1>2, <1>3, <2>2, NewEntry DEF HistoryInv
    <3>3. Fidx(fp) = Ago(next2, 1)
        BY <1>1, <2>2, <3>1, AgoGrows DEF Fidx
    <3>4. D2 \in Nat /\ m_database'[D2 + 1 - 1].fp.name = n
        BY <1>1, <1>3, <3>2
    <3>5. ASSUME NEW i \in 1 .. L
          PROVE  \E a \in 1 .. bound + 1 - i :
                    /\ a # 1
                    /\ slides[i].fidx = Ago(next2, a)
                    /\ a <= D2 => m_database'[D2 + 1 - a].fp.name = slides[i].name
      <4>1. PICK a \in 1 .. bound - i :
                    /\ slides[i].fidx = Ago(next, a)
                    /\ a <= D => m_database[D + 1 - a].fp.name = slides[i].name
          BY <1>5
      <4>2. a \in Nat /\ a >= 1 /\ a <= MAXSLIDEID /\ a + 1 \in 1 .. bound + 1 - i
          BY <1>1, <4>1
      <4>3. slides[i].fidx = Ago(next2, a + 1)
          BY <1>1, <3>1, <4>1, <4>2, AgoGrows
      <4>4. ASSUME a + 1 <= D2 PROVE m_database'[D2 + 1 - (a + 1)].fp.name = slides[i].name
        <5>1. a <= D /\ D2 + 1 - (a + 1) = D2 - a /\ D2 - a \in 1 .. D2 - 1 /\ (D2 - a) + gone = D + 1 - a
            BY <1>1, <3>2, <3>4, <4>2, <4>4
        <5> QED
            BY <3>2, <4>1, <5>1
      <4>5. a + 1 # 1
          BY <4>2
      <4> QED
          BY <4>2, <4>3, <4>4, <4>5
    <3>6. 1 \in 1 .. MAXHISTORYLEN
        BY <1>1
    <3> QED
        BY <3>3, <3>4, <3>5, <3>6
  <2> QED
      BY <2>1, <2>2
<1>7. PICK b \in 1 .. MAXHISTORYLEN :
         /\ Fidx(fp) = Ago(next2, b)
         /\ b <= D2 => m_database'[D2 + 1 - b].fp.name = n
         /\ \A i \in 1 .. L : \E a \in 1 .. bound + 1 - i :
               /\ a # b
               /\ slides[i].fidx = Ago(next2, a)
               /\ a <= D2 => m_database'[D2 + 1 - a].fp.name = slides[i].name
    BY <1>6
<1>8. ASSUME NEW i \in 1 .. Len(slides') PROVE Recalled(i)'
  <2>1. MAXHISTORYLEN + Len(slides') - i = bound + 1 - i
      BY <1>1, <1>4
  <2>2. CASE i = L + 1
    <3>1. bound + 1 - i = MAXHISTORYLEN
        BY <1>1, <2>2
    <3> QED
        BY <1>4, <1>7, <2>1, <2>2, <3>1 DEF Recalled
  <2>3. CASE i # L + 1
    <3>1. i \in 1 .. L
        BY <1>1, <1>4, <2>3
    <3>2. PICK a \in 1 .. bound + 1 - i :
             /\ slides[i].fidx = Ago(next2, a)
             /\ a <= D2 => m_database'[D2 + 1 - a].fp.name = slides[i].name
        BY <1>7, <3>1
    <3> QED
        BY <1>4, <2>1, <3>1, <3>2 DEF Recalled
  <2> QED
      BY <2>2, <2>3
<1>9. \A i \in 1 .. L : slides[i].fidx # Fidx(fp)
  <2> SUFFICES ASSUME NEW i \in 1 .. L PROVE slides[i].fidx # Fidx(fp)
      OBVIOUS
  <2>1. PICK a \in 1 .. bound + 1 - i : a # b /\ slides[i].fidx = Ago(next2, a)
      BY <1>7
  <2>2. a \in 1 .. MAXSLIDEID + 1 /\ b \in 1 .. MAXSLIDEID + 1
      BY <1>1, <2>1
  <2>3. next2 \in Ids
    <3>1. HistoryInv'
        BY <1>2, <1>3, NextHistoryInv DEF HistoryNext
    <3> QED
        BY <3>1 DEF HistoryInv, HistoryTypeOK
  <2> QED
      BY <1>7, <2>1, <2>2, <2>3, AgoDiffers
<1>10. \A i, j \in 1 .. L : i # j => slides[i].fidx # slides[j].fidx
    BY DEF RoundInv, RoundHasDistinctIds
<1>11. \A i \in 1 .. Len(slides') : i = L + 1 \/ i \in 1 .. L
    BY <1>1, <1>4
<1> QED
    BY <1>4, <1>8, <1>9, <1>10, <1>11

\* The other steps of a round.
LEMMA SortRound ==
    ASSUME TypeInv, RoundInv, SortSlides
    PROVE  RoundInv'
<1> DEFINE S == 1 .. Len(slides)
<1>1. slides \in SlideList /\ slides' = sort(slides) /\ pc' # "stat"
    BY DEF SortSlides, TypeInv, CarouselTypeOK, SlideList
<1>2. /\ slides' \in SlideList /\ Len(slides') = Len(slides)
      /\ \A k, l \in S : k < l => slides'[k].fidx <= slides'[l].fidx
    BY <1>1, SortOK
<1>3. PICK p \in [S -> S] :
           /\ \A k \in S : slides'[k] = slides[p[k]]
           /\ \A k, l \in S : k # l => p[k] # p[l]
    BY <1>1, SortOK
<1>4. \A k, l \in S : k # l => slides'[k].fidx # slides'[l].fidx
    BY <1>3 DEF RoundInv, RoundHasDistinctIds
<1>5. \A k \in S : slides'[k].fidx \in Int
    <2> DEFINE R == [name : Names, fidx : Ids]
    <2>1. \A k \in S : slides'[k] \in R
      <3>1. slides' \in Seq(R) /\ Len(slides') = Len(slides)
          BY <1>2 DEF SlideList
      <3> HIDE DEF R
      <3> QED
          BY ONLY <3>1
    <2> QED
        BY <2>1, HistoryAssumption DEF Ids
<1>6. Len(slides) \in Nat
    BY <1>1 DEF SlideList
<1>7. \A k \in 1 .. Len(slides) - 1 : slides'[k].fidx < slides'[k + 1].fidx
    <2> SUFFICES ASSUME NEW k \in 1 .. Len(slides) - 1 PROVE slides'[k].fidx < slides'[k + 1].fidx
        OBVIOUS
    <2>1. k \in S /\ k + 1 \in S /\ k < k + 1
        BY <1>6
    <2> QED
        BY <1>2, <1>4, <1>5, <2>1
<1> QED
    BY <1>1, <1>2, <1>4, <1>7 DEF RoundInv, RoundHasDistinctIds

LEMMA GetRound ==
    ASSUME TypeInv, RoundInv, GetSlide
    PROVE  RoundInv'
<1>1. /\ slides \in SlideList /\ slides # <<>> /\ slides' = Tail(slides) /\ pc = "next" /\ pc' = "encode"
    BY DEF GetSlide, TypeInv, CarouselTypeOK, SlideList
<1>2. /\ Len(slides') = Len(slides) - 1 /\ Len(slides) \in Nat
      /\ \A k \in 1 .. Len(slides) - 1 : slides'[k] = slides[k + 1]
    <2> DEFINE R == [name : Names, fidx : Ids]
    <2>1. slides \in Seq(R) /\ slides # <<>> /\ slides' = Tail(slides)
        BY <1>1 DEF SlideList
    <2> HIDE DEF R
    <2> QED
        BY ONLY <2>1, SMT
<1> DEFINE L == Len(slides)
<1>3. /\ \A i, j \in 1 .. L : i # j => slides[i].fidx # slides[j].fidx
      /\ \A i \in 1 .. L - 1 : slides[i].fidx < slides[i + 1].fidx
    BY <1>1 DEF RoundInv, RoundHasDistinctIds
<1> HIDE DEF L
<1>4. \A k \in 1 .. L - 1 : k + 1 \in 1 .. L
    BY <1>2 DEF L
<1>5. \A k \in 1 .. L - 1 - 1 : k \in 1 .. L - 1 /\ k + 1 \in 1 .. L - 1
    BY <1>2 DEF L
<1>6. Len(slides') = L - 1 /\ \A k \in 1 .. L - 1 : slides'[k] = slides[k + 1]
    BY <1>2 DEF L
<1>7. \A i, j \in 1 .. L - 1 : i # j => slides'[i].fidx # slides'[j].fidx
    <2>1. \A i, j \in 1 .. L - 1 : i # j => i + 1 # j + 1
        BY <1>2
    <2> QED
        BY <1>3, <1>4, <1>6, <2>1
<1>8. \A i \in 1 .. L - 1 - 1 : slides'[i].fidx < slides'[i + 1].fidx
    BY <1>3, <1>5, <1>6
<1> QED
    BY <1>1, <1>6, <1>7, <1>8 DEF RoundInv, RoundHasDistinctIds

LEMMA ScanRound ==
    ASSUME TypeInv, RoundInv, FewFiles, ScanDir
    PROVE  RoundInv'
<1> DEFINE there == {n \in Names : dir[n] # Absent}
<1>1. slides = <<>> /\ slides' = <<>> /\ Len(slides') = 0
    BY DEF ScanDir
<1>2. RoundHasDistinctIds'
    BY <1>1 DEF RoundHasDistinctIds
<1>3. CASE pc' = "stat"
    <2>1. todo' = alphasort(there)
        BY <1>3 DEF ScanDir
    <2>2. there \subseteq Nat /\ IsFiniteSet(there)
        BY CarouselAssumption, FS_Subset
    <2> HIDE DEF there
    <2>3. /\ Len(todo') = Cardinality(there)
          /\ \A i, j \in 1 .. Len(todo') : i # j => todo'[i] # todo'[j]
      <3>1. /\ Len(alphasort(there)) = Cardinality(there)
            /\ \A i, j \in 1 .. Cardinality(there) :
                  i # j => alphasort(there)[i] # alphasort(there)[j]
          BY <2>2, AscendingOK, Zenon DEF alphasort
      <3>2. \A i, j \in 1 .. Cardinality(there) : i # j => todo'[i] # todo'[j]
          BY ONLY <2>1, <3>1, Zenon
      <3> QED
          BY ONLY <2>1, <3>1, <3>2, Zenon
    <2>4. Cardinality(there) \in Nat
        BY <2>2, FS_CardinalityType
    <2>5. MAXHISTORYLEN + Cardinality(there) <= MAXSLIDEID + 2
        BY DEF FewFiles, there
    <2>6. MAXHISTORYLEN + Len(slides') + Len(todo') <= MAXSLIDEID + 2
        BY <1>1, <2>3, <2>4, <2>5, HistoryAssumption
    <2> QED
        BY <1>1, <1>2, <2>3, <2>6 DEF RoundInv
<1>4. CASE pc' # "stat"
    BY <1>2, <1>4 DEF RoundInv
<1> QED
    BY <1>3, <1>4

LEMMA StatRound ==
    ASSUME TypeInv, HistoryInv, RoundInv, StatFile
    PROVE  RoundInv'
<1>1. /\ pc = "stat" /\ pc' = "stat" /\ todo # <<>> /\ todo' = Tail(todo) /\ todo \in Seq(Names)
      /\ slides \in SlideList
    BY DEF StatFile, TypeInv, CarouselTypeOK, SlideList
<1>2. PICK id : slides' = Append(slides, [name |-> Head(todo), fidx |-> id]) /\ id \in Ids
    BY FidxOK DEF StatFile, TypeInv, CarouselTypeOK
<1> DEFINE L == Len(slides)
           T == Len(todo)
<1>3. /\ T \in Nat \ {0} /\ Head(todo) = todo[1] /\ todo[1] \in Names
      /\ Len(todo') = T - 1 /\ \A j \in 1 .. T - 1 : todo'[j] = todo[j + 1]
    BY <1>1
<1>4. /\ L \in Nat /\ Len(slides') = L + 1
      /\ slides'[L + 1].name = todo[1]
      /\ \A i \in 1 .. L : slides'[i] = slides[i]
    <2>1. [name |-> Head(todo), fidx |-> id] \in [name : Names, fidx : Ids]
        BY <1>2, <1>3
    <2> QED
        BY <1>1, <1>2, <1>3, <2>1, AppendProperties DEF SlideList
<1>5. /\ MAXHISTORYLEN + L + T <= MAXSLIDEID + 2
      /\ \A i \in 1 .. L, j \in 1 .. T : slides[i].name # todo[j]
      /\ \A i, j \in 1 .. T : i # j => todo[i] # todo[j]
    BY <1>1 DEF RoundInv
<1>6. /\ \A i \in 1 .. Len(slides') : Recalled(i)'
      /\ \A i, j \in 1 .. Len(slides') : i # j => slides'[i].fidx # slides'[j].fidx
    BY StatRecalls
<1> HIDE DEF L, T
<1>7. MAXHISTORYLEN + Len(slides') + Len(todo') <= MAXSLIDEID + 2
    BY <1>3, <1>4, <1>5, HistoryAssumption
<1>8. \A j \in 1 .. T - 1 : j + 1 \in 1 .. T /\ j + 1 # 1 /\ 1 \in 1 .. T
    BY <1>3
<1>9. \A i \in 1 .. Len(slides'), j \in 1 .. Len(todo') : slides'[i].name # todo'[j]
    <2> SUFFICES ASSUME NEW i \in 1 .. Len(slides'), NEW j \in 1 .. Len(todo')
                 PROVE  slides'[i].name # todo'[j]
        OBVIOUS
    <2>1. j \in 1 .. T - 1 /\ todo'[j] = todo[j + 1]
        BY <1>3
    <2>2. i = L + 1 \/ i \in 1 .. L
        BY <1>4
    <2> QED
        BY <1>4, <1>5, <1>8, <2>1, <2>2
<1>10. \A i, j \in 1 .. Len(todo') : i # j => todo'[i] # todo'[j]
    <2> SUFFICES ASSUME NEW i \in 1 .. Len(todo'), NEW j \in 1 .. Len(todo'), i # j
                 PROVE  todo'[i] # todo'[j]
        OBVIOUS
    <2>1. i \in 1 .. T - 1 /\ j \in 1 .. T - 1 /\ i + 1 # j + 1
        BY <1>3
    <2> QED
        BY <1>3, <1>5, <1>8, <2>1
<1> QED
    BY <1>1, <1>6, <1>7, <1>9, <1>10 DEF RoundInv, RoundHasDistinctIds

LEMMA NextRoundInv ==
    TypeInv /\ HistoryInv /\ RoundInv /\ FewFiles /\ [CarouselNext]_carouselVars => RoundInv'
<1> SUFFICES ASSUME TypeInv, HistoryInv, RoundInv, FewFiles, [CarouselNext]_carouselVars
             PROVE  RoundInv'
    OBVIOUS
<1>1. CASE \/ UNCHANGED carouselVars \/ RequestReread \/ LoseDirectory
           \/ \E n \in Names, good \in BOOLEAN : WriteFile(n, good)
           \/ \E n \in Names : RemoveFile(n)
    <2>1. UNCHANGED <<pc, slides, todo, m_database, m_last_given_fidx>>
        BY <1>1 DEF RequestReread, LoseDirectory, WriteFile, RemoveFile, programVars, historyVars, carouselVars
    <2>2. \A i : Recalled(i)' <=> Recalled(i)
        BY <2>1 DEF Recalled
    <2> QED
        BY <2>1, <2>2 DEF RoundInv, RoundHasDistinctIds
<1>2. CASE TransmissionEnds \/ EncodeOK \/ EncodeFails \/ EraseFile
    <2>1. slides' = slides /\ pc # "stat" /\ pc' # "stat"
        BY <1>2 DEF TransmissionEnds, EncodeOK, EncodeFails, EraseFile
    <2> QED
        BY <2>1 DEF RoundInv, RoundHasDistinctIds
<1>3. CASE Call
    <2>1. pc # "stat" /\ pc' # "stat" /\ slides' \in {<<>>, slides}
        BY <1>3 DEF Call
    <2> QED
        BY <2>1 DEF RoundInv, RoundHasDistinctIds
<1> QED
    BY <1>1, <1>2, <1>3, SortRound, GetRound, ScanRound, StatRound DEF CarouselNext, Program

\* The slides of a round have different ids and are sent in the order of these, as long as
\* there are not so many files that the ids come round within a round
\* (SlideStore::InitFromDir).
THEOREM RoundIds == CarouselSpec /\ []FewFiles => []RoundHasDistinctIds
<1>1. CarouselInit => RoundInv
    BY DEF CarouselInit, RoundInv, RoundHasDistinctIds
<1>2. RoundInv => RoundHasDistinctIds
    BY DEF RoundInv
<1> QED
    BY <1>1, <1>2, NextRoundInv, CarouselInvariant, PTL DEF CarouselSpec

=============================================================================
