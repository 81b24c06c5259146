----------------------------- MODULE SlideCarousel -----------------------------
(***************************************************************************)
(* Which slides are sent, and under which id: PadEncoder::EncodeSlide      *)
(* (src/src/odr-padenc.cpp) with its SlideStore and History, while somebody *)
(* else writes, replaces and removes the files of the slides directory     *)
(* between any two of the program's system calls.                          *)
(*                                                                         *)
(* A file is its version, a number never used twice, and whether           *)
(* encodeSlide can make a slide of it; its fingerprint (name, size, mtime) *)
(* tells versions apart.  The packetizer is reduced to onair, the slide in *)
(* transmission.                                                           *)
(***************************************************************************)
EXTENDS History, Ascending

CONSTANTS Names,       \* file names, numbered in alphabetical order
          MaxWrites,   \* bound on the writes to files (model only)
          MaxRemoves,  \* bound on the removals by others (model only)
          MaxRereads,  \* bound on the re-read requests (model only)
          MayFail,     \* whether the directory may become inaccessible
          Erase        \* the values of the option --erase

Versions == 0 .. MaxWrites   \* 0 stands for what no file has
Absent   == [ver |-> 0, good |-> FALSE]
Files    == [ver : 1 .. MaxWrites, good : BOOLEAN] \cup {Absent}
Idle     == [name |-> 0, ver |-> 0, fidx |-> 0]

ASSUME CarouselAssumption ==
    /\ Names \subseteq Nat \ {0} /\ IsFiniteSet(Names)
    /\ MaxWrites \in Nat
    /\ Fingerprints = [name : Names, ver : Versions]
    /\ Erase \subseteq BOOLEAN

VARIABLES erase_after_tx,     \* the option, fixed
          dir,                \* the files of the slides directory
          accessible,         \* whether the directory can be read
          reread,             \* whether the re-read request file is there
          writes, removes, rereads,  \* how many of these have been
          pc, todo, cur,      \* where EncodeSlide is: names to stat, slide taken
          slides,             \* SlideStore: the slides still to be sent
          slides_success,
          onair,              \* the slide the packetizer's queue holds
          sentIds, twice, erased, kept  \* history: what was sent, what sent
                                  \* again, what was erased, what could not be

dirVars  == <<dir, accessible, reread, writes, removes, rereads>>
logVars  == <<onair, sentIds, twice, erased, kept>>
carouselVars == <<historyVars, erase_after_tx, dirVars, pc, todo, cur, slides,
                  slides_success, logVars>>

CarouselInit ==
    /\ HistoryInit
    /\ erase_after_tx \in Erase
    /\ dir = [n \in Names |-> Absent]
    /\ accessible = TRUE
    /\ reread = FALSE
    /\ writes = 0 /\ removes = 0 /\ rereads = 0
    /\ pc = "idle"
    /\ todo = <<>>
    /\ cur = [name |-> 0, fidx |-> 0]
    /\ slides = <<>>
    /\ slides_success = FALSE
    /\ onair = Idle
    /\ sentIds = {} /\ twice = {} /\ erased = {} /\ kept = {}

\* The names in alphabetical order.
alphasort(names) == Ascending(names)

\* What a system call finds under a name.
File(n) == IF accessible THEN dir[n] ELSE Absent

-----------------------------------------------------------------------------
(***************************************************************************)
(* The others: writers of slides, and the audio encoder fetching PADs.     *)
(***************************************************************************)
programVars == <<historyVars, erase_after_tx, pc, todo, cur, slides,
                 slides_success, logVars>>

WriteFile(n, good) ==
    /\ writes < MaxWrites
    /\ writes' = writes + 1
    /\ dir' = [dir EXCEPT ![n] = [ver |-> writes + 1, good |-> good]]
    /\ UNCHANGED <<accessible, reread, removes, rereads, programVars>>

RemoveFile(n) ==
    /\ removes < MaxRemoves
    /\ dir[n] # Absent
    /\ removes' = removes + 1
    /\ dir' = [dir EXCEPT ![n] = Absent]
    /\ UNCHANGED <<accessible, reread, writes, rereads, programVars>>

RequestReread ==
    /\ rereads < MaxRereads
    /\ rereads' = rereads + 1
    /\ reread' = TRUE
    /\ UNCHANGED <<dir, accessible, writes, removes, programVars>>

LoseDirectory ==
    /\ MayFail /\ accessible
    /\ accessible' = FALSE
    /\ UNCHANGED <<dir, reread, writes, removes, rereads, programVars>>

TransmissionEnds ==
    /\ pc = "idle"
    /\ onair # Idle
    /\ onair' = Idle
    /\ UNCHANGED <<historyVars, erase_after_tx, dirVars, pc, todo, cur, slides,
                   slides_success, sentIds, twice, erased, kept>>

-----------------------------------------------------------------------------
(***************************************************************************)
(* EncodeSlide, one action per system call.                                *)
(***************************************************************************)
\* A request that is seen is to be erased, which may fail; it counts all the same.
CheckRereadFile == reread' \in IF reread /\ accessible THEN BOOLEAN ELSE {reread}

\* Faulty: every call reads the directory anew.
CallRereads ==
    /\ pc = "idle"
    /\ onair = Idle
    /\ \/ /\ pc' = "next"
          /\ CheckRereadFile
          /\ slides' = <<>>
       \/ /\ ~accessible
          /\ pc' = "failed"
          /\ UNCHANGED <<reread, slides>>
    /\ UNCHANGED <<historyVars, erase_after_tx, dir, accessible, writes, removes,
                   rereads, todo, cur, slides_success, logVars>>

\* Called while no slide is in transmission: a re-read request empties the list;
\* a directory that cannot be searched ends the program.
Call ==
    /\ pc = "idle"
    /\ onair = Idle
    /\ \/ /\ pc' = "next"
          /\ CheckRereadFile
          /\ slides' = IF reread /\ accessible THEN <<>> ELSE slides
       \/ /\ ~accessible
          /\ pc' = "failed"
          /\ UNCHANGED <<reread, slides>>
    /\ UNCHANGED <<historyVars, erase_after_tx, dir, accessible, writes, removes,
                   rereads, todo, cur, slides_success, logVars>>

\* Faulty: does not forget that a slide of an earlier round could be encoded.
ScanDirKeepsSuccess ==
    /\ pc = "next"
    /\ slides = <<>>
    /\ IF accessible
       THEN /\ pc' = "stat"
            /\ todo' = alphasort({n \in Names : dir[n] # Absent})
       ELSE /\ pc' = "failed"
            /\ UNCHANGED todo
    /\ UNCHANGED <<historyVars, erase_after_tx, dirVars, cur, slides,
                   slides_success, logVars>>

\* scandir of SlideStore::InitFromDir, when no slides are left.
ScanDir ==
    /\ pc = "next"
    /\ slides = <<>>
    /\ IF accessible
       THEN /\ pc' = "stat"
            /\ todo' = alphasort({n \in Names : dir[n] # Absent})
            /\ slides_success' = FALSE
       ELSE /\ pc' = "failed"
            /\ UNCHANGED <<todo, slides_success>>
    /\ UNCHANGED <<historyVars, erase_after_tx, dirVars, cur, slides, logVars>>

\* The stat of load_from_file is not checked: for a file that is gone by now the
\* fingerprint has the size and time the stack happens to hold.
FingerprintsOf(n) ==
    IF File(n) # Absent THEN {[name |-> n, ver |-> File(n).ver]}
    ELSE [name : {n}, ver : Versions]

StatFile ==
    /\ pc = "stat"
    /\ todo # <<>>
    /\ \E fp \in FingerprintsOf(Head(todo)) :
          /\ slides' = Append(slides, [name |-> Head(todo), fidx |-> Fidx(fp)])
          /\ get_fidx(fp)
    /\ todo' = Tail(todo)
    /\ UNCHANGED <<erase_after_tx, dirVars, pc, cur, slides_success, logVars>>

\* Faulty: the wrong way round.
ByIdDescending(a, b) == a.fidx > b.fidx

ById(a, b) == a.fidx < b.fidx

\* Where slide i comes in the sorted list: behind those before it by id, and by place if
\* the ids are the same.
Rank(list, i) ==
    Cardinality({j \in 1 .. Len(list) :
                    ById(list[j], list[i]) \/ (j <= i /\ ~ById(list[i], list[j]))})

sort(list) ==
    [k \in 1 .. Len(list) |-> list[CHOOSE i \in 1 .. Len(list) : Rank(list, i) = k]]

\* slides.sort(), and the end of the call if the directory is empty.
SortSlides ==
    /\ pc = "stat"
    /\ todo = <<>>
    /\ slides' = sort(slides)
    /\ pc' = IF slides = <<>> THEN "idle" ELSE "next"
    /\ UNCHANGED <<historyVars, erase_after_tx, dirVars, todo, cur,
                   slides_success, logVars>>

GetSlide ==
    /\ pc = "next"
    /\ slides # <<>>
    /\ cur' = Head(slides)
    /\ slides' = Tail(slides)
    /\ pc' = "encode"
    /\ UNCHANGED <<historyVars, erase_after_tx, dirVars, todo, slides_success, logVars>>

\* encodeSlide reads the file as it is now, and queues it under the id it had
\* been given.
EncodeOK ==
    /\ pc = "encode"
    /\ File(cur.name).good
    /\ LET slide == [name |-> cur.name, ver |-> dir[cur.name].ver, fidx |-> cur.fidx]
       IN  /\ onair' = slide
           /\ sentIds' = sentIds \cup {slide}
           /\ twice' = IF \E s \in sentIds : s.ver = slide.ver
                       THEN twice \cup {slide.ver} ELSE twice
    /\ slides_success' = TRUE
    /\ pc' = IF erase_after_tx THEN "erase" ELSE "idle"
    /\ UNCHANGED <<historyVars, erase_after_tx, dirVars, todo, cur, slides, erased, kept>>

\* A slide that cannot be encoded is skipped, unless it was the last one and none
\* worked.
EncodeFails ==
    /\ pc = "encode"
    /\ ~File(cur.name).good
    /\ pc' = IF slides = <<>> /\ ~slides_success THEN "idle" ELSE "next"
    /\ UNCHANGED <<historyVars, erase_after_tx, dirVars, todo, cur, slides,
                   slides_success, logVars>>

\* Faulty: leaves the file where it is.
EraseFileNot ==
    /\ pc = "erase"
    /\ pc' = "idle"
    /\ UNCHANGED <<historyVars, erase_after_tx, dirVars, todo, cur, slides,
                   slides_success, logVars>>

\* unlink may fail, also because the file is gone; the slide is sent all the same.
EraseFile ==
    /\ pc = "erase"
    /\ \/ /\ File(cur.name) # Absent
          /\ dir' = [dir EXCEPT ![cur.name] = Absent]
          /\ erased' = erased \cup {dir[cur.name].ver}
          /\ UNCHANGED kept
       \/ /\ kept' = kept \cup ({dir[cur.name].ver} \ {0})
          /\ UNCHANGED <<dir, erased>>
    /\ pc' = "idle"
    /\ UNCHANGED <<historyVars, erase_after_tx, accessible, reread, writes, removes,
                   rereads, todo, cur, slides, slides_success, onair, sentIds, twice>>

-----------------------------------------------------------------------------
Program == \/ ScanDir \/ StatFile \/ SortSlides \/ GetSlide
           \/ EncodeOK \/ EncodeFails \/ EraseFile

CarouselNext ==
    \/ \E n \in Names, good \in BOOLEAN : WriteFile(n, good)
    \/ \E n \in Names : RemoveFile(n)
    \/ RequestReread
    \/ LoseDirectory
    \/ TransmissionEnds
    \/ Call
    \/ Program

\* PADs are fetched all the time, so a slide in transmission is finished and
\* EncodeSlide is called again (every slide interval); a call keeps running.
CarouselFairness ==
    /\ WF_carouselVars(TransmissionEnds)
    /\ WF_carouselVars(Call)
    /\ WF_carouselVars(Program)

CarouselSpec == CarouselInit /\ [][CarouselNext]_carouselVars /\ CarouselFairness

-----------------------------------------------------------------------------
(***************************************************************************)
(* Properties.                                                             *)
(***************************************************************************)
CarouselTypeOK ==
    /\ HistoryTypeOK
    /\ dir \in [Names -> Files]
    /\ pc \in {"idle", "next", "stat", "encode", "erase", "failed"}
    /\ todo \in Seq(Names)
    /\ cur \in [name : Names \cup {0}, fidx : Ids]
    /\ slides \in Seq([name : Names, fidx : Ids])
    /\ onair \in [name : Names \cup {0}, ver : Versions, fidx : Ids]
    /\ sentIds \subseteq [name : Names, ver : 1 .. MaxWrites, fidx : Ids]
    /\ kept \subseteq 1 .. MaxWrites

\* The slides of one round have different ids and are sent in the order of these,
\* even if they are more than the history remembers, the ids roll over, or files
\* vanish before they are looked at.
RoundHasDistinctIds ==
    /\ \A i, j \in 1 .. Len(slides) : i # j => slides[i].fidx # slides[j].fidx
    /\ pc # "stat" => \A i \in 1 .. Len(slides) - 1 : slides[i].fidx < slides[i + 1].fidx

\* "set the --erase flag to ensure a slide is only transmitted once": a slide is sent
\* again only if it could not be erased.
ErasedSentOnce == erase_after_tx => twice \subseteq kept

\* A call of EncodeSlide returns, whatever cannot be encoded: the loop over the
\* slides and the re-reading of the directory end.
EncodeSlideReturns == pc = "next" ~> pc \in {"idle", "failed"}

\* A good file that stays in the directory is sent again and again: neither
\* files that fail nor re-reading make the program lose sight of it, provided that
\* the re-read requests can be erased.
SentForever ==
    \A n \in Names :
        <>[](pc # "failed" /\ dir[n].good /\ ~reread)
            => []<>(onair.name = n /\ onair.ver = dir[n].ver)

\* "We keep track of transmitted files so that we can retransmit identical slides
\* with the same index": the same version of a file always has the same id (for a
\* history that never forgets).
RetransmittedWithSameId ==
    \A s, t \in sentIds : s.ver = t.ver => s.fidx = t.fidx

\* "Erase slides from DIRNAME once they have been encoded": what is erased had
\* been encoded.
OnlyEncodedErased == \A v \in erased : \E s \in sentIds : s.ver = v
=============================================================================
