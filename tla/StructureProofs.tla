--------------------------- MODULE StructureProofs ---------------------------
(***************************************************************************)
(* Theorems about Structure for files of any size, with any bookmarks,      *)
(* headers and pages that fail.                                             *)
(***************************************************************************)
EXTENDS Structure, SequenceLemmas

(* A set of natural numbers that is not empty has a least element, and Min  *)
(* is one.                                                                  *)
LEMMA MinIsLeast ==
  ASSUME NEW S, S \subseteq Nat, S # {}
  PROVE  Min(S) \in S /\ \A y \in S : Min(S) <= y
<1> DEFINE R == {ss \in Nat \X Nat : ss[1] < ss[2]}
<1>w. IsWellFoundedOn(R, Nat)
  BY NatLessThanWellFounded DEF OpToRel
<1>r. \A x, y \in Nat : <<y, x>> \in R <=> y < x
  OBVIOUS
<1> HIDE DEF R
<1>1. PICK x \in S : \A y \in S : <<y, x>> \notin R
  BY <1>w, WFMin
<1>2. ASSUME NEW y \in S
      PROVE  x <= y
  <2>1. x \in Nat /\ y \in Nat
    OBVIOUS
  <2>2. ~(y < x)
    BY <1>1, <1>r, <2>1
  <2> QED
    BY <2>1, <2>2
<1> QED
  BY <1>2 DEF Min

(* There is a greatest element below a bound too.                           *)
LEMMA GreatestBelow ==
  ASSUME NEW S, S \subseteq Nat, NEW p \in Nat, NEW s \in S, s <= p
  PROVE  \E t \in S : t <= p /\ \A u \in S : u <= p => u <= t
<1> DEFINE D == {p - t : t \in {u \in S : u <= p}}
<1>1. D \subseteq Nat /\ p - s \in D
  OBVIOUS
<1>2. PICK d \in D : \A e \in D : d <= e
  BY <1>1, MinIsLeast
<1>3. PICK t \in S : t <= p /\ d = p - t
  OBVIOUS
<1>4. \A u \in S : u <= p => u <= t
  BY <1>2, <1>3
<1> QED
  BY <1>3, <1>4

(* Any anchors give sections that tile the pages from the first to the last *)
(* (_derive_page_ranges).                                                   *)
LEMMA PageRangesTile ==
  ASSUME NEW raw, NEW count \in Nat,
         \A i \in DOMAIN raw : raw[i].page \in Int
  PROVE  Tiles(PageRanges(raw, count), Bound(count))
<1> DEFINE last == Bound(count)
           starts == Starts(raw, last)
           ranges == PageRanges(raw, count)
<1>1. last \in Nat /\ 1 <= last
  BY DEF Bound
<1>2. \A s \in starts : s \in Nat /\ 1 <= s /\ s <= last
  BY <1>1 DEF Starts, Clamp
<1> HIDE DEF last, starts, ranges
(* Where a section ends: before every later start, and next to one or last. *)
<1>3. ASSUME NEW s \in starts
      PROVE  /\ PageEnd(starts, last, s) \in Nat
             /\ s <= PageEnd(starts, last, s)
             /\ PageEnd(starts, last, s) <= last
             /\ \A t \in starts : t > s => PageEnd(starts, last, s) < t
             /\ \/ PageEnd(starts, last, s) = last
                \/ PageEnd(starts, last, s) + 1 \in starts
  <2> DEFINE later == {t \in starts : t > s}
  <2>1. CASE later = {}
    BY <1>1, <1>2, <2>1 DEF PageEnd
  <2>2. CASE later # {}
    <3>1. later \subseteq Nat
      <4>1. \A t \in later : t \in starts
        OBVIOUS
      <4> QED
        BY <1>2, <4>1
    <3>2. Min(later) \in later /\ \A y \in later : Min(later) <= y
      BY <2>2, <3>1, MinIsLeast
    <3>3. PageEnd(starts, last, s) = Min(later) - 1
      BY <2>2 DEF PageEnd
    <3>4. \A t : t \in later <=> t \in starts /\ t > s
      OBVIOUS
    <3> HIDE DEF later
    <3> QED
      BY <1>1, <1>2, <3>2, <3>3, <3>4
  <2> QED
    BY <2>1, <2>2
<1>r. ranges = {} \/ ranges = {Section(raw, last, s) : s \in starts}
  BY DEF ranges, PageRanges, starts, last
<1>s. \A s : /\ Section(raw, last, s).start = s
            /\ Section(raw, last, s).end = PageEnd(starts, last, s)
  BY DEF Section, starts
<1>4. \A e \in ranges : /\ e.start \in starts
                        /\ e.end = PageEnd(starts, last, e.start)
                        /\ e = Section(raw, last, e.start)
  BY <1>r, <1>s
<1>5. ranges # {} => \A s \in starts : \E e \in ranges : e.start = s
  BY <1>r, <1>s
<1>6. ASSUME NEW e \in ranges
      PROVE  1 <= e.start /\ e.start <= e.end /\ e.end <= last
  <2>1. e.start \in starts /\ e.end = PageEnd(starts, last, e.start)
    BY <1>4
  <2> QED
    BY <1>2, <1>3, <2>1
<1>7. ASSUME NEW e \in ranges, NEW f \in ranges, e # f
      PROVE  Covered(e) \cap Covered(f) = {}
  <2>1. e.start # f.start
    BY <1>4, <1>7
  <2>2. e.start \in Nat /\ f.start \in Nat /\ e.end \in Int /\ f.end \in Int
    BY <1>1, <1>2, <1>3, <1>4
  <2>3. e.end < f.start \/ f.end < e.start
    BY <1>3, <1>4, <2>1, <2>2
  <2> QED
    BY <2>2, <2>3 DEF Covered
<1>8. ASSUME NEW e \in ranges, NEW p \in e.start .. last
      PROVE  \E f \in ranges : p \in Covered(f)
  <2>1. e.start \in starts /\ e.start \in Nat /\ p \in Nat /\ e.start <= p /\ p <= last
    BY <1>1, <1>2, <1>4
  <2>2. PICK s \in starts : s <= p /\ \A u \in starts : u <= p => u <= s
    BY <1>2, <2>1, GreatestBelow
  <2>3. PICK f \in ranges : f.start = s
    BY <1>5
  <2>4. p <= PageEnd(starts, last, s)
    BY <1>1, <1>2, <1>3, <2>1, <2>2
  <2>5. f.end = PageEnd(starts, last, s)
    BY <1>4, <2>3
  <2>6. PageEnd(starts, last, s) \in Int /\ s \in Int
    BY <1>1, <1>2, <1>3
  <2> QED
    BY <2>1, <2>2, <2>3, <2>4, <2>5, <2>6 DEF Covered
<1> QED
  BY <1>6, <1>7, <1>8 DEF Tiles, ranges, last

-----------------------------------------------------------------------------
(* The pages parsed are numbers and do not change once there are sections,  *)
(* which are only looked for when the parser is done.                       *)
ExtractInv ==
  /\ \A i \in DOMAIN pdf.bookmarks : pdf.bookmarks[i].page \in Int
  /\ at \in Nat
  /\ parsed \in Seq(Nat)
  /\ stage = "parse" => entries = {}
  /\ Tiles(entries, Bound(PageCount))

LEMMA ExtractInvInit == Init => ExtractInv
<1> SUFFICES ASSUME Init
             PROVE  ExtractInv
  OBVIOUS
<1>1. \A i \in DOMAIN pdf.bookmarks : pdf.bookmarks[i].page \in Int
  <2>1. PICK m \in 0 .. MaxBookmarks : pdf.bookmarks \in [1 .. m -> Anchors]
    BY DEF Init, Files, BoundedSeq, SeqOf
  <2>2. 0 .. MaxPages + 1 \subseteq Int
    BY StructureAssumption
  <2> QED
    BY <2>1, <2>2 DEF Anchors
<1> QED
  BY <1>1 DEF Init, ExtractInv, Tiles

LEMMA ExtractInvNext == ExtractInv /\ [Next]_vars => ExtractInv'
<1> SUFFICES ASSUME ExtractInv, [Next]_vars
             PROVE  ExtractInv'
  OBVIOUS
<1> USE DEF ExtractInv
<1>c. PageCount \in Nat
  BY DEF PageCount
<1>1. CASE ParsePage
  BY <1>1 DEF ParsePage, Tiles, Covered, PageCount
<1>2. CASE SkipPage
  BY <1>2 DEF SkipPage, Tiles, Covered, PageCount
<1>3. CASE Unparsable
  BY <1>3 DEF Unparsable, Tiles, Covered, PageCount
(* Whatever is extracted, the pages counted stay as they are.               *)
<1>e. ASSUME NEW found, NEW how, Extracted(found, how),
             Tiles(found, Bound(PageCount)), how \in {"A", "B", "C"}
      PROVE  ExtractInv'
  <2>1. PageCount' = PageCount /\ entries' = found /\ stage' # "parse"
    BY <1>e DEF Extracted, PageCount
  <2>2. Tiles(entries, Bound(PageCount))'
    BY <1>e, <2>1 DEF Tiles, Covered, Bound
  <2> QED
    BY <1>e, <2>1, <2>2 DEF Extracted
<1>4. CASE ExtractNative
  <2>1. Tiles(Native, Bound(PageCount))
    BY <1>c, PageRangesTile DEF Native
  <2> QED
    BY <1>4, <1>e, <2>1 DEF ExtractNative
<1>5. CASE DetectHeaders
  <2>1. \A i \in DOMAIN Headers : Headers[i].page \in Int
    BY DEF Headers
  <2>2. Tiles(Heuristic, Bound(PageCount))
    BY <1>c, <2>1, PageRangesTile DEF Heuristic
  <2> QED
    BY <1>5, <1>e, <2>2 DEF DetectHeaders
<1>6. CASE Refine
  <2>1. PICK refined \in Refinements :
          Extracted(PageRanges(refined, PageCount),
                    IF PageRanges(refined, PageCount) = {} THEN "C" ELSE "B")
    BY <1>6 DEF Refine
  <2>2. \A i \in DOMAIN refined : refined[i].page \in Int
    <3>1. PICK m \in 0 .. MaxRefined : refined \in [1 .. m -> Anchors]
      BY DEF Refinements, BoundedSeq, SeqOf
    <3>2. 0 .. MaxPages + 1 \subseteq Int
      BY StructureAssumption
    <3> QED
      BY <3>1, <3>2 DEF Anchors
  <2>3. Tiles(PageRanges(refined, PageCount), Bound(PageCount))
    BY <1>c, <2>2, PageRangesTile
  <2> QED
    BY <1>e, <2>1, <2>3
<1>7. CASE NoStructure
  <2>1. Tiles({}, Bound(PageCount))
    BY DEF Tiles
  <2> QED
    BY <1>7, <1>e, <2>1 DEF NoStructure
<1>8. CASE ChunkDocument
  BY <1>8 DEF ChunkDocument, Tiles, Covered, PageCount
<1>9. CASE UNCHANGED vars
  BY <1>9 DEF vars, Tiles, Covered, PageCount
<1> QED
  BY <1>1, <1>2, <1>3, <1>4, <1>5, <1>6, <1>7, <1>8, <1>9 DEF Next

(* Sections never overlap, leave no gap and stay within the pages counted,  *)
(* for any file, whichever of its pages fail and whatever a refiner does    *)
(* (_derive_page_ranges, extract_toc).                                      *)
THEOREM SectionsTile == Spec => []RangesTile
<1>1. Init => ExtractInv
  BY ExtractInvInit
<1>2. ExtractInv /\ [Next]_vars => ExtractInv'
  BY ExtractInvNext
<1>3. ExtractInv => RangesTile
  BY DEF ExtractInv, RangesTile
<1> QED
  BY <1>1, <1>2, <1>3, PTL DEF Spec
-----------------------------------------------------------------------------
(* Sections have titles of the anchors they start at, and pages of the file.*)
LEMMA PageRangesType ==
  ASSUME NEW raw, DOMAIN raw \subseteq Nat,
         NEW count \in Nat, count <= MaxPages,
         \A i \in DOMAIN raw : raw[i].page \in Int /\ raw[i].title \in Titles
  PROVE  PageRanges(raw, count) \subseteq Entries
<1> DEFINE last == Bound(count)
           starts == Starts(raw, last)
<1>1. last \in 1 .. MaxPages
  BY StructureAssumption DEF Bound
<1>2. ASSUME NEW e \in PageRanges(raw, count)
      PROVE  e \in Entries
  <2>1. PICK s \in starts : e = Section(raw, last, s)
    BY DEF PageRanges
  <2>2. AnchorsAt(raw, last, s) # {} /\ AnchorsAt(raw, last, s) \subseteq DOMAIN raw
    BY DEF Starts, AnchorsAt
  <2>3. Min(AnchorsAt(raw, last, s)) \in DOMAIN raw
    BY <2>2, MinIsLeast
  <2>4. Tiles(PageRanges(raw, count), last)
    BY PageRangesTile
  <2>5. 1 <= e.start /\ e.start <= e.end /\ e.end <= last
    BY <2>4 DEF Tiles
  <2>6. e.start \in Int /\ e.end \in Int
    <3>1. s \in 1 .. last
      BY <1>1 DEF Starts, Clamp
    <3>2. ASSUME NEW t \in {u \in starts : u > s}
          PROVE  t \in Nat
      BY <1>1 DEF Starts, Clamp
    <3>3. CASE {u \in starts : u > s} = {}
      BY <1>1, <2>1, <3>1, <3>3 DEF Section, PageEnd
    <3>4. CASE {u \in starts : u > s} # {}
      <4>1. Min({u \in starts : u > s}) \in {u \in starts : u > s}
        BY <3>2, <3>4, MinIsLeast
      <4>2. Min({u \in starts : u > s}) \in Nat
        BY <3>2, <4>1
      <4> QED
        BY <2>1, <3>1, <3>4, <4>2 DEF Section, PageEnd
    <3> QED
      BY <3>3, <3>4
  <2>7. e.start \in 1 .. MaxPages /\ e.end \in 1 .. MaxPages
    BY <1>1, <2>5, <2>6, StructureAssumption
  <2>8. e = [title |-> raw[Min(AnchorsAt(raw, last, s))].title,
             start |-> e.start, end |-> e.end]
    BY <2>1 DEF Section
  <2> QED
    BY <2>3, <2>7, <2>8 DEF Entries
<1> QED
  BY <1>2
(* What the type of a file says of its pages and bookmarks.                 *)
LEMMA FileFacts ==
  ASSUME NEW f \in Files
  PROVE  /\ Len(f.pages) \in 1 .. MaxPages
         /\ f.pages \in [1 .. Len(f.pages) -> PageSet]
         /\ DOMAIN f.bookmarks \subseteq Nat
         /\ \A i \in DOMAIN f.bookmarks : /\ f.bookmarks[i].page \in Int
                                         /\ f.bookmarks[i].title \in Titles
<1>1. PICK n \in 0 .. MaxPages : f.pages \in [1 .. n -> PageSet]
  BY DEF Files, BoundedSeq, SeqOf
<1>2. Len(f.pages) = n
  BY <1>1, StructureAssumption
<1>3. n # 0
  BY <1>1 DEF Files
<1>4. n \in 1 .. MaxPages
  BY <1>3, StructureAssumption
<1>5. f.bookmarks \in BoundedSeq(Anchors, MaxBookmarks)
  BY DEF Files
<1>6. PICK m \in 0 .. MaxBookmarks : f.bookmarks \in [1 .. m -> Anchors]
  BY <1>5 DEF BoundedSeq, SeqOf
<1>7. \A i \in DOMAIN f.bookmarks : f.bookmarks[i] \in Anchors
  BY <1>6
<1>8. DOMAIN f.bookmarks \subseteq Nat
  BY <1>6
<1>9. \A a \in Anchors : a.page \in Int /\ a.title \in Titles
  BY StructureAssumption DEF Anchors
<1> QED
  BY <1>1, <1>2, <1>4, <1>7, <1>8, <1>9

LEMMA TypeOKInit == Init => TypeOK
<1> SUFFICES ASSUME Init
             PROVE  TypeOK
  OBVIOUS
<1>1. pdf \in Files
  BY DEF Init
<1>2. Len(pdf.pages) \in 1 .. MaxPages
  BY <1>1, FileFacts
<1>3. 1 \in 1 .. Len(pdf.pages) + 1
  BY <1>2, StructureAssumption
<1> QED
  BY <1>1, <1>3 DEF Init, TypeOK

LEMMA TypeOKNext == TypeOK /\ ExtractInv /\ [Next]_vars => TypeOK'
<1> SUFFICES ASSUME TypeOK, ExtractInv, [Next]_vars
             PROVE  TypeOK'
  OBVIOUS
<1> USE DEF TypeOK
<1>f. /\ Len(pdf.pages) \in 1 .. MaxPages
      /\ pdf.pages \in [1 .. Len(pdf.pages) -> PageSet]
      /\ DOMAIN pdf.bookmarks \subseteq Nat
      /\ \A i \in DOMAIN pdf.bookmarks : /\ pdf.bookmarks[i].page \in Int
                                        /\ pdf.bookmarks[i].title \in Titles
  BY FileFacts
<1>p. PageCount \in Nat /\ PageCount <= MaxPages
  BY <1>f, StructureAssumption DEF PageCount
<1>1. CASE ParsePage
  <2>1. at' = at + 1 /\ at' \in 1 .. Len(pdf.pages) + 1
    BY <1>1, <1>f, StructureAssumption DEF ParsePage
  <2>2. parsed' = Append(parsed, at) /\ parsed \in Seq(1 .. at - 1)
        /\ Len(parsed) < at
    BY <1>1 DEF ParsePage
  <2>3. parsed \in Seq(1 .. at' - 1) /\ at \in 1 .. at' - 1
    BY <2>1, <2>2
  <2>4. parsed' \in Seq(1 .. at' - 1) /\ Len(parsed') = Len(parsed) + 1
    BY <2>2, <2>3
  <2>5. \A i, j \in DOMAIN parsed' : i < j => parsed'[i] < parsed'[j]
    BY <2>2
  <2> QED
    BY <1>1, <2>1, <2>2, <2>4, <2>5 DEF ParsePage
<1>2. CASE SkipPage
  <2>1. at' = at + 1 /\ at' \in 1 .. Len(pdf.pages) + 1
    BY <1>2, <1>f, StructureAssumption DEF SkipPage
  <2>2. parsed \in Seq(1 .. at' - 1)
    BY <2>1
  <2> QED
    BY <1>2, <2>1, <2>2 DEF SkipPage
<1>3. CASE Unparsable
  BY <1>3 DEF Unparsable
<1>e. ASSUME NEW found, NEW how, Extracted(found, how),
             found \subseteq Entries, how \in {"A", "B", "C"},
             found = {} <=> how = "C"
      PROVE  TypeOK'
  BY <1>e DEF Extracted
<1>4. CASE ExtractNative
  <2>1. Native \subseteq Entries
    BY <1>f, <1>p, PageRangesType DEF Native
  <2> QED
    BY <1>4, <1>e, <2>1 DEF ExtractNative
<1>5. CASE DetectHeaders
  <2>1. ASSUME NEW i \in DOMAIN Headers
        PROVE  Headers[i].page \in Int /\ Headers[i].title \in Titles
    <3>1. i \in DOMAIN parsed /\ pdf.pages[parsed[i]].header # NoTitle
          /\ Headers[i] = [title |-> pdf.pages[parsed[i]].header,
                           page |-> parsed[i]]
      BY DEF Headers
    <3>2. parsed[i] \in 1 .. Len(pdf.pages)
      BY <1>f, <3>1
    <3>3. pdf.pages[parsed[i]] \in PageSet
      BY <1>f, <3>2
    <3>4. pdf.pages[parsed[i]].header \in Titles \cup {NoTitle}
      BY <3>3 DEF PageSet
    <3> QED
      BY <3>1, <3>2, <3>4
  <2>2. DOMAIN Headers \subseteq Nat
    BY DEF Headers
  <2>3. Heuristic \subseteq Entries
    BY <1>p, <2>1, <2>2, PageRangesType DEF Heuristic
  <2> QED
    BY <1>5, <1>e, <2>3 DEF DetectHeaders
<1>6. CASE Refine
  <2>1. PICK refined \in Refinements :
          Extracted(PageRanges(refined, PageCount),
                    IF PageRanges(refined, PageCount) = {} THEN "C" ELSE "B")
    BY <1>6 DEF Refine
  <2>2. PICK m \in 0 .. MaxRefined : refined \in [1 .. m -> Anchors]
    BY DEF Refinements, BoundedSeq, SeqOf
  <2>3. \A i \in DOMAIN refined : refined[i] \in Anchors
    BY <2>2
  <2>4. \A a \in Anchors : a.page \in Int /\ a.title \in Titles
    BY StructureAssumption DEF Anchors
  <2>5. DOMAIN refined \subseteq Nat
    BY <2>2
  <2>6. PageRanges(refined, PageCount) \subseteq Entries
    BY <1>p, <2>3, <2>4, <2>5, PageRangesType
  <2> QED
    BY <1>e, <2>1, <2>6
<1>7. CASE NoStructure
  BY <1>7, <1>e DEF NoStructure
<1>8. CASE ChunkDocument
  BY <1>8 DEF ChunkDocument
<1>9. CASE UNCHANGED vars
  BY <1>9 DEF vars
<1> QED
  BY <1>1, <1>2, <1>3, <1>4, <1>5, <1>6, <1>7, <1>8, <1>9 DEF Next

(* Every variable keeps its type, and the pages parsed are pages of the     *)
(* file in order (PyMuPDFParser.parse, extract_toc).                        *)
THEOREM TypeCorrect == Spec => []TypeOK
<1>1. Init => TypeOK /\ ExtractInv
  BY TypeOKInit, ExtractInvInit
<1>2. TypeOK /\ ExtractInv /\ [Next]_vars => (TypeOK /\ ExtractInv)'
  BY TypeOKNext, ExtractInvNext
<1> QED
  BY <1>1, <1>2, PTL DEF Spec

-----------------------------------------------------------------------------
(* The bookmarks are heard.                                                 *)

(* The anchors that are the first on their page.                            *)
FirstOnPage(raw, last, i) ==
  \A j \in 1 .. i - 1 : Clamp(raw[j].page, last) # Clamp(raw[i].page, last)

FirstAt(raw, last, s) == Min(AnchorsAt(raw, last, s))

(* The first anchor on its page is the one its section has the title of.    *)
LEMMA FirstAnchor ==
  ASSUME NEW raw, NEW m \in Nat, DOMAIN raw = 1 .. m, NEW last, NEW i \in 1 .. m
  PROVE  FirstOnPage(raw, last, i)
           <=> FirstAt(raw, last, Clamp(raw[i].page, last)) = i
<1> DEFINE s == Clamp(raw[i].page, last)
           same == AnchorsAt(raw, last, s)
<1>1. /\ same \subseteq Nat /\ i \in same
      /\ \A j : j \in same <=> j \in 1 .. m /\ Clamp(raw[j].page, last) = s
  BY DEF AnchorsAt
<1>2. Min(same) \in same /\ \A j \in same : Min(same) <= j
  BY <1>1, MinIsLeast
<1> HIDE DEF s, same
<1>3. (\A j \in 1 .. i - 1 : Clamp(raw[j].page, last) # s) <=> Min(same) = i
  BY <1>1, <1>2
<1> QED
  BY <1>3 DEF s, same, FirstOnPage, FirstAt

StartsNamed(raw, last) ==
  {[title |-> raw[i].title, start |-> Clamp(raw[i].page, last)] :
     i \in {j \in DOMAIN raw : FirstOnPage(raw, last, j)}}

LEMMA SectionsAreNamed ==
  ASSUME NEW raw, NEW m \in Nat, DOMAIN raw = 1 .. m, NEW count,
         PageRanges(raw, count) # {}
  PROVE  StartsNamed(raw, Bound(count)) =
           {[title |-> e.title, start |-> e.start] : e \in PageRanges(raw, count)}
<1> DEFINE last == Bound(count)
           ranges == PageRanges(raw, count)
<1>1. ranges = {Section(raw, last, s) : s \in Starts(raw, last)}
  BY DEF PageRanges
<1> HIDE DEF last, ranges
<1>2. ASSUME NEW i \in DOMAIN raw, FirstOnPage(raw, last, i)
      PROVE  \E e \in ranges : e.title = raw[i].title
                              /\ e.start = Clamp(raw[i].page, last)
  <2> DEFINE s == Clamp(raw[i].page, last)
  <2>1. FirstAt(raw, last, s) = i
    BY <1>2, FirstAnchor
  <2>2. Section(raw, last, s) \in ranges
    BY <1>1 DEF Starts
  <2>3. /\ Section(raw, last, s).title = raw[FirstAt(raw, last, s)].title
        /\ Section(raw, last, s).start = s
    BY DEF Section, FirstAt
  <2> QED
    BY <2>1, <2>2, <2>3
<1>3. ASSUME NEW e \in ranges
      PROVE  \E i \in DOMAIN raw : /\ FirstOnPage(raw, last, i)
                                   /\ e.title = raw[i].title
                                   /\ e.start = Clamp(raw[i].page, last)
  <2>1. PICK s \in Starts(raw, last) : e = Section(raw, last, s)
    BY <1>1
  <2> DEFINE i == FirstAt(raw, last, s)
  <2>2. i \in AnchorsAt(raw, last, s)
    <3>1. AnchorsAt(raw, last, s) # {} /\ AnchorsAt(raw, last, s) \subseteq Nat
      BY DEF Starts, AnchorsAt
    <3> QED
      BY <3>1, MinIsLeast DEF FirstAt
  <2>3. i \in 1 .. m /\ Clamp(raw[i].page, last) = s
    BY <2>2 DEF AnchorsAt
  <2>4. e.title = raw[i].title /\ e.start = s
    BY <2>1 DEF Section, FirstAt
  <2>5. i = FirstAt(raw, last, s)
    OBVIOUS
  <2> HIDE DEF i
  <2>6. FirstOnPage(raw, last, i)
    BY <2>3, <2>5, FirstAnchor DEF FirstOnPage
  <2>7. i \in DOMAIN raw
    BY <2>3
  <2>8. e.start = Clamp(raw[i].page, last)
    BY <2>3, <2>4
  <2> QED
    BY <2>4, <2>6, <2>7, <2>8
<1>4. StartsNamed(raw, last) =
        {[title |-> e.title, start |-> e.start] : e \in ranges}
  BY <1>2, <1>3 DEF StartsNamed
<1> QED
  BY <1>4 DEF last, ranges

(* Anchors that give no section are all on one page.                        *)
LEMMA NoSectionsNoStarts ==
  ASSUME NEW raw, NEW m \in Nat, DOMAIN raw = 1 .. m, NEW count,
         PageRanges(raw, count) = {}
  PROVE  \A s, t \in StartsNamed(raw, Bound(count)) : s = t
<1> DEFINE last == Bound(count)
<1>1. \A s, t \in Starts(raw, last) : s = t
  BY DEF PageRanges, IsDegenerate
<1> HIDE DEF last
<1>2. ASSUME NEW i \in 1 .. m, NEW j \in 1 .. m,
             FirstOnPage(raw, last, i), FirstOnPage(raw, last, j)
      PROVE  i = j
  <2>1. Clamp(raw[i].page, last) = Clamp(raw[j].page, last)
    BY <1>1 DEF Starts
  <2> QED
    BY <1>2, <2>1 DEF FirstOnPage
<1> QED
  BY <1>2 DEF StartsNamed, last

(* How a table of contents was found stays true once it was.                *)
HeardInv ==
  /\ pdf \in Files
  /\ stage \in {"chunk", "done", "failed"} =>
       /\ scenario = "A" => Native # {} /\ entries = Native
       /\ scenario # "A" => Native = {}

LEMMA HeardStep == HeardInv /\ [Next]_vars => HeardInv'
<1> SUFFICES ASSUME HeardInv, [Next]_vars
             PROVE  HeardInv'
  OBVIOUS
<1>1. pdf' = pdf
  BY DEF Next, vars, ParsePage, SkipPage, Unparsable, ExtractNative,
         DetectHeaders, Refine, NoStructure, Extracted, ChunkDocument
<1>2. parsed' = parsed => Native' = Native
  BY <1>1 DEF Native, PageCount
<1>3. CASE ParsePage \/ SkipPage \/ Unparsable
  BY <1>1, <1>3 DEF HeardInv, ParsePage, SkipPage, Unparsable
<1>4. CASE ExtractNative
  BY <1>1, <1>2, <1>4 DEF HeardInv, ExtractNative, Extracted
<1>5. CASE DetectHeaders \/ NoStructure
  BY <1>1, <1>2, <1>5 DEF HeardInv, DetectHeaders, NoStructure, Extracted
<1>6. CASE Refine
  <2>1. parsed' = parsed /\ Native = {} /\ scenario' # "A"
    BY <1>6 DEF Refine, Extracted
  <2> QED
    BY <1>1, <1>2, <2>1 DEF HeardInv
<1>7. CASE ChunkDocument \/ UNCHANGED vars
  BY <1>1, <1>2, <1>7 DEF HeardInv, ChunkDocument, vars
<1> QED
  BY <1>3, <1>4, <1>5, <1>6, <1>7 DEF Next

LEMMA HeardTells == HeardInv => BookmarksHeard
<1> SUFFICES ASSUME HeardInv, stage \in {"chunk", "done", "failed"}
             PROVE  BookmarksHeard
  BY DEF BookmarksHeard
<1> DEFINE last == Bound(PageCount)
           sections == StartsNamed(pdf.bookmarks, last)
<1>1. PICK m \in Nat : DOMAIN pdf.bookmarks = 1 .. m
  <2>1. PICK n \in 0 .. MaxBookmarks : pdf.bookmarks \in [1 .. n -> Anchors]
    BY DEF HeardInv, Files, BoundedSeq, SeqOf
  <2> QED
    BY <2>1, StructureAssumption
<1>2. CASE scenario = "A"
  <2>1. sections = {[title |-> e.title, start |-> e.start] : e \in entries}
    BY <1>1, <1>2, SectionsAreNamed DEF HeardInv, Native
  <2> QED
    BY <1>2, <2>1 DEF BookmarksHeard, StartsNamed, FirstOnPage
<1>3. CASE scenario # "A"
  <2>1. \A s, t \in sections : s = t
    BY <1>1, <1>3, NoSectionsNoStarts DEF HeardInv, Native
  <2> QED
    BY <1>3, <2>1 DEF BookmarksHeard, StartsNamed, FirstOnPage
<1> QED
  BY <1>2, <1>3

(* Bookmarks that name two of the pages counted are the table of contents,  *)
(* each of these pages under its first title, for files with any bookmarks  *)
(* in any order: their pages are taken as clamped to the count of the pages *)
(* that parsed (extract_toc).                                               *)
THEOREM BookmarksAreHeard == Spec => []BookmarksHeard
<1>1. Init => HeardInv
  BY DEF Init, HeardInv
<1> QED
  BY <1>1, HeardStep, HeardTells, PTL DEF Spec

-----------------------------------------------------------------------------
(* How a text is cut.                                                       *)

(* The n-th window starts behind this place of the text.                    *)
Place(n) == (n - 1) * MaxChunk

(* N windows are what a text of length L is cut into.                       *)
IsCut(L, N) ==
  /\ N \in Nat
  /\ \A n \in 1 .. N : Place(n) \in Nat /\ Place(n) < L
  /\ \A n \in 1 .. N : n < N => Place(n) + MaxChunk < L
  /\ \A m, n \in 1 .. N : m < n => Place(m) + MaxChunk <= Place(n)
  /\ \A i \in 1 .. L : \E n \in 1 .. N :
       Place(n) < i /\ i <= Place(n) + MaxChunk

LEMMA CutIs ==
  ASSUME NEW L \in Nat, NEW N, N = (L + MaxChunk - 1) \div MaxChunk
  PROVE  IsCut(L, N)
<1> DEFINE M == MaxChunk
<1>m. M \in Nat \ {0}
  BY StructureAssumption
<1> HIDE DEF M
<1>1. /\ N \in Nat /\ N * M \in Nat
      /\ N * M <= L + M - 1 /\ L + M - 1 < N * M + M
  <2>1. L + M - 1 \in Nat
    BY <1>m
  <2> QED
    BY <1>m, <2>1 DEF M
<1>2. ASSUME NEW a \in Nat, NEW b \in Nat, a <= b
      PROVE  a * M \in Nat /\ b * M \in Nat /\ a * M <= b * M
  BY <1>m, <1>2
<1>3. ASSUME NEW a \in Nat
      PROVE  (a + 1) * M = a * M + M
  BY <1>m
<1>4. ASSUME NEW n \in 1 .. N
      PROVE  /\ (n - 1) * M \in Nat /\ n * M = (n - 1) * M + M
             /\ (n - 1) * M < L
  <2>1. n - 1 \in Nat /\ n \in Nat /\ n <= N /\ (n - 1) + 1 = n
    BY <1>1
  <2>2. (n - 1) * M \in Nat /\ n * M = (n - 1) * M + M
    <3>1. ((n - 1) + 1) * M = (n - 1) * M + M
      BY <1>3, <2>1
    <3>2. (n - 1) * M \in Nat
      BY <1>2, <2>1
    <3> QED
      BY <2>1, <3>1, <3>2, Zenon
  <2>3. n * M <= N * M
    BY <1>1, <1>2, <2>1
  <2> QED
    BY <1>1, <1>m, <2>2, <2>3
<1>5. ASSUME NEW n \in 1 .. N, n < N
      PROVE  (n - 1) * M + M < L
  <2>1. n + 1 \in 1 .. N /\ (n + 1) - 1 = n
    BY <1>1, <1>5
  <2>2. ((n + 1) - 1) * M < L
    BY <1>4, <2>1
  <2>3. n * M < L
    BY <2>1, <2>2, Zenon
  <2> QED
    BY <1>4, <2>3, Zenon
<1>6. ASSUME NEW m \in 1 .. N, NEW n \in 1 .. N, m < n
      PROVE  (m - 1) * M + M <= (n - 1) * M
  <2>1. m \in Nat /\ n - 1 \in Nat /\ m <= n - 1
    BY <1>1, <1>6
  <2>2. m * M <= (n - 1) * M
    BY <1>2, <2>1
  <2> QED
    BY <1>4, <2>2, Zenon
<1>7. ASSUME NEW i \in 1 .. L
      PROVE  \E n \in 1 .. N : (n - 1) * M < i /\ i <= (n - 1) * M + M
  <2> DEFINE q == (i - 1) \div M
  <2>1. q \in Nat /\ q * M \in Nat /\ q * M <= i - 1 /\ i - 1 < q * M + M
    <3>1. i - 1 \in Nat
      OBVIOUS
    <3> QED
      BY <1>m, <3>1
  <2> HIDE DEF q
  <2>2. ~(N <= q)
    <3>1. ASSUME N <= q PROVE FALSE
      <4> DEFINE x == N * M
                 y == q * M
      <4>1. x <= y
        BY <1>1, <1>2, <2>1, <3>1
      <4>2. x \in Nat /\ L + M - 1 < x + M
        BY <1>1
      <4>3. y \in Nat /\ y <= i - 1
        BY <2>1
      <4> HIDE DEF x, y
      <4> QED
        BY <1>m, <4>1, <4>2, <4>3
    <3> QED
      BY <3>1
  <2>3. q + 1 \in 1 .. N /\ (q + 1) - 1 = q
    BY <1>1, <2>1, <2>2
  <2>4. q * M < i /\ i <= q * M + M
    BY <1>m, <2>1
  <2>5. ((q + 1) - 1) * M < i /\ i <= ((q + 1) - 1) * M + M
    BY <2>3, <2>4, Zenon
  <2> QED
    BY <2>3, <2>5
<1> QED
  BY <1>1, <1>4, <1>5, <1>6, <1>7 DEF M, IsCut, Place

(* The n-th window of a text t, of w, has t from place a on.                *)
IsWindow(w, t, S, a) ==
  /\ w \in Seq(S)
  /\ Len(w) \in 1 .. MaxChunk
  /\ Len(w) = IF a + MaxChunk < Len(t) THEN MaxChunk ELSE Len(t) - a
  /\ \A m \in 1 .. Len(w) : a + m \in 1 .. Len(t) /\ w[m] = t[a + m]

LEMMA WindowIs ==
  ASSUME NEW S, NEW t \in Seq(S), NEW n \in Nat \ {0},
         Place(n) \in Nat, Place(n) < Len(t)
  PROVE  IsWindow(Window(t, n - 1), t, S, Place(n))
<1> DEFINE k == n - 1
           M == MaxChunk
           a == k * MaxChunk
           L == Len(t)
           b == IF a + M < L THEN a + M ELSE L
           w == SubSeq(t, a + 1, b)
<1>0. a = Place(n)
  BY DEF Place
<1>1. /\ M \in Nat /\ 1 <= M /\ a \in Nat /\ L \in Nat /\ a < L
      /\ (k + 1) * MaxChunk = a + M
  <2>1. MaxChunk \in Nat /\ 1 <= MaxChunk
    BY StructureAssumption
  <2>2. k \in Nat
    OBVIOUS
  <2>3. (k + 1) * MaxChunk = k * MaxChunk + MaxChunk
    BY <2>1, <2>2
  <2> QED
    BY <1>0, <2>1, <2>3
<1>2. Window(t, k) = w
  BY <1>1, Zenon DEF Window
<1> HIDE DEF M, a, k
<1>3. /\ b \in Nat /\ a + 1 <= b /\ b <= L
      /\ b - a \in 1 .. M
      /\ b - a = IF a + M < L THEN M ELSE L - a
  BY <1>1
<1> HIDE DEF b
<1>4. w \in Seq(S) /\ Len(w) = b - a
  BY <1>1, <1>3
<1>5. ASSUME NEW m \in 1 .. b - a
      PROVE  a + m \in 1 .. L /\ w[m] = t[a + m]
  <2>1. w = [j \in 1 .. b - a |-> t[(a + 1) + j - 1]]
    BY <1>1, <1>3
  <2>2. (a + 1) + m - 1 = a + m /\ a + m \in 1 .. L
    BY <1>1, <1>3
  <2> QED
    BY <2>1, <2>2
<1> HIDE DEF w
<1>6. IsWindow(w, t, S, a)
  BY <1>1, <1>3, <1>4, <1>5 DEF IsWindow, M
<1> QED
  BY <1>0, <1>2, <1>6 DEF k

-----------------------------------------------------------------------------
(* What a text holds, and in what order.                                    *)

Word == Int \X Int
Before == {q \in Word \X Word :
             q[1][1] < q[2][1] \/ (q[1][1] = q[2][1] /\ q[1][2] < q[2][2])}

IsWordOf(w, numbers) ==
  \E i \in 1 .. Len(parsed) :
    /\ parsed[i] \in numbers
    /\ \E k \in 1 .. pdf.pages[parsed[i]].words : w = <<parsed[i], k>>

IsText(t, numbers) ==
  /\ t \in Seq(Word)
  /\ IsRising(t, Before)
  /\ \A w : Holds(t, w) <=> IsWordOf(w, numbers)

LEMMA BeforeIsStrict == IsStrict(Before)
BY DEF IsStrict, Before, Word

LEMMA PagesAre ==
  ASSUME TypeOK
  PROVE  /\ Len(parsed) \in Nat /\ DOMAIN parsed = 1 .. Len(parsed)
         /\ \A i \in 1 .. Len(parsed) :
              parsed[i] \in Int /\ pdf.pages[parsed[i]].words \in Nat
         /\ \A i, j \in 1 .. Len(parsed) : i < j => parsed[i] < parsed[j]
<1>1. /\ Len(pdf.pages) \in 1 .. MaxPages
      /\ pdf.pages \in [1 .. Len(pdf.pages) -> PageSet]
  BY FileFacts DEF TypeOK
<1>2. parsed \in Seq(1 .. at - 1) /\ at \in 1 .. Len(pdf.pages) + 1
  BY DEF TypeOK
<1>3. Len(parsed) \in Nat /\ DOMAIN parsed = 1 .. Len(parsed)
  BY <1>2
<1>4. \A i \in 1 .. Len(parsed) : parsed[i] \in 1 .. Len(pdf.pages)
  BY <1>1, <1>2, <1>3, StructureAssumption
<1>5. \A i \in 1 .. Len(parsed) : pdf.pages[parsed[i]] \in PageSet
  BY <1>1, <1>4
<1>6. ASSUME NEW p \in PageSet
      PROVE  p.words \in Nat
  <2>1. CASE p \in [words: {0}, header: {NoTitle}]
    BY <2>1
  <2>2. CASE p \in [words: PageWords, header: Titles \cup {NoTitle}]
    <3>1. p.words \in PageWords
      BY <2>2
    <3> QED
      BY <3>1, StructureAssumption
  <2> QED
    BY <2>1, <2>2 DEF PageSet
<1>7. \A i, j \in 1 .. Len(parsed) : i < j => parsed[i] < parsed[j]
  BY <1>3 DEF TypeOK
<1>8. ASSUME NEW i \in 1 .. Len(parsed)
      PROVE  parsed[i] \in Int /\ pdf.pages[parsed[i]].words \in Nat
  <2>1. parsed[i] \in Int
    BY <1>1, <1>4
  <2>2. pdf.pages[parsed[i]].words \in Nat
    BY <1>5, <1>6
  <2> QED
    BY <2>1, <2>2
<1> QED
  BY <1>3, <1>7, <1>8

LEMMA PageTextIs ==
  ASSUME TypeOK, NEW numbers
  PROVE  IsText(PageText(numbers), numbers)
<1> DEFINE n == Len(parsed)
           W(i) == pdf.pages[parsed[i]].words
           ss == [i \in 1 .. n |-> IF parsed[i] \in numbers THEN WordsOf(parsed[i])
                                   ELSE <<>>]
<1>1. /\ n \in Nat /\ DOMAIN parsed = 1 .. n
      /\ \A i \in 1 .. n : parsed[i] \in Int /\ W(i) \in Nat
      /\ \A i, j \in 1 .. n : i < j => parsed[i] < parsed[j]
  BY PagesAre
<1>2. PageText(numbers) = FlattenSeq(ss)
  BY <1>1 DEF PageText
<1>3. ASSUME NEW i \in 1 .. n
      PROVE  /\ ss[i] \in Seq(Word)
             /\ parsed[i] \in numbers =>
                  Len(ss[i]) = W(i)
                  /\ \A k \in 1 .. W(i) : ss[i][k] = <<parsed[i], k>>
             /\ parsed[i] \notin numbers => Len(ss[i]) = 0
  <2>1. CASE parsed[i] \in numbers
    <3>1. ss[i] = [k \in 1 .. W(i) |-> <<parsed[i], k>>]
      BY <2>1 DEF WordsOf
    <3>2. parsed[i] \in Int /\ W(i) \in Nat
      BY <1>1
    <3> HIDE DEF ss, W
    <3>3. \A k \in 1 .. W(i) : <<parsed[i], k>> \in Word
      BY <3>2 DEF Word
    <3> QED
      BY <2>1, <3>1, <3>2, <3>3
  <2>2. CASE parsed[i] \notin numbers
    <3>1. ss[i] = <<>>
      BY <2>2
    <3> HIDE DEF ss, W
    <3> QED
      BY <2>2, <3>1
  <2> QED
    BY <2>1, <2>2
<1>4. ss \in Seq(Seq(Word)) /\ Len(ss) = n
  <2>1. \A i \in 1 .. n : ss[i] \in Seq(Word)
    BY <1>3
  <2>2. ss = [i \in 1 .. n |-> ss[i]]
    OBVIOUS
  <2> HIDE DEF ss
  <2> QED
    BY <1>1, <2>1, <2>2
<1> HIDE DEF n, ss, W
<1>5. ASSUME NEW i \in 1 .. n, NEW k \in 1 .. Len(ss[i])
      PROVE  /\ parsed[i] \in numbers /\ k \in 1 .. W(i)
             /\ ss[i][k] = <<parsed[i], k>> /\ parsed[i] \in Int /\ k \in Int
  <2>1. parsed[i] \in numbers
    BY <1>3
  <2> QED
    BY <1>1, <1>3, <2>1
<1>6. \A u, v \in Word :
        u[1] < v[1] \/ (u[1] = v[1] /\ u[2] < v[2]) => <<u, v>> \in Before
  BY DEF Before
<1>7. \A i \in 1 .. n : IsRising(ss[i], Before)
  <2> SUFFICES ASSUME NEW i \in 1 .. n,
                      NEW k \in 1 .. Len(ss[i]), NEW l \in 1 .. Len(ss[i]), k < l
               PROVE  <<ss[i][k], ss[i][l]>> \in Before
    BY DEF IsRising
  <2>1. ss[i][k] = <<parsed[i], k>> /\ ss[i][l] = <<parsed[i], l>>
    BY <1>5
  <2>2. <<parsed[i], k>> \in Word /\ <<parsed[i], l>> \in Word
    BY <1>5 DEF Word
  <2> QED
    BY <1>6, <2>1, <2>2
<1>8. \A i, j \in 1 .. n :
        i < j => \A k \in 1 .. Len(ss[i]) : \A l \in 1 .. Len(ss[j]) :
                   <<ss[i][k], ss[j][l]>> \in Before
  <2> SUFFICES ASSUME NEW i \in 1 .. n, NEW j \in 1 .. n, i < j,
                      NEW k \in 1 .. Len(ss[i]), NEW l \in 1 .. Len(ss[j])
               PROVE  <<ss[i][k], ss[j][l]>> \in Before
    OBVIOUS
  <2>1. ss[i][k] = <<parsed[i], k>> /\ ss[j][l] = <<parsed[j], l>>
    BY <1>5
  <2>2. <<parsed[i], k>> \in Word /\ <<parsed[j], l>> \in Word
    BY <1>5 DEF Word
  <2>3. parsed[i] < parsed[j]
    BY <1>1
  <2> QED
    BY <1>6, <2>1, <2>2, <2>3
<1>9. IsRising(FlattenSeq(ss), Before)
  BY <1>4, <1>7, <1>8, FlattenRises
<1>10. FlattenSeq(ss) \in Seq(Word)
  BY <1>4, FlattenIs
<1>11. ASSUME NEW w
       PROVE  Holds(FlattenSeq(ss), w) <=> IsWordOf(w, numbers)
  <2>1. Holds(FlattenSeq(ss), w) <=> \E i \in 1 .. n : Holds(ss[i], w)
    <3>1. Holds(FlattenSeq(ss), w) <=> \E i \in 1 .. Len(ss) : Holds(ss[i], w)
      BY <1>4, FlattenHolds
    <3> QED
      BY <1>4, <3>1
  <2>2. ASSUME NEW i \in 1 .. n
        PROVE  Holds(ss[i], w) <=>
                 parsed[i] \in numbers
                 /\ \E k \in 1 .. W(i) : w = <<parsed[i], k>>
    BY <1>3, <1>5 DEF Holds
  <2>3. IsWordOf(w, numbers) <=>
          \E i \in 1 .. n : /\ parsed[i] \in numbers
                            /\ \E k \in 1 .. W(i) : w = <<parsed[i], k>>
    BY DEF IsWordOf, n, W
  <2> QED
    BY <2>1, <2>2, <2>3
<1>12. IsText(FlattenSeq(ss), numbers)
  BY <1>9, <1>10, <1>11 DEF IsText
<1> QED
  BY <1>2, <1>12

-----------------------------------------------------------------------------
(* The chunks of one section.                                               *)

ChunkSet == [section: Entries, page: Int, words: Seq(Word)]

(* All text of one chunk is before all of another.                          *)
Follow ==
  {q \in ChunkSet \X ChunkSet :
     \A k \in 1 .. Len(q[1].words) : \A l \in 1 .. Len(q[2].words) :
       <<q[1].words[k], q[2].words[l]>> \in Before}

IsChunkOf(c, e) ==
  /\ c \in ChunkSet /\ c.section = e
  /\ Len(c.words) \in 1 .. MaxChunk
  /\ c.page = c.words[1][1]
  /\ \A k \in 1 .. Len(c.words) : c.words[k][1] \in Covered(e)
  /\ IsRising(c.words, Before)

AreChunksOf(cs, e) ==
  /\ cs \in Seq(ChunkSet)
  /\ \A n \in 1 .. Len(cs) : IsChunkOf(cs[n], e)
  /\ IsRising(cs, Follow)
  /\ \A n \in 1 .. Len(cs) : n < Len(cs) => Len(cs[n].words) = MaxChunk
  /\ \A w : (\E n \in 1 .. Len(cs) : Holds(cs[n].words, w))
              <=> IsWordOf(w, Covered(e))

LEMMA SectionChunksAre ==
  ASSUME TypeOK, NEW e \in Entries
  PROVE  AreChunksOf(SectionChunks(e), e)
<1> DEFINE t == SectionText(e)
           L == Len(t)
           N == (L + MaxChunk - 1) \div MaxChunk
           W(n) == Window(t, n - 1)
           cs == [n \in 1 .. N |-> Chunk(e, W(n))]
<1>1. SectionChunks(e) = cs
  BY DEF SectionChunks
<1>2. IsText(t, Covered(e))
  BY PageTextIs DEF SectionText, Covered
<1> HIDE DEF t
<1>3. /\ t \in Seq(Word) /\ L \in Nat /\ IsRising(t, Before)
      /\ \A w : Holds(t, w) <=> IsWordOf(w, Covered(e))
  BY <1>2 DEF IsText
<1>4. IsCut(L, N)
  BY <1>3, CutIs
<1> HIDE DEF L, N
<1>5. /\ N \in Nat
      /\ \A n \in 1 .. N : Place(n) \in Nat /\ Place(n) < L
      /\ \A n \in 1 .. N : n < N => Place(n) + MaxChunk < L
      /\ \A m, n \in 1 .. N : m < n => Place(m) + MaxChunk <= Place(n)
      /\ \A i \in 1 .. L : \E n \in 1 .. N :
           Place(n) < i /\ i <= Place(n) + MaxChunk
  BY <1>4 DEF IsCut
<1>6. ASSUME NEW n \in 1 .. N
      PROVE  IsWindow(W(n), t, Word, Place(n))
  <2>1. n \in Nat \ {0} /\ Place(n) \in Nat /\ Place(n) < Len(t)
    BY <1>5 DEF L
  <2> QED
    BY <1>3, <2>1, WindowIs
<1> HIDE DEF W
<1>7. ASSUME NEW n \in 1 .. N
      PROVE  /\ W(n) \in Seq(Word)
             /\ Len(W(n)) \in 1 .. MaxChunk
             /\ Len(W(n)) = IF Place(n) + MaxChunk < L THEN MaxChunk ELSE L - Place(n)
             /\ \A m \in 1 .. Len(W(n)) :
                  Place(n) + m \in 1 .. L /\ W(n)[m] = t[Place(n) + m]
  BY <1>6 DEF IsWindow, L
<1>8. \A n \in 1 .. N : /\ cs[n].section = e /\ cs[n].words = W(n)
                        /\ cs[n].page = W(n)[1][1]
  BY DEF Chunk
<1>9. ASSUME NEW i \in 1 .. L
      PROVE  t[i] \in Word /\ t[i][1] \in Covered(e) /\ t[i][1] \in Int
  <2>1. t[i] \in Word
    BY <1>3 DEF L
  <2>2. Holds(t, t[i])
    BY DEF Holds, L
  <2>3. IsWordOf(t[i], Covered(e))
    BY <1>3, <2>2
  <2>4. t[i][1] \in Covered(e)
    BY <2>3 DEF IsWordOf
  <2> QED
    BY <2>1, <2>4 DEF Word
<1>10. ASSUME NEW i \in 1 .. L, NEW j \in 1 .. L, i < j
       PROVE  <<t[i], t[j]>> \in Before
  BY <1>3, <1>10 DEF IsRising, L
<1>11. MaxChunk \in Nat \ {0}
  BY StructureAssumption
<1>12. ASSUME NEW n \in 1 .. N
       PROVE  IsChunkOf(cs[n], e)
  <2>1. 1 \in 1 .. Len(W(n)) /\ Len(W(n)) \in Nat
    BY <1>7, <1>11
  <2>2. \A m \in 1 .. Len(W(n)) : W(n)[m][1] \in Covered(e) /\ W(n)[m][1] \in Int
    BY <1>7, <1>9
  <2>3. Chunk(e, W(n)) \in ChunkSet
    <3>1. W(n)[1][1] \in Int
      BY <2>1, <2>2
    <3> QED
      BY <1>7, <3>1 DEF Chunk, ChunkSet
  <2>4. cs[n] \in ChunkSet
    BY <2>3
  <2>5. IsRising(W(n), Before)
    <3> SUFFICES ASSUME NEW k \in 1 .. Len(W(n)), NEW l \in 1 .. Len(W(n)), k < l
                 PROVE  <<W(n)[k], W(n)[l]>> \in Before
      BY DEF IsRising
    <3>1. Place(n) + k < Place(n) + l
      BY <1>5, <2>1
    <3>2. <<t[Place(n) + k], t[Place(n) + l]>> \in Before
      BY <1>7, <1>10, <3>1
    <3> QED
      BY <1>7, <3>2
  <2> HIDE DEF cs
  <2> QED
    BY <1>7, <1>8, <2>2, <2>4, <2>5 DEF IsChunkOf
<1>13. cs \in Seq(ChunkSet) /\ Len(cs) = N
  <2>1. \A n \in 1 .. N : cs[n] \in ChunkSet
    BY <1>12 DEF IsChunkOf
  <2>2. cs = [n \in 1 .. N |-> cs[n]]
    OBVIOUS
  <2> HIDE DEF cs
  <2> QED
    BY <1>5, <2>1, <2>2
<1> HIDE DEF cs
<1>14. IsRising(cs, Follow)
  <2> SUFFICES ASSUME NEW j \in 1 .. N, NEW n \in 1 .. N, j < n
               PROVE  <<cs[j], cs[n]>> \in Follow
    BY <1>13 DEF IsRising
  <2>1. cs[j] \in ChunkSet /\ cs[n] \in ChunkSet
    BY <1>12 DEF IsChunkOf
  <2>2. ASSUME NEW k \in 1 .. Len(W(j)), NEW l \in 1 .. Len(W(n))
        PROVE  <<W(j)[k], W(n)[l]>> \in Before
    <3>1. Place(j) + k < Place(n) + l
      <4>1. /\ Place(j) \in Nat /\ Place(n) \in Nat
            /\ Place(j) + MaxChunk <= Place(n)
        BY <1>5
      <4>2. k \in Nat /\ k <= MaxChunk /\ l \in Nat /\ 1 <= l
        BY <1>7, <1>11
      <4> QED
        BY <1>11, <4>1, <4>2
    <3>2. <<t[Place(j) + k], t[Place(n) + l]>> \in Before
      BY <1>7, <1>10, <3>1
    <3> QED
      BY <1>7, <3>2
  <2> QED
    BY <1>8, <2>1, <2>2 DEF Follow
<1>15. \A n \in 1 .. N : n < N => Len(cs[n].words) = MaxChunk
  BY <1>5, <1>7, <1>8
<1>16. ASSUME NEW w
       PROVE  (\E n \in 1 .. N : Holds(cs[n].words, w))
                <=> IsWordOf(w, Covered(e))
  <2>1. ASSUME NEW n \in 1 .. N, Holds(cs[n].words, w)
        PROVE  Holds(t, w)
    <3>1. PICK m \in 1 .. Len(W(n)) : W(n)[m] = w
      BY <1>8, <2>1 DEF Holds
    <3> QED
      BY <1>7, <3>1 DEF Holds, L
  <2>2. ASSUME Holds(t, w)
        PROVE  \E n \in 1 .. N : Holds(cs[n].words, w)
    <3>1. PICK i \in 1 .. L : t[i] = w
      BY <2>2 DEF Holds, L
    <3>2. PICK n \in 1 .. N : Place(n) < i /\ i <= Place(n) + MaxChunk
      BY <1>5
    <3>3. i - Place(n) \in 1 .. Len(W(n)) /\ Place(n) + (i - Place(n)) = i
      <4>1. /\ Place(n) \in Nat /\ Len(W(n)) \in Nat
            /\ Len(W(n)) = IF Place(n) + MaxChunk < L THEN MaxChunk
                           ELSE L - Place(n)
        <5>1. Place(n) \in Nat
          BY <1>5
        <5>2. Len(W(n)) \in 1 .. MaxChunk
          BY <1>7
        <5>3. Len(W(n)) = IF Place(n) + MaxChunk < L THEN MaxChunk
                          ELSE L - Place(n)
          BY <1>7
        <5>4. Len(W(n)) \in Nat
          BY <1>11, <5>2
        <5> QED
          BY <5>1, <5>3, <5>4
      <4> HIDE DEF Place
      <4> QED
        BY <1>3, <1>11, <3>2, <4>1
    <3>4. W(n)[i - Place(n)] = w
      BY <1>7, <3>1, <3>3
    <3>5. Holds(W(n), w)
      BY <3>3, <3>4 DEF Holds
    <3> QED
      BY <1>8, <3>5
  <2> QED
    BY <1>3, <2>1, <2>2
<1>17. AreChunksOf(cs, e)
  BY <1>12, <1>13, <1>14, <1>15, <1>16 DEF AreChunksOf
<1> QED
  BY <1>1, <1>17

-----------------------------------------------------------------------------
(* The chunks of a file.                                                    *)

Tiling == TypeOK /\ Tiles(entries, Bound(PageCount))

(* Sections are disjoint, so that they can be put in order by their starts. *)
LEMMA SectionsAre ==
  ASSUME Tiling
  PROVE  /\ IsFiniteSet(entries) /\ entries \subseteq Entries
         /\ \A x \in entries : /\ x.start \in Nat /\ x.end \in Nat
                               /\ 1 <= x.start /\ x.start <= x.end
                               /\ x.end <= Bound(PageCount)
         /\ \A x, y \in entries : x.start = y.start => x = y
         /\ \A x, y \in entries : x.start < y.start => x.end < y.start
<1>1. /\ entries \subseteq Entries
      /\ \A x \in entries : /\ 1 <= x.start /\ x.start <= x.end
                            /\ x.end <= Bound(PageCount)
      /\ \A x, y \in entries : x # y => Covered(x) \cap Covered(y) = {}
  BY DEF Tiling, TypeOK, Tiles
<1>2. \A x \in entries : /\ x.start \in 1 .. MaxPages /\ x.end \in 1 .. MaxPages
                         /\ x.start \in Nat /\ x.end \in Nat
  <2>1. \A x \in Entries : x.start \in 1 .. MaxPages /\ x.end \in 1 .. MaxPages
    BY DEF Entries
  <2>2. 1 .. MaxPages \subseteq Nat
    BY StructureAssumption
  <2> QED
    BY <1>1, <2>1, <2>2
<1>3. ASSUME NEW x \in entries, NEW y \in entries, x # y
      PROVE  ~(x.start <= y.start /\ y.start <= x.end)
  <2>1. y.start \notin Covered(x) \/ y.start \notin Covered(y)
    BY <1>1, <1>3
  <2> QED
    BY <1>1, <1>2, <2>1 DEF Covered
<1>4. \A x, y \in entries : x.start = y.start => x = y
  BY <1>1, <1>2, <1>3
<1>5. \A x, y \in entries : x.start < y.start => x.end < y.start
  BY <1>1, <1>2, <1>3
<1>6. IsFiniteSet(entries)
  <2> DEFINE f == [x \in entries |-> x.start]
  <2>1. f \in Injection(entries, 1 .. MaxPages)
    BY <1>2, <1>4 DEF Injection, IsInjective
  <2>2. IsFiniteSet(1 .. MaxPages)
    BY FS_Interval, StructureAssumption
  <2> QED
    BY <2>1, <2>2, FS_Injection
<1> QED
  BY <1>1, <1>2, <1>4, <1>5, <1>6

IsListing(o) ==
  /\ o \in Seq(entries)
  /\ \A i, j \in 1 .. Len(o) : i < j => o[i].start < o[j].start
  /\ \A x \in entries : \E i \in 1 .. Len(o) : o[i] = x

LEMMA InOrderIs ==
  ASSUME Tiling
  PROVE  IsListing(InOrder)
<1> DEFINE R == {p \in entries \X entries : p[1].start < p[2].start}
           n == Cardinality(entries)
           o == InOrder
<1>1. /\ IsFiniteSet(entries)
      /\ \A x \in entries : x.start \in Nat
      /\ \A x, y \in entries : x.start = y.start => x = y
  BY SectionsAre
<1>2. \A x, y \in entries : <<x, y>> \in R <=> x.start < y.start
  OBVIOUS
<1>3. n \in Nat
  BY <1>1, FS_CardinalityType
<1> HIDE DEF R
<1>4. IsOrder(R, entries)
  <2>1. \A x \in entries : <<x, x>> \notin R
    BY <1>1, <1>2
  <2>2. \A x, y, z \in entries :
          <<x, y>> \in R /\ <<y, z>> \in R => <<x, z>> \in R
    BY <1>1, <1>2
  <2>3. ASSUME NEW x \in entries, NEW y \in entries
        PROVE  x = y \/ <<x, y>> \in R \/ <<y, x>> \in R
    <3> DEFINE a == x.start
               b == y.start
    <3>1. a \in Nat /\ b \in Nat /\ (a = b => x = y)
      BY <1>1
    <3>2. (a < b => <<x, y>> \in R) /\ (b < a => <<y, x>> \in R)
      BY <1>2
    <3> HIDE DEF a, b
    <3> QED
      BY <3>1, <3>2
  <2> QED
    BY <2>1, <2>2, <2>3 DEF IsOrder
<1>5. PICK t : IsInOrder(t, n, entries, R)
  BY <1>1, <1>4, OrderExists
<1>6. /\ t \in [1 .. n -> entries]
      /\ \A i, j \in DOMAIN t : i < j => t[i].start < t[j].start
  BY <1>2, <1>5 DEF IsInOrder
<1>7. /\ o \in [1 .. n -> entries]
      /\ \A i, j \in DOMAIN o : i < j => o[i].start < o[j].start
  BY <1>6 DEF InOrder
<1> HIDE DEF o, n
<1>8. IsInOrder(o, n, entries, R)
  BY <1>2, <1>7 DEF IsInOrder
<1>9. \A x \in entries : \E i \in 1 .. n : o[i] = x
  BY <1>1, <1>4, <1>8, OrderCovers DEF n
<1>10. o \in Seq(entries) /\ Len(o) = n /\ DOMAIN o = 1 .. n
  BY <1>3, <1>7
<1>11. IsListing(o)
  BY <1>7, <1>9, <1>10 DEF IsListing
<1> QED
  BY <1>11 DEF o

AreChunks(cs) ==
  /\ cs \in Seq(ChunkSet)
  /\ \A i \in 1 .. Len(cs) : \E e \in entries : IsChunkOf(cs[i], e)
  /\ IsRising(cs, Follow)
  /\ \A i \in 1 .. Len(cs) :
       i < Len(cs) /\ cs[i + 1].section = cs[i].section
         => Len(cs[i].words) = MaxChunk
  /\ \A w : (\E i \in 1 .. Len(cs) : Holds(cs[i].words, w))
              <=> \E e \in entries : IsWordOf(w, Covered(e))

LEMMA AllChunksAre ==
  ASSUME Tiling
  PROVE  AreChunks(AllChunks)
<1> DEFINE o == InOrder
           n == Len(o)
           ss == [i \in 1 .. n |-> SectionChunks(o[i])]
           all == FlattenSeq(ss)
<1>1. /\ o \in Seq(entries)
      /\ \A i, j \in 1 .. n : i < j => o[i].start < o[j].start
      /\ \A x \in entries : \E i \in 1 .. n : o[i] = x
  BY InOrderIs DEF IsListing
<1> HIDE DEF o
<1>2. n \in Nat /\ DOMAIN o = 1 .. n /\ \A i \in 1 .. n : o[i] \in entries
  BY <1>1
<1>3. AllChunks = all
  BY <1>2 DEF AllChunks, o
<1>4. /\ entries \subseteq Entries
      /\ \A x \in entries : x.start \in Nat /\ x.end \in Nat
      /\ \A x, y \in entries : x.start < y.start => x.end < y.start
  BY SectionsAre
<1>5. ASSUME NEW i \in 1 .. n
      PROVE  AreChunksOf(ss[i], o[i])
  <2>1. AreChunksOf(SectionChunks(o[i]), o[i])
    BY <1>2, <1>4, SectionChunksAre DEF Tiling
  <2> QED
    BY <2>1
<1>6. ss \in Seq(Seq(ChunkSet)) /\ Len(ss) = n
  <2>1. \A i \in 1 .. n : ss[i] \in Seq(ChunkSet)
    BY <1>5 DEF AreChunksOf
  <2>2. ss = [i \in 1 .. n |-> ss[i]]
    OBVIOUS
  <2> HIDE DEF ss, n
  <2> QED
    BY <1>2, <2>1, <2>2, FunctionIsSeq
<1> HIDE DEF ss, n
<1>7. ASSUME NEW i \in 1 .. n, NEW m \in 1 .. Len(ss[i])
      PROVE  /\ IsChunkOf(ss[i][m], o[i]) /\ o[i] \in entries
             /\ ss[i][m] \in ChunkSet /\ ss[i][m].section = o[i]
             /\ m < Len(ss[i]) => Len(ss[i][m].words) = MaxChunk
  <2>1. IsChunkOf(ss[i][m], o[i])
    BY <1>5 DEF AreChunksOf
  <2>2. m < Len(ss[i]) => Len(ss[i][m].words) = MaxChunk
    BY <1>5 DEF AreChunksOf
  <2>3. ss[i][m] \in ChunkSet /\ ss[i][m].section = o[i]
    BY <2>1 DEF IsChunkOf
  <2> QED
    BY <1>2, <2>1, <2>2, <2>3
<1>8. PICK off : IsOffsets(off, ss) /\ Locates(all, ss, off)
  BY <1>6, FlattenLocates
<1>9. all \in Seq(ChunkSet)
  BY <1>6, FlattenIs
<1>10. IsRising(all, Follow)
  <2>1. \A i \in 1 .. Len(ss) : IsRising(ss[i], Follow)
    BY <1>5, <1>6 DEF AreChunksOf
  <2>2. ASSUME NEW i \in 1 .. n, NEW j \in 1 .. n, i < j,
               NEW k \in 1 .. Len(ss[i]), NEW l \in 1 .. Len(ss[j])
        PROVE  <<ss[i][k], ss[j][l]>> \in Follow
    <3> DEFINE c == ss[i][k]
               d == ss[j][l]
    <3>1. /\ IsChunkOf(c, o[i]) /\ IsChunkOf(d, o[j])
          /\ c \in ChunkSet /\ d \in ChunkSet
      BY <1>7
    <3>2. /\ o[i].end < o[j].start
          /\ o[i].start \in Nat /\ o[i].end \in Nat
          /\ o[j].start \in Nat /\ o[j].end \in Nat
      BY <1>1, <1>2, <1>4, <2>2
    <3> HIDE DEF c, d
    <3>3. ASSUME NEW p \in 1 .. Len(c.words), NEW q \in 1 .. Len(d.words)
          PROVE  <<c.words[p], d.words[q]>> \in Before
      <4>1. c.words \in Seq(Word) /\ d.words \in Seq(Word)
        BY <3>1 DEF ChunkSet
      <4>2. c.words[p] \in Word /\ d.words[q] \in Word
        BY <4>1
      <4>3. c.words[p][1] \in Covered(o[i]) /\ d.words[q][1] \in Covered(o[j])
        BY <3>1 DEF IsChunkOf
      <4>4. c.words[p][1] < d.words[q][1]
        <5> DEFINE a == c.words[p][1]
                   b == d.words[q][1]
        <5>1. a \in Int /\ b \in Int
          BY <4>2 DEF Word
        <5>2. a <= o[i].end /\ o[j].start <= b
          BY <3>2, <4>3, <5>1 DEF Covered
        <5> HIDE DEF a, b
        <5>3. a < b
          BY <3>2, <5>1, <5>2
        <5> QED
          BY <5>3 DEF a, b
      <4> QED
        BY <4>2, <4>4 DEF Before
    <3>4. <<c, d>> \in Follow
      BY <3>1, <3>3 DEF Follow
    <3> QED
      BY <3>4 DEF c, d
  <2>3. \A i, j \in 1 .. Len(ss) :
          i < j => \A k \in 1 .. Len(ss[i]) : \A l \in 1 .. Len(ss[j]) :
                     <<ss[i][k], ss[j][l]>> \in Follow
    BY <1>6, <2>2
  <2> QED
    BY <1>6, <2>1, <2>3, FlattenRises
<1> HIDE DEF all
<1>11. ASSUME NEW i \in 1 .. Len(all)
       PROVE  \E k \in 1 .. n : \E m \in 1 .. Len(ss[k]) :
                i = off[k - 1] + m /\ all[i] = ss[k][m]
  BY <1>6, <1>8, Zenon DEF Locates
<1>12. \A i \in 1 .. Len(all) : \E e \in entries : IsChunkOf(all[i], e)
  <2> TAKE i \in 1 .. Len(all)
  <2>1. PICK k \in 1 .. n : \E m \in 1 .. Len(ss[k]) : all[i] = ss[k][m]
    BY <1>11
  <2>2. IsChunkOf(all[i], o[k]) /\ o[k] \in entries
    BY <1>7, <2>1
  <2> QED
    BY <2>2
<1>13. ASSUME NEW i \in 1 .. Len(all), i < Len(all),
              all[i + 1].section = all[i].section
       PROVE  Len(all[i].words) = MaxChunk
  <2>1. i + 1 \in 1 .. Len(all)
    BY <1>9, <1>13
  <2>k. PICK k \in 1 .. n : \E m \in 1 .. Len(ss[k]) :
          i = off[k - 1] + m /\ all[i] = ss[k][m]
    BY <1>11
  <2>2. PICK m \in 1 .. Len(ss[k]) : i = off[k - 1] + m /\ all[i] = ss[k][m]
    BY <2>k
  <2>l. PICK l \in 1 .. n : \E q \in 1 .. Len(ss[l]) :
          i + 1 = off[l - 1] + q /\ all[i + 1] = ss[l][q]
    BY <1>11, <2>1
  <2>3. PICK q \in 1 .. Len(ss[l]) :
          i + 1 = off[l - 1] + q /\ all[i + 1] = ss[l][q]
    BY <2>l
  <2>4. o[k] = o[l]
    BY <1>7, <1>13, <2>2, <2>3
  <2>5. k = l
    <3>1. o[k].start \in Nat /\ ~(k < l) /\ ~(l < k)
      BY <1>1, <1>2, <1>4, <2>4
    <3> QED
      BY <1>2, <3>1
  <2>6. /\ off[k - 1] \in Nat /\ Len(ss[k]) \in Nat
    <3>1. k \in 1 .. Len(ss)
      BY <1>6
    <3> QED
      BY <1>6, <1>8, <3>1, OffsetsAre
  <2>7. q \in 1 .. Len(ss[k]) /\ i + 1 = off[k - 1] + q
    BY <2>3, <2>5
  <2>8. m < Len(ss[k])
    <3> DEFINE a == off[k - 1]
               z == Len(ss[k])
    <3>1. a \in Nat /\ z \in Nat /\ m \in 1 .. z /\ q \in 1 .. z
      BY <2>6, <2>7
    <3>2. i = a + m /\ i + 1 = a + q
      BY <2>2, <2>7
    <3> HIDE DEF a, z
    <3>3. m < z
      BY <3>1, <3>2
    <3> QED
      BY <3>3 DEF z
  <2> QED
    BY <1>7, <2>2, <2>8
<1>14. ASSUME NEW w
       PROVE  (\E i \in 1 .. Len(all) : Holds(all[i].words, w))
                <=> \E e \in entries : IsWordOf(w, Covered(e))
  <2>1. ASSUME NEW i \in 1 .. Len(all), Holds(all[i].words, w)
        PROVE  \E e \in entries : IsWordOf(w, Covered(e))
    <3>1. PICK k \in 1 .. n : \E m \in 1 .. Len(ss[k]) : all[i] = ss[k][m]
      BY <1>11
    <3>2. \E m \in 1 .. Len(ss[k]) : Holds(ss[k][m].words, w)
      BY <2>1, <3>1
    <3>3. IsWordOf(w, Covered(o[k]))
      BY <1>5, <3>2 DEF AreChunksOf
    <3> QED
      BY <1>2, <3>3
  <2>2. ASSUME NEW e \in entries, IsWordOf(w, Covered(e))
        PROVE  \E i \in 1 .. Len(all) : Holds(all[i].words, w)
    <3>1. PICK k \in 1 .. n : o[k] = e
      BY <1>1
    <3>2. PICK m \in 1 .. Len(ss[k]) : Holds(ss[k][m].words, w)
      BY <1>5, <2>2, <3>1 DEF AreChunksOf
    <3>3. k \in 1 .. Len(ss)
      BY <1>6
    <3>4. off[k - 1] + m \in 1 .. Len(all) /\ all[off[k - 1] + m] = ss[k][m]
      BY <1>8, <3>3, Zenon DEF Locates
    <3> QED
      BY <3>2, <3>4
  <2> QED
    BY <2>1, <2>2
<1>15. AreChunks(all)
  BY <1>9, <1>10, <1>12, <1>13, <1>14 DEF AreChunks
<1> QED
  BY <1>3, <1>15

(* What the chunks say, read in order.                                      *)
ChunkText(cs) == FlattenSeq([i \in DOMAIN cs |-> cs[i].words])

LEMMA ChunkTextIs ==
  ASSUME Tiling
  PROVE  ChunkText(AllChunks) =
           PageText({p \in 1 .. Bound(PageCount) : \E e \in entries : e.start <= p})
<1> DEFINE all == AllChunks
           numbers == {p \in 1 .. Bound(PageCount) : \E e \in entries : e.start <= p}
           n == Len(all)
           ws == [i \in 1 .. n |-> all[i].words]
           t == FlattenSeq(ws)
           u == PageText(numbers)
<1>1. /\ all \in Seq(ChunkSet)
      /\ \A i \in 1 .. n : \E e \in entries : IsChunkOf(all[i], e)
      /\ IsRising(all, Follow)
      /\ \A w : (\E i \in 1 .. n : Holds(all[i].words, w))
                  <=> \E e \in entries : IsWordOf(w, Covered(e))
  BY AllChunksAre DEF AreChunks
<1> HIDE DEF all
<1>2. n \in Nat /\ DOMAIN all = 1 .. n /\ \A i \in 1 .. n : all[i] \in ChunkSet
  BY <1>1
<1>3. ChunkText(all) = t
  BY <1>2 DEF ChunkText
<1>4. IsText(u, numbers)
  BY PageTextIs DEF Tiling
<1> HIDE DEF u
<1>5. \A i \in 1 .. n : ws[i] \in Seq(Word) /\ ws[i] = all[i].words
  <2>1. \A c \in ChunkSet : c.words \in Seq(Word)
    BY DEF ChunkSet
  <2> QED
    BY <1>2, <2>1
<1>6. ws \in Seq(Seq(Word)) /\ Len(ws) = n
  <2>1. ws = [i \in 1 .. n |-> ws[i]]
    OBVIOUS
  <2> HIDE DEF ws, n
  <2> QED
    BY <1>2, <1>5, <2>1
<1> HIDE DEF ws
<1>7. \A i \in 1 .. n : IsRising(ws[i], Before)
  BY <1>1, <1>5 DEF IsChunkOf
<1>8. ASSUME NEW i \in 1 .. n, NEW j \in 1 .. n, i < j,
             NEW k \in 1 .. Len(ws[i]), NEW l \in 1 .. Len(ws[j])
      PROVE  <<ws[i][k], ws[j][l]>> \in Before
  <2>1. <<all[i], all[j]>> \in Follow
    BY <1>1, <1>8 DEF IsRising
  <2> QED
    BY <1>5, <2>1 DEF Follow
<1>9. t \in Seq(Word)
  BY <1>6, FlattenIs
<1>10. IsRising(t, Before)
  <2>1. \A i, j \in 1 .. Len(ws) :
          i < j => \A k \in 1 .. Len(ws[i]) : \A l \in 1 .. Len(ws[j]) :
                     <<ws[i][k], ws[j][l]>> \in Before
    BY <1>6, <1>8
  <2>2. \A i \in 1 .. Len(ws) : IsRising(ws[i], Before)
    BY <1>6, <1>7
  <2> QED
    BY <1>6, <2>1, <2>2, FlattenRises
<1>11. ASSUME NEW w
       PROVE  Holds(t, w) <=> \E e \in entries : IsWordOf(w, Covered(e))
  <2>1. Holds(t, w) <=> \E i \in 1 .. Len(ws) : Holds(ws[i], w)
    BY <1>6, FlattenHolds
  <2>2. (\E i \in 1 .. Len(ws) : Holds(ws[i], w))
          <=> \E i \in 1 .. n : Holds(all[i].words, w)
    BY <1>5, <1>6
  <2> QED
    BY <1>1, <2>1, <2>2
<1>12. ASSUME NEW w
       PROVE  (\E e \in entries : IsWordOf(w, Covered(e))) <=> IsWordOf(w, numbers)
  <2>1. ASSUME NEW p \in Int
        PROVE  (\E e \in entries : p \in Covered(e)) <=> p \in numbers
    <3>1. Bound(PageCount) \in Nat
      <4>1. Len(parsed) \in Nat
        BY PagesAre DEF Tiling
      <4> QED
        BY <4>1 DEF Bound, PageCount
    <3>2. /\ \A x \in entries : /\ x.start \in Nat /\ x.end \in Nat
                                /\ 1 <= x.start /\ x.start <= x.end
                                /\ x.end <= Bound(PageCount)
      BY SectionsAre
    <3>3. \A e \in entries : \A q \in e.start .. Bound(PageCount) :
            \E f \in entries : q \in Covered(f)
      BY DEF Tiling, Tiles
    <3>4. ASSUME NEW e \in entries, p \in Covered(e)
          PROVE  p \in numbers
      BY <2>1, <3>1, <3>2, <3>4 DEF Covered
    <3>5. ASSUME p \in numbers
          PROVE  \E e \in entries : p \in Covered(e)
      BY <2>1, <3>1, <3>2, <3>3, <3>5
    <3> QED
      BY <3>4, <3>5
  <2>2. \A i \in 1 .. Len(parsed) : parsed[i] \in Int
    BY PagesAre DEF Tiling
  <2> HIDE DEF numbers
  <2> QED
    BY <2>1, <2>2 DEF IsWordOf
<1> HIDE DEF numbers, t
<1>13. /\ u \in Seq(Word) /\ IsRising(u, Before)
       /\ \A w : Holds(u, w) <=> IsWordOf(w, numbers)
  BY <1>4 DEF IsText
<1>14. \A w : Holds(t, w) <=> Holds(u, w)
  BY <1>11, <1>12, <1>13
<1>15. t = u
  BY <1>9, <1>10, <1>13, <1>14, BeforeIsStrict, RisingUnique
<1> QED
  BY <1>3, <1>15 DEF all, u, numbers

-----------------------------------------------------------------------------
(* A file is chunked once, and the check of the chunks never fails it.      *)

ChunkInv ==
  /\ stage # "failed"
  /\ stage \in {"parse", "chunk", "refused"} => chunks = <<>>
  /\ scenario = "C" => stage = "done" /\ chunks = <<>>
  /\ stage = "done" => scenario = "C" \/ chunks = AllChunks

LEMMA ChunkInvInit == Init => ChunkInv
BY DEF Init, ChunkInv

LEMMA NoChunks ==
  ASSUME Tiling, entries = {}
  PROVE  AllChunks = <<>>
<1>1. AreChunks(AllChunks)
  BY AllChunksAre
<1> DEFINE all == AllChunks
<1> HIDE DEF all
<1>2. all \in Seq(ChunkSet) /\ \A i \in 1 .. Len(all) : \E e \in entries : IsChunkOf(all[i], e)
  BY <1>1 DEF AreChunks, all
<1>3. Len(all) = 0
  BY <1>2
<1>4. all = <<>>
  BY <1>2, <1>3
<1> QED
  BY <1>4 DEF all

(* Every chunk starts on a page of its section.                             *)
LEMMA BoundsHold ==
  ASSUME Tiling
  PROVE  \A i \in DOMAIN AllChunks : SectionBound(AllChunks[i])
<1> DEFINE all == AllChunks
<1>1. AreChunks(all)
  BY AllChunksAre
<1> HIDE DEF all
<1>2. all \in Seq(ChunkSet) /\ \A i \in 1 .. Len(all) : \E e \in entries : IsChunkOf(all[i], e)
  BY <1>1 DEF AreChunks
<1>3. ASSUME NEW i \in 1 .. Len(all)
      PROVE  SectionBound(all[i])
  <2> DEFINE c == all[i]
  <2>1. PICK e \in entries : IsChunkOf(c, e)
    BY <1>2
  <2>2. c \in ChunkSet
    BY <2>1 DEF IsChunkOf
  <2> HIDE DEF c
  <2>3. c.section = e /\ c.page \in Int /\ c.words \in Seq(Word)
    BY <2>1, <2>2 DEF IsChunkOf, ChunkSet
  <2>4. Len(c.words) \in 1 .. MaxChunk
    BY <2>1 DEF IsChunkOf
  <2>5. 1 \in 1 .. Len(c.words)
    BY <2>3, <2>4, StructureAssumption
  <2>6. c.page \in Covered(e)
    BY <2>1, <2>5 DEF IsChunkOf
  <2>7. e.start \in Nat /\ e.end \in Nat
    BY SectionsAre
  <2>8. e.start <= c.page /\ c.page <= e.end
    BY <2>3, <2>6, <2>7 DEF Covered
  <2>9. SectionBound(c)
    BY <2>3, <2>8 DEF SectionBound
  <2> QED
    BY <2>9 DEF c
<1>4. DOMAIN all = 1 .. Len(all)
  BY <1>2
<1>5. \A i \in DOMAIN all : SectionBound(all[i])
  BY <1>3, <1>4
<1> QED
  BY <1>5 DEF all

LEMMA AllChunksStay ==
  UNCHANGED <<pdf, parsed, entries>> => AllChunks' = AllChunks
BY DEF AllChunks, InOrder, SectionChunks, SectionText, PageText, WordsOf,
       Window, Chunk

LEMMA ChunkInvNext == Tiling /\ ChunkInv /\ [Next]_vars => ChunkInv'
<1> SUFFICES ASSUME Tiling, ChunkInv, [Next]_vars
             PROVE  ChunkInv'
  OBVIOUS
<1> USE DEF ChunkInv
<1>1. CASE ParsePage
  BY <1>1 DEF ParsePage
<1>2. CASE SkipPage
  BY <1>2 DEF SkipPage
<1>3. CASE Unparsable
  BY <1>3 DEF Unparsable
<1>e. ASSUME NEW found, NEW how, Extracted(found, how), stage = "parse"
      PROVE  ChunkInv'
  BY <1>e DEF Extracted
<1>4. CASE ExtractNative
  BY <1>4, <1>e DEF ExtractNative, Extracting
<1>5. CASE DetectHeaders
  BY <1>5, <1>e DEF DetectHeaders, Extracting
<1>6. CASE Refine
  BY <1>6, <1>e DEF Refine, Extracting
<1>7. CASE NoStructure
  BY <1>7, <1>e DEF NoStructure, Extracting
<1>8. CASE ChunkDocument
  <2>1. \A i \in DOMAIN AllChunks : SectionBound(AllChunks[i])
    BY BoundsHold
  <2>2. /\ stage = "chunk" /\ chunks' = AllChunks /\ stage' = "done"
        /\ UNCHANGED <<pdf, parsed, entries, scenario>>
    BY <1>8, <2>1 DEF ChunkDocument
  <2>3. AllChunks' = AllChunks
    BY <2>2, AllChunksStay
  <2> QED
    BY <2>2, <2>3
<1>9. CASE UNCHANGED vars
  <2>1. AllChunks' = AllChunks
    BY <1>9, AllChunksStay DEF vars
  <2> QED
    BY <1>9, <2>1 DEF vars
<1> QED
  BY <1>1, <1>2, <1>3, <1>4, <1>5, <1>6, <1>7, <1>8, <1>9 DEF Next

LEMMA ChunkSpec == Spec => [](Tiling /\ ChunkInv)
<1>1. Init => TypeOK /\ ExtractInv /\ ChunkInv
  BY TypeOKInit, ExtractInvInit, ChunkInvInit
<1>2. TypeOK /\ ExtractInv => Tiling
  BY DEF Tiling, ExtractInv
<1>3. TypeOK /\ ExtractInv /\ ChunkInv /\ [Next]_vars
        => (TypeOK /\ ExtractInv /\ ChunkInv)'
  BY <1>2, TypeOKNext, ExtractInvNext, ChunkInvNext
<1> QED
  BY <1>1, <1>2, <1>3, PTL DEF Spec

LEMMA KeptText == Tiling /\ ChunkInv => ChunksKeepText
<1> SUFFICES ASSUME Tiling, ChunkInv, stage = "done"
             PROVE  ChunkText(chunks) =
                      PageText({p \in 1 .. Bound(PageCount) :
                                  \E e \in entries : e.start <= p})
  BY DEF ChunksKeepText, ChunkText
<1>1. chunks = AllChunks
  <2>1. CASE scenario = "C"
    <3>1. entries = {}
      BY <2>1 DEF Tiling, TypeOK
    <3> QED
      BY <2>1, <3>1, NoChunks DEF ChunkInv
  <2> QED
    BY <2>1 DEF ChunkInv
<1> QED
  BY <1>1, ChunkTextIs

LEMMA KeptBounds == Tiling /\ ChunkInv => ChunksKeepBounds
<1> SUFFICES ASSUME Tiling, ChunkInv
             PROVE  ChunksKeepBounds
  OBVIOUS
<1>1. stage # "failed"
  BY DEF ChunkInv
<1>2. stage \in {"parse", "chunk", "done", "failed", "refused"}
  BY DEF Tiling, TypeOK
<1>3. CASE chunks = <<>>
  BY <1>1, <1>3 DEF ChunksKeepBounds
<1>4. CASE chunks = AllChunks
  <2>1. AreChunks(chunks)
    BY <1>4, AllChunksAre
  <2>2. DOMAIN chunks = 1 .. Len(chunks)
    BY <2>1 DEF AreChunks
  <2>3. ASSUME NEW i \in 1 .. Len(chunks)
        PROVE  /\ Len(chunks[i].words) \in 1 .. MaxChunk
               /\ \A k \in DOMAIN chunks[i].words :
                    chunks[i].words[k][1] \in Covered(chunks[i].section)
               /\ chunks[i].page = chunks[i].words[1][1]
    <3>1. PICK e \in entries : IsChunkOf(chunks[i], e)
      BY <2>1 DEF AreChunks
    <3>2. chunks[i].words \in Seq(Word)
      BY <3>1 DEF IsChunkOf, ChunkSet
    <3> QED
      BY <3>1, <3>2 DEF IsChunkOf
  <2>4. \A i \in 1 .. Len(chunks) :
          i < Len(chunks) /\ chunks[i + 1].section = chunks[i].section
            => Len(chunks[i].words) = MaxChunk
    BY <2>1 DEF AreChunks
  <2> QED
    BY <1>1, <2>2, <2>3, <2>4 DEF ChunksKeepBounds
<1> QED
  BY <1>1, <1>2, <1>3, <1>4 DEF ChunkInv

(* Read in order, the chunks are the text of the pages parsed from where    *)
(* the first section starts to the last page counted, for any file and any  *)
(* maximum: nothing between is lost, repeated or moved (chunk_document,     *)
(* chunk_section).  Pages parsed beyond the count are in no chunk.          *)
THEOREM TextIsKept == Spec => []ChunksKeepText
BY ChunkSpec, KeptText, PTL

(* Chunks are neither empty nor too large, lie in their sections and name   *)
(* the page they start on, and the assertion on their sections never fails  *)
(* an upload (chunk_section, _assert_section_bound).                        *)
THEOREM BoundsAreKept == Spec => []ChunksKeepBounds
BY ChunkSpec, KeptBounds, PTL

=============================================================================
