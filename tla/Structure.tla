------------------------------ MODULE Structure -----------------------------
(***************************************************************************)
(* What becomes of one PDF file before anything is stored: the parser reads *)
(* its pages, leaving out those that fail (ingestion/parser.py), a table of *)
(* contents is taken from the bookmarks, else from headers found by their   *)
(* typography, else there is none (ingestion/toc_extractor.py), and the     *)
(* text of each section is cut into chunks (ingestion/chunker.py).          *)
(***************************************************************************)
EXTENDS Integers, FiniteSets, SequencesExt

CONSTANTS
  Titles,        \* titles of bookmarks and headers
  NoTitle,       \* a page without a header
  MaxPages,      \* bound on the pages of a file
  MaxBookmarks,  \* bound on the bookmarks of a file
  MaxRefined,    \* bound on the entries a refiner returns
  PageWords,     \* numbers of words a page with text may have
  MaxChunk       \* MAX_CHUNK_TOKENS

ASSUME StructureAssumption ==
  /\ NoTitle \notin Titles
  /\ MaxPages \in Nat \ {0}
  /\ MaxBookmarks \in Nat
  /\ MaxRefined \in Nat
  /\ PageWords \subseteq Nat \ {0}
  /\ MaxChunk \in Nat \ {0}

VARIABLES
  pdf,       \* the file: its pages and its bookmarks
  at,        \* the page the parser is at
  parsed,    \* the pages parsed: their numbers, in order
  entries,   \* the table of contents
  scenario,  \* how it was found: "A", "B" or "C"
  chunks,    \* the chunks, in order
  stage      \* what happens next

vars == <<pdf, at, parsed, entries, scenario, chunks, stage>>

(* A page has its text, here the number of its words, and the first of its  *)
(* blocks that its font makes a header. A bookmark points at any page, also *)
(* outside the file (0 and -1 are what an unresolved link gives).           *)
PageSet ==
  [words: {0}, header: {NoTitle}] \cup
  [words: PageWords, header: Titles \cup {NoTitle}]
Anchors == [title: Titles, page: 0 .. MaxPages + 1]
Files == [pages: BoundedSeq(PageSet, MaxPages) \ {<<>>},
          bookmarks: BoundedSeq(Anchors, MaxBookmarks)]

(* Sections of the table of contents: a title and the pages from start to   *)
(* end.                                                                     *)
Entries == [title: Titles, start: 1 .. MaxPages, end: 1 .. MaxPages]

Init ==
  /\ pdf \in Files
  /\ at = 1
  /\ parsed = <<>>
  /\ entries = {}
  /\ scenario = "none"
  /\ chunks = <<>>
  /\ stage = "parse"

----------------------------------------------------------------------------
(* The parser.                                                              *)

ParsePage ==
  /\ stage = "parse"
  /\ at <= Len(pdf.pages)
  /\ parsed' = Append(parsed, at)
  /\ at' = at + 1
  /\ UNCHANGED <<pdf, entries, scenario, chunks, stage>>

(* A page that raises is logged and left out; the others keep their numbers.*)
SkipPage ==
  /\ stage = "parse"
  /\ at <= Len(pdf.pages)
  /\ at' = at + 1
  /\ UNCHANGED <<pdf, parsed, entries, scenario, chunks, stage>>

(* The file is too large or encrypted, a page raises what is not caught, or *)
(* the bookmarks cannot be read.                                            *)
Unparsable ==
  /\ stage = "parse"
  /\ stage' = "refused"
  /\ UNCHANGED <<pdf, at, parsed, entries, scenario, chunks>>

(* page_count is the number of the pages that parsed.                       *)
PageCount == Len(parsed)

----------------------------------------------------------------------------
(* Page ranges: raw gives anchors, in the order they were found, and count  *)
(* is the number of pages.                                                  *)

Bound(count) == IF count < 1 THEN 1 ELSE count

(* Faulty: a page is not clamped from below.                                *)
ClampedAbove(page, last) == IF page > last THEN last ELSE page

Clamp(page, last) == IF page < 1 THEN 1 ELSE IF page > last THEN last ELSE page

AnchorsAt(raw, last, s) == {i \in DOMAIN raw : Clamp(raw[i].page, last) = s}
Starts(raw, last) == {Clamp(raw[i].page, last) : i \in DOMAIN raw}

(* Faulty: a section ends on the page where the next one starts.            *)
SharedEnd(starts, last, s) ==
  LET later == {t \in starts : t > s}
  IN IF later = {} THEN last ELSE Min(later)

(* Where the section that starts at page s ends.                            *)
PageEnd(starts, last, s) ==
  LET later == {t \in starts : t > s}
  IN IF later = {} THEN last ELSE Min(later) - 1

(* Sorted by page, and the first of those on the same page is kept.         *)
Section(raw, last, s) ==
  [title |-> raw[Min(AnchorsAt(raw, last, s))].title,
   start |-> s,
   end   |-> PageEnd(Starts(raw, last), last, s)]

IsDegenerate(raw, last) ==
  /\ \A s, t \in Starts(raw, last) : s = t
  /\ \E i, j \in DOMAIN raw : raw[i].title # raw[j].title

(* Faulty: without the sort, an entry that does not start after all those   *)
(* before it is dropped.                                                    *)
UnsortedRanges(raw, count) ==
  LET last == Bound(count)
      kept == {i \in DOMAIN raw : \A j \in {k \in DOMAIN raw : k < i} :
                 Clamp(raw[j].page, last) < Clamp(raw[i].page, last)}
      starts == {Clamp(raw[i].page, last) : i \in kept}
  IN IF IsDegenerate(raw, last) THEN {}
     ELSE {[Section(raw, last, s) EXCEPT !.end = PageEnd(starts, last, s)] :
             s \in starts}

PageRanges(raw, count) ==
  LET last == Bound(count)
  IN IF IsDegenerate(raw, last) THEN {}
     ELSE {Section(raw, last, s) : s \in Starts(raw, last)}

----------------------------------------------------------------------------
(* The table of contents.                                                   *)

Extracting == stage = "parse" /\ at > Len(pdf.pages)

Native == PageRanges(pdf.bookmarks, PageCount)

(* The first header of every page that parsed and has one.                  *)
Headers ==
  [i \in {k \in DOMAIN parsed : pdf.pages[parsed[k]].header # NoTitle} |->
     [title |-> pdf.pages[parsed[i]].header, page |-> parsed[i]]]
Heuristic == PageRanges(Headers, PageCount)

Extracted(found, how) ==
  /\ entries' = found
  /\ scenario' = how
  /\ stage' = IF how = "C" THEN "done" ELSE "chunk"
  /\ UNCHANGED <<pdf, at, parsed, chunks>>

ExtractNative ==
  /\ Extracting
  /\ Native # {}
  /\ Extracted(Native, "A")

(* Bookmarks that give no section count as no bookmarks.                    *)
DetectHeaders ==
  /\ Extracting
  /\ Native = {} /\ Heuristic # {}
  /\ Extracted(Heuristic, "B")

(* A refiner, if one is injected, returns any entries; only their titles    *)
(* and start pages are used.                                                *)
Refinements == BoundedSeq(Anchors, MaxRefined)

Refine ==
  /\ Extracting
  /\ Native = {} /\ Heuristic # {}
  /\ \E refined \in Refinements :
       LET again == PageRanges(refined, PageCount)
       IN Extracted(again, IF again = {} THEN "C" ELSE "B")

NoStructure ==
  /\ Extracting
  /\ Native = {} /\ Heuristic = {}
  /\ Extracted({}, "C")

----------------------------------------------------------------------------
(* The chunker. A word is named by its page and its place on it.            *)

WordsOf(p) == [k \in 1 .. pdf.pages[p].words |-> <<p, k>>]

(* The text of those of some pages that parsed.                             *)
PageText(numbers) ==
  FlattenSeq([i \in DOMAIN parsed |->
                IF parsed[i] \in numbers THEN WordsOf(parsed[i]) ELSE <<>>])

(* Faulty: a section's text goes on to the page after its end.              *)
OverlongText(e) == PageText(e.start .. e.end + 1)

SectionText(e) == PageText(e.start .. e.end)

(* Chunk number k of a text, counted from 0, and all chunks of a section.   *)
Window(text, k) ==
  SubSeq(text, k * MaxChunk + 1,
         IF (k + 1) * MaxChunk < Len(text) THEN (k + 1) * MaxChunk
         ELSE Len(text))

Chunk(e, words) == [section |-> e, page |-> words[1][1], words |-> words]

(* Faulty: a remainder smaller than a chunk is not emitted.                 *)
WholeChunks(e) ==
  LET text == SectionText(e)
  IN [n \in 1 .. Len(text) \div MaxChunk |-> Chunk(e, Window(text, n - 1))]

SectionChunks(e) ==
  LET text == SectionText(e)
  IN [n \in 1 .. (Len(text) + MaxChunk - 1) \div MaxChunk |->
        Chunk(e, Window(text, n - 1))]

InOrder ==
  CHOOSE s \in [1 .. Cardinality(entries) -> entries] :
    \A i, j \in DOMAIN s : i < j => s[i].start < s[j].start
AllChunks == FlattenSeq([i \in DOMAIN InOrder |-> SectionChunks(InOrder[i])])

(* _assert_section_bound                                                    *)
SectionBound(c) == c.section.start <= c.page /\ c.page <= c.section.end

ChunkDocument ==
  /\ stage = "chunk"
  /\ IF \A i \in DOMAIN AllChunks : SectionBound(AllChunks[i])
     THEN chunks' = AllChunks /\ stage' = "done"
     ELSE stage' = "failed" /\ UNCHANGED chunks
  /\ UNCHANGED <<pdf, at, parsed, entries, scenario>>

Next ==
  \/ ParsePage \/ SkipPage \/ Unparsable
  \/ ExtractNative \/ DetectHeaders \/ Refine \/ NoStructure
  \/ ChunkDocument

Spec == Init /\ [][Next]_vars
----------------------------------------------------------------------------
(* Properties.                                                              *)

(* Every variable has its type, and the pages parsed are numbers of pages   *)
(* of the file, in order (PyMuPDFParser.parse).                             *)
TypeOK ==
  /\ pdf \in Files
  /\ at \in 1 .. Len(pdf.pages) + 1
  /\ parsed \in Seq(1 .. at - 1) /\ Len(parsed) < at
  /\ \A i, j \in DOMAIN parsed : i < j => parsed[i] < parsed[j]
  /\ entries \subseteq Entries
  /\ scenario \in {"none", "A", "B", "C"}
  /\ entries = {} <=> scenario \in {"none", "C"}
  /\ stage \in {"parse", "chunk", "done", "failed", "refused"}

(* Sections never overlap and leave no page between them: from where the    *)
(* first one starts to the last page counted, every page is in exactly one, *)
(* and no range is empty or leaves the pages counted, which the columns'    *)
(* CHECK constraints would refuse (_derive_page_ranges).                    *)
Covered(e) == e.start .. e.end
Tiles(sections, last) ==
  /\ \A e \in sections : 1 <= e.start /\ e.start <= e.end /\ e.end <= last
  /\ \A e, f \in sections : e # f => Covered(e) \cap Covered(f) = {}
  /\ \A e \in sections : \A p \in e.start .. last :
       \E f \in sections : p \in Covered(f)

RangesTile == Tiles(entries, Bound(PageCount))

(* Bookmarks that name two of the pages counted give a table of contents,   *)
(* in whatever order they are listed: with their pages clamped to the count *)
(* of the pages that parsed, each of these pages starts a section that has  *)
(* the title of the first bookmark there, and headers are looked for only   *)
(* if all bookmarks fall on one page (extract_toc).                         *)
BookmarksHeard ==
  LET last == Bound(PageCount)
      first(i) == \A j \in 1 .. i - 1 :
                    Clamp(pdf.bookmarks[j].page, last)
                      # Clamp(pdf.bookmarks[i].page, last)
      sections == {[title |-> pdf.bookmarks[i].title,
                    start |-> Clamp(pdf.bookmarks[i].page, last)] :
                     i \in {j \in DOMAIN pdf.bookmarks : first(j)}}
  IN stage \in {"chunk", "done", "failed"} =>
       CASE scenario = "A" ->
              sections = {[title |-> e.title, start |-> e.start] : e \in entries}
         [] OTHER -> \A s, t \in sections : s = t

(* The text of the chunks, read in order, is the text of the pages parsed,  *)
(* in order, from where the first section starts to the last page counted:  *)
(* nothing between is lost, repeated or moved (chunk_document).             *)
ChunksKeepText ==
  stage = "done" =>
    FlattenSeq([i \in DOMAIN chunks |-> chunks[i].words]) =
      PageText({p \in 1 .. Bound(PageCount) : \E e \in entries : e.start <= p})

(* A chunk is never empty nor larger than the maximum, all of its text, not *)
(* only its first word, is of its own section, its page is where its text   *)
(* starts, and only the last chunk of a section is short (chunk_section);   *)
(* so the check for a chunk out of its section never fails an upload        *)
(* (_assert_section_bound).                                                 *)
ChunksKeepBounds ==
  /\ stage # "failed"
  /\ \A i \in DOMAIN chunks :
       LET c == chunks[i]
       IN /\ Len(c.words) \in 1 .. MaxChunk
          /\ \A k \in DOMAIN c.words : c.words[k][1] \in Covered(c.section)
          /\ c.page = c.words[1][1]
          /\ i < Len(chunks) /\ chunks[i + 1].section = c.section
               => Len(c.words) = MaxChunk

(* What the code says of an entry it drops for starting where another does: *)
(* "The shared page's content is still chunked under the surviving sibling  *)
(* that spans it, so dropping loses no content" (_derive_page_ranges,       *)
(* ingestion/toc_extractor.py:175-177). Here, of headers: the page of a     *)
(* dropped one is in some chunk.                                            *)
DroppingLosesNothing ==
  scenario = "B" /\ stage = "done" =>
    \A i, j \in DOMAIN Headers :
      LET last == Bound(PageCount)
      IN i < j /\ Clamp(Headers[i].page, last) = Clamp(Headers[j].page, last)
         => \E c \in ToSet(chunks) :
              Headers[j].page \in {w[1] : w \in ToSet(c.words)}

=============================================================================
