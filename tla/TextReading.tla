----------------------------- MODULE TextReading -----------------------------
(***************************************************************************)
(* One attachment read for its text (tools/get-fulltext.ts): Zotero's      *)
(* index, the PDF's text layer, and OCR of the pages that have none        *)
(* (features/ocr/).  An OCR pass runs under a gate of its own and draws    *)
(* its pages under the gate of features/fulltext/pdf-images.ts, which is   *)
(* not reentrant and which the picture tool queues for as well.            *)
(*                                                                         *)
(* Text is a sequence of words: page p has the word p and may open with    *)
(* the running head 0; OCR reads the word Machine(p) off its picture.      *)
(***************************************************************************)
EXTENDS Integers, SequencesExt

CONSTANTS
  Reader,      \* the call whose answer is followed
  Others,      \* calls on other documents: they only compete for the gates
  Lengths,     \* pages a document may have
  Ranges,      \* page_range spans that may be asked for, <<from, to>>
  Cap,         \* pages one call may OCR
  Enabled,     \* OCR is switched on
  None

VARIABLES
  doc,         \* the attachment: kind, pages and what Zotero's index holds of it
  ask,         \* what the reader asked
  pass,        \* per call: its OCR pass, or its wait to draw
  ocrQueue,    \* gate of ocr-pages.ts: who is in, then who waits
  drawQueue,   \* gate of pdf-images.ts
  workers,     \* calls whose engine is up
  answer

readingVars == <<doc, ask, pass, ocrQueue, drawQueue, workers, answer>>

Calls == {Reader} \cup Others
Sep == -1
Junk == -2
Machine(p) == 100 + p
NoPass == [at |-> "idle", todo |-> <<>>, deferred |-> <<>>, read |-> {}, timedOut |-> {}]

\* A page: no text and nothing to see, a picture of text, a text layer, one with the head.
Kinds == {"empty", "picture", "plain", "headed"}
Layer(p) == CASE doc.pages[p] = "plain" -> <<p>>
              [] doc.pages[p] = "headed" -> <<0, p>>
              [] OTHER -> <<>>
Recognised(p) == IF doc.pages[p] = "empty" THEN <<>> ELSE <<Machine(p)>>
FileKinds == {"pdf", "epub", "unknown"}

\* What extractPdfPages gives of a PDF that parses.
Extracted == [p \in DOMAIN doc.pages |-> Layer(p)]

ReadingInit ==
  /\ \E n \in Lengths : doc \in [kind : FileKinds, pages : [1..n -> Kinds],
                               index : {"none", "junk", "text"}]
  /\ ask = None /\ answer = None
  /\ pass = [c \in Calls |-> NoPass]
  /\ ocrQueue = <<>> /\ drawQueue = <<>> /\ workers = {}

------------------------------------------------------------------------------
(* Pages and offsets (fulltext/pdf-pages.ts).                              *)

Blank(pages) == {p \in DOMAIN pages : pages[p] = <<>>}
AllBlank(pages) == Blank(pages) = DOMAIN pages

\* pdfPagesToText.
Joined(pages) == FlattenSeq([p \in DOMAIN pages |-> IF p = 1 THEN pages[p] ELSE <<Sep>> \o pages[p]])

\* The first character after page p, in the joined text.
End(pages, p) == Len(Joined(SubSeq(pages, 1, p)))

\* Seeded fault: a page without text may be the answer.
PageAtOffset_Blank(pages, o) ==
  LET over == {p \in DOMAIN pages : o < End(pages, p)}
  IN  IF over = {} THEN None ELSE CHOOSE p \in over : \A q \in over : p <= q

\* The page that holds character o (from 0) of the joined text; never one without text.
PageAtOffset(pages, o) ==
  LET over == {p \in DOMAIN pages \ Blank(pages) : o < End(pages, p)}
  IN  IF over = {} THEN None ELSE CHOOSE p \in over : \A q \in over : p <= q

Window(q, i, n) == SubSeq(q, i, IF i + n - 1 < Len(q) THEN i + n - 1 ELSE Len(q))
Carrying(pages, words) ==
  {p \in DOMAIN pages : \E i \in DOMAIN pages[p] : Window(pages[p], i, Len(words)) = words}
Gap(p, q) == IF p < q THEN q - p ELSE p - q
Nearest(S, near) == CHOOSE p \in S : \A q \in S : Gap(p, near) < Gap(q, near) \/ (Gap(p, near) = Gap(q, near) /\ p <= q)

\* Seeded fault: the first page that carries the head is the page.
LocatePage_First(pages, words, near) ==
  LET found == Carrying(pages, SubSeq(words, 1, 1)) IN IF found = {} THEN None ELSE Min(found)

\* The page that carries the passage's head, or a longer head of it when several do; of
\* several still, the one nearest the estimate.
LocatePage(pages, words, near) ==
  LET narrow == Carrying(pages, SubSeq(words, 1, 1))
      wide == IF Len(words) > 1 THEN Carrying(pages, words) ELSE {}
      left == IF Cardinality(narrow) > 1 /\ wide # {} THEN wide ELSE narrow
  IN  IF left = {} THEN None
      ELSE IF Cardinality(left) = 1 THEN CHOOSE p \in left : TRUE
      ELSE IF near = None THEN None ELSE Nearest(left, near)

\* approxPage: in proportion, for what could not be located.
Estimate(o, chars, pages) == IF pages = 0 \/ chars = 0 THEN None ELSE ((o + 1) * pages + chars - 1) \div chars

\* The exact page a passage from character o of an answer is given, if any.
Cited(a, o) ==
  IF a.joined THEN PageAtOffset(a.pages, o)
  ELSE LocatePage(a.pages, Window(a.content, o + 1, 2), Estimate(o, Len(a.content), IF doc.index = "text" THEN Len(doc.pages) ELSE 0))

------------------------------------------------------------------------------
(* The file and what to make of it.                                        *)

\* fetchAttachmentBytes: the desktop app, the storage folder, the cloud, in that order.  A
\* size on record that is over the limit, or a local copy over it, ends the search.
Fetched(recorded, desktop, disk, cloud) ==
  IF recorded = "large" THEN "large"
  ELSE IF desktop = "bytes" THEN "bytes"
  ELSE IF disk \in {"bytes", "large"} THEN disk
  ELSE IF cloud = "bytes" THEN "bytes" ELSE "none"

Sizes == {"small", "large"}
Files == {Fetched(recorded, desktop, disk, cloud) :
            recorded \in Sizes, desktop \in {"bytes", "none"}, disk \in {"bytes", "large", "none"}, cloud \in {"bytes", "none"}}

IndexText == CASE doc.index = "none" -> <<>>
               [] doc.index = "junk" -> <<Junk>>
               [] OTHER -> FlattenSeq(Extracted)
Indexed == IndexText # <<>>

Failed == [ok |-> FALSE]
Text(source, content, pages, joined, ocrPages, unread) ==
  [ok |-> TRUE, source |-> source, content |-> content, pages |-> pages, joined |-> joined,
   ocrPages |-> ocrPages, unread |-> unread]

\* The answer when OCR does not run, for the pages extracted: pages that are all empty are
\* not exact pages, and without an index there is nothing else to return.
Plain(pages, unread) ==
  IF Indexed THEN Text("zotero", IndexText, IF pages = None \/ AllBlank(pages) THEN None ELSE pages, FALSE, {}, unread)
  ELSE IF AllBlank(pages) THEN Failed
  ELSE Text("pdf", Joined(pages), pages, TRUE, {}, unread)

\* Seeded fault: the text stays Zotero's, the pages are those OCR read.
Read_KeepsIndex(pages, machine, read, unread) ==
  LET merged == [p \in DOMAIN pages |-> IF pages[p] # <<>> THEN pages[p] ELSE machine[p]]
  IN  IF ~AllBlank(pages) /\ read = {} THEN Plain(pages, unread)
      ELSE Text(IF AllBlank(pages) THEN "ocr" ELSE "pdf+ocr", IF Indexed THEN IndexText ELSE Joined(merged),
                merged, TRUE, read, unread)

\* The answer after a pass that read these pages: each page's own text where it has some.
\* The text comes with the pages, whatever Zotero's index held.
Read(pages, machine, read, unread) ==
  LET merged == [p \in DOMAIN pages |-> IF pages[p] # <<>> THEN pages[p] ELSE machine[p]]
  IN  IF ~AllBlank(pages) /\ read = {} THEN Plain(pages, unread)
      ELSE Text(IF AllBlank(pages) THEN "ocr" ELSE "pdf+ocr", Joined(merged), merged, TRUE, read, unread)

\* ocrPageSelection: the span asked for inside the document, else all of it.
Selection(range) ==
  LET n == Len(doc.pages)
      from == IF range = None THEN 1 ELSE range[1]
      to == IF range = None \/ range[2] > n THEN n ELSE range[2]
  IN  [k \in 1..(IF from > to THEN 0 ELSE to - from + 1) |-> from + k - 1]

\* Seeded fault: every selected page is read, whether it has a text layer or not.
Candidates_All(range) == Selection(range)

\* readMixedScan: of them, the pages that carry no text.  Of a scan that is all of them.
Candidates(range) == SelectSeq(Selection(range), LAMBDA p : p \in Blank(Extracted))

------------------------------------------------------------------------------
(* The call.                                                               *)

Idle(c) == pass[c].at = "idle"

Enqueue(c, wanted) ==
  /\ ocrQueue' = Append(ocrQueue, c)
  /\ pass' = [pass EXCEPT ![c] = [at |-> "queued", todo |-> SubSeq(wanted, 1, IF Len(wanted) < Cap THEN Len(wanted) ELSE Cap),
                                  deferred |-> SubSeq(wanted, Cap + 1, Len(wanted)), read |-> {}, timedOut |-> {}]]

\* OCR is tried: asked for, on, and there is a page for it.
Tries(range, ocr) == ocr /\ Enabled /\ ~(Blank(Extracted) = {}) /\ Candidates(range) # <<>>

Answered(a) == answer' = a /\ UNCHANGED <<ocrQueue, pass>>

\* With the index: the file is opened only for exact pages.
AskIndexed(range, ocr, precise, file) ==
  IF precise /\ file = "bytes" /\ doc.kind = "pdf"
  THEN IF Tries(range, ocr) THEN Enqueue(Reader, Candidates(range)) /\ answer' = None
       ELSE Answered(Plain(Extracted, {}))
  ELSE Answered(Plain(None, {}))

AskFile(range, ocr, fallback, file) ==
  IF ~fallback \/ file # "bytes" \/ doc.kind = "unknown" THEN Answered(Failed)
  ELSE IF doc.kind = "epub" THEN Answered(Text("epub", <<Junk>>, None, FALSE, {}, {}))
  ELSE IF Tries(range, ocr) THEN Enqueue(Reader, Candidates(range)) /\ answer' = None
  ELSE Answered(Plain(Extracted, {}))

\* precise_pages defaults to what page_range and ocr imply.  Nothing of one reading is left
\* for the next, so one is followed.
Ask ==
  /\ Idle(Reader) /\ ask = None
  /\ \E range \in Ranges \cup {None}, ocr, fallback \in BOOLEAN, precise \in BOOLEAN \cup {None}, file \in Files :
         LET exact == IF precise = None THEN range # None \/ ocr ELSE precise
         IN  /\ ask' = [range |-> range, ocr |-> ocr]
             /\ IF Indexed THEN AskIndexed(range, ocr, exact, file) ELSE AskFile(range, ocr, fallback, file)
  /\ UNCHANGED <<doc, drawQueue, workers>>

\* Calls on other documents: a pass over one page, or pictures of one.
OtherAsks(c) ==
  /\ c \in Others /\ Idle(c)
  /\ \/ Enqueue(c, <<1>>) /\ UNCHANGED drawQueue
     \/ /\ drawQueue' = Append(drawQueue, c)
        /\ pass' = [pass EXCEPT ![c].at = "pictures"]
        /\ UNCHANGED ocrQueue
  /\ UNCHANGED <<doc, ask, workers, answer>>

------------------------------------------------------------------------------
(* The pass (ocrPdfPages).                                                 *)

In(queue, c) == queue # <<>> /\ Head(queue) = c

\* Seeded fault: the pass holds the drawing gate when it asks renderPdfPages to draw.
EnterPass_Reentrant(c) ==
  /\ pass[c].at = "queued" /\ In(ocrQueue, c)
  /\ pass' = [pass EXCEPT ![c].at = "drawing"]
  /\ drawQueue' = drawQueue \o <<<<"pass", c>>, c>>
  /\ UNCHANGED <<doc, ask, ocrQueue, workers, answer>>

\* The pass has its gate; drawing the pages waits for the other one.
EnterPass(c) ==
  /\ pass[c].at = "queued" /\ In(ocrQueue, c)
  /\ pass' = [pass EXCEPT ![c].at = "drawing"]
  /\ drawQueue' = Append(drawQueue, c)
  /\ UNCHANGED <<doc, ask, ocrQueue, workers, answer>>

DrawPictures(c) ==
  /\ pass[c].at = "pictures" /\ In(drawQueue, c)
  /\ drawQueue' = Tail(drawQueue) /\ pass' = [pass EXCEPT ![c] = NoPass]
  /\ UNCHANGED <<doc, ask, ocrQueue, workers, answer>>

\* A pass that ends, with the reader's answer; its gate is given up whatever happened.
Leaves(c, a) ==
  /\ ocrQueue' = Tail(ocrQueue) /\ pass' = [pass EXCEPT ![c] = NoPass]
  /\ answer' = IF c = Reader THEN a ELSE answer
  /\ UNCHANGED <<doc, ask>>

\* The pages are drawn, or the document cannot be.
Drawn(c) ==
  /\ pass[c].at = "drawing" /\ In(drawQueue, c)
  /\ drawQueue' = Tail(drawQueue)
  /\ \/ pass' = [pass EXCEPT ![c].at = "starting"] /\ UNCHANGED <<doc, ask, ocrQueue, answer>>
     \/ Leaves(c, Plain(Extracted, {}))
  /\ UNCHANGED workers

\* loadOcrEngine, which no deadline covers.
EngineStarts(c) ==
  /\ pass[c].at = "starting"
  /\ \/ /\ pass' = [pass EXCEPT ![c].at = "reading"] /\ workers' = workers \cup {c}
        /\ UNCHANGED <<doc, ask, ocrQueue, answer>>
     \/ Leaves(c, Plain(Extracted, {})) /\ UNCHANGED workers
  /\ UNCHANGED drawQueue

\* readPage: a page that will not read is read as no text.
ReadPage(c) ==
  /\ pass[c].at = "reading" /\ pass[c].todo # <<>>
  /\ pass' = [pass EXCEPT ![c].todo = Tail(@), ![c].read = @ \cup {Head(pass[c].todo)}]
  /\ UNCHANGED <<doc, ask, ocrQueue, drawQueue, workers, answer>>

\* A worker that will not answer for the page it is on.
Hangs(c) ==
  /\ pass[c].at = "reading" /\ pass[c].todo # <<>>
  /\ pass' = [pass EXCEPT ![c].at = "hung"]
  /\ UNCHANGED <<doc, ask, ocrQueue, drawQueue, workers, answer>>

\* Seeded fault: the pages behind the one that hung are forgotten.
TimesOut_Forgets(c) ==
  /\ pass[c].at = "hung"
  /\ pass' = [pass EXCEPT ![c].at = "stopped", ![c].timedOut = {Head(pass[c].todo)}, ![c].todo = <<>>]
  /\ workers' = workers \ {c}
  /\ UNCHANGED <<doc, ask, ocrQueue, drawQueue, answer>>

\* After OCR_PAGE_TIMEOUT_MS the worker is closed and the rest is left for a later call.
TimesOut(c) ==
  /\ pass[c].at = "hung"
  /\ pass' = [pass EXCEPT ![c].at = "stopped", ![c].timedOut = {Head(pass[c].todo)}, ![c].todo = <<>>,
                          ![c].deferred = Tail(pass[c].todo) \o @]
  /\ workers' = workers \ {c}
  /\ UNCHANGED <<doc, ask, ocrQueue, drawQueue, answer>>

\* The pass is over: the worker is closed, the gate given up, the answer put together.
Ends(c) ==
  /\ pass[c].at = "stopped" \/ (pass[c].at = "reading" /\ pass[c].todo = <<>>)
  /\ workers' = workers \ {c}
  /\ LET machine == [p \in DOMAIN doc.pages |-> IF p \in pass[c].read THEN Recognised(p) ELSE <<>>]
     IN  Leaves(c, Read(Extracted, machine, pass[c].read, pass[c].timedOut \cup Range(pass[c].deferred)))
  /\ UNCHANGED drawQueue

Step(c) ==
  \/ EnterPass(c) \/ DrawPictures(c) \/ Drawn(c) \/ EngineStarts(c)
  \/ ReadPage(c) \/ Hangs(c) \/ TimesOut(c) \/ Ends(c)

ReadingNext == Ask \/ \E c \in Calls : OtherAsks(c) \/ Step(c)

ReadingFairness == \A c \in Calls : WF_readingVars(Step(c))

------------------------------------------------------------------------------
(* Properties.                                                             *)

TextAnswer == answer # None /\ answer.ok
Exact == TextAnswer /\ answer.pages # None

\* A page that has a text layer is answered with it and with nothing else, a machine's
\* reading only stands on pages named as OCR's, and only an answer labelled so has any
\* (get-fulltext.ts:351, :606, :684).
MachineTextNamed ==
  TextAnswer =>
    /\ \A k \in DOMAIN answer.content : answer.content[k] > 100 =>
          answer.source \in {"ocr", "pdf+ocr"} /\ answer.content[k] - 100 \in answer.ocrPages
    /\ answer.ocrPages \subseteq Blank(Extracted)
    /\ answer.pages # None => \A p \in DOMAIN doc.pages : Layer(p) # <<>> => answer.pages[p] = Layer(p)

\* The page cited for a passage carries the word the passage opens with, and is the one page
\* that carries the passage if one does.  When the text is the pages joined it is the page the passage was cut from, and a page with no text is
\* never cited (pdf-pages.ts:163, get-fulltext.ts:783).
CitationsHold ==
  Exact => \A o \in 0..(Len(answer.content) - 1) :
    LET p == Cited(answer, o)
        word == answer.content[o + 1]
    IN  /\ p # None => answer.pages[p] # <<>>
        /\ word # Sep /\ p # None => word \in Range(answer.pages[p])
        /\ word # Sep /\ ~answer.joined =>
             \A q \in DOMAIN answer.pages : Carrying(answer.pages, Window(answer.content, o + 1, 2)) = {q} => p = q
        /\ word \notin {Sep, 0, Junk} /\ answer.joined => p = IF word > 100 THEN word - 100 ELSE word

\* After a pass every page without text that was asked for is read or named as not read
\* (ocr-pages.ts:241, get-fulltext.ts:200).
PagesAccounted ==
  TextAnswer /\ (answer.ocrPages # {} \/ answer.unread # {}) =>
    \A k \in DOMAIN Candidates(ask.range) : Candidates(ask.range)[k] \in answer.ocrPages \cup answer.unread

\* One engine at a time, of the call that holds the gate (ocr-pages.ts:141).
OneEngine == Cardinality(workers) <= 1 /\ \A c \in workers : In(ocrQueue, c)

TextHonest == MachineTextNamed /\ CitationsHold /\ PagesAccounted /\ OneEngine

\* Every call is answered, whatever pages hang and whoever else draws (ocr-pages.ts:134).
EveryReadingEnds == \A c \in Calls : ~Idle(c) ~> Idle(c)

ReadingSpec == ReadingInit /\ [][ReadingNext]_readingVars /\ ReadingFairness
=============================================================================
