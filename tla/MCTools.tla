------------------------------- MODULE MCTools -------------------------------
(***************************************************************************)
(* What is answered of a document and of a command: a document's text read *)
(* by the page, its pictures, and `zoteus index`.  They share no state     *)
(* here, so a behaviour exercises one of them and the others stay as they  *)
(* start.                                                                  *)
(***************************************************************************)
EXTENDS Naturals, Sequences

CONSTANTS
  None,
  Reader, Others, Lengths, Cap, Enabled,
  MaxPages, ImageLimits, Masks, PageSizes, PoolPixels, PoolCount, Canvases, Budget, MaxDrawings,
  Libs, Default, Callers, MaxCalls, MaxStarts

VARIABLES
  part,  \* what this behaviour exercises
  doc, ask, pass, ocrQueue, drawQueue, workers, answer,
  canvas, pooled, drawing, pictures, drawings,
  file, server, held, moving, job, state, reach, call, calls, starts, asked, named, restored

\* Spans of a document of three pages, in it, half in it and outside.
Ranges == {<<2, 3>>, <<3, 7>>, <<5, 6>>}

\* Documents of two and three pages of two sizes; of one and two pages of images that
\* repeat, do not decode, are too small or are the masks of a bitmap text.
Drawn(sizes) == [p \in DOMAIN sizes |-> [size |-> sizes[p], images |-> <<>>]]
Drawable == {Drawn(<<2, 1>>), Drawn(<<1, 2, 2>>)}
Images == {"a", "b", "tiny", "broken", "mask"}
SizeOf == [a |-> 2, b |-> 2, mask |-> 1]
Page(images) == [size |-> 1, images |-> images]
Illustrated ==
  LET pages == {<<>>} \cup {<<i>> : i \in Images} \cup {<<i, j>> : i, j \in Images} IN
  {<<Page(p)>> : p \in pages} \cup
  {<<Page(p), Page(q)>> : p \in pages,
     q \in {<<>>, <<"a">>, <<"mask", "mask">>, <<"tiny">>, <<"b", "mask">>}}
Spans == {<<1, 2>>, <<2, 4>>}

Text == INSTANCE TextReading
Pictures == INSTANCE PagePictures WITH
  call <- drawing, answer <- pictures, calls <- drawings, MaxCalls <- MaxDrawings, Sizes <- PageSizes
Line == INSTANCE IndexCommands

textVars == <<doc, ask, pass, ocrQueue, drawQueue, workers, answer>>
pictureVars == <<canvas, pooled, drawing, pictures, drawings>>
commandVars == <<file, server, held, moving, job, state, reach, call, calls, starts, asked, named, restored>>
vars == <<part, textVars, pictureVars, commandVars>>

Init ==
  /\ part \in {"text", "pictures", "command"}
  /\ Text!ReadingInit
  /\ part # "text" => doc.kind = "pdf" /\ doc.index = "none" /\ \A p \in DOMAIN doc.pages : doc.pages[p] = "plain"
  /\ Pictures!PictureInit
  /\ Line!CommandInit /\ server.command
  /\ part # "command" => reach = Libs /\ file[Line!Original].rows = {}

Reads(A) == part = "text" /\ A /\ UNCHANGED <<part, pictureVars, commandVars>>
Commanded(A) == part = "command" /\ A /\ UNCHANGED <<part, textVars, pictureVars>>

Next ==
  \/ part = "text" /\ Text!ReadingNext /\ UNCHANGED <<part, pictureVars, commandVars>>
  \/ part = "pictures" /\ Pictures!PictureNext /\ UNCHANGED <<part, textVars, commandVars>>
  \/ part = "command" /\ Line!CommandNext /\ UNCHANGED <<part, textVars, pictureVars>>

\* The fairness of TextReading and of IndexCommands, each of its part.
Fairness ==
  /\ \A c \in {Reader} \cup Others : WF_textVars(Reads(Text!Step(c)))
  /\ WF_commandVars(Commanded(Line!Calling))
  /\ WF_commandVars(Commanded(Line!Working))

Spec == Init /\ [][Next]_vars /\ Fairness

\* A page's text is answered as it is, a machine's reading only on pages named as such, a
\* passage is cited by the page that carries it, and pages that were not read are named;
\* no picture that was found is left out or doubled unsaid, and no canvas drawn on or in
\* use is handed out (get-fulltext.ts:351, pdf-pages.ts:163, pdf-images.ts:350).
AnswersHonest == Text!TextHonest /\ Pictures!PicturesHonest

\* Every call that reads a document is answered, and a command on an index ends
\* unless it is interrupted twice (ocr-pages.ts:134, cli/index-command.ts:353).
CallsEnd == Text!EveryReadingEnds /\ Line!CommandEnds
=============================================================================
