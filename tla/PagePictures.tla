---------------------------- MODULE PagePictures ----------------------------
(***************************************************************************)
(* Pages of a PDF drawn, and the figures in them taken out (tools/         *)
(* pdf-images.ts over features/fulltext/pdf-images.ts): the pages a call   *)
(* takes, what becomes of every image on them, and the pool of canvases    *)
(* that pdf.js is handed and that outlives every call.                     *)
(*                                                                         *)
(* One call draws at a time: they queue for the gate TextReading has.      *)
(***************************************************************************)
EXTENDS Integers, SequencesExt

CONSTANTS
  Drawable,     \* documents whose pages are drawn: of each page its size and its images
  Illustrated,  \* documents whose figures are taken out: the same
  Spans,        \* `pages` that may be asked for, <<from, to>>
  MaxPages,     \* pages a call takes
  ImageLimits,  \* max_images
  Masks,        \* stencil masks that make a page bitmap text
  Sizes,        \* of canvases, in pixels
  SizeOf,       \* of each image that can be listed
  PoolPixels, PoolCount,
  Canvases,     \* canvases there can be at once
  Budget,       \* of inline image data
  MaxCalls, None

VARIABLES
  canvas,   \* of each canvas: where it is, its size, and whether it was drawn on
  pooled,   \* what the pool's counters say
  call,     \* the call that has the gate
  answer,   \* what the last one returned
  calls

pictureVars == <<canvas, pooled, call, answer, calls>>

NoCanvas == [at |-> "gone", size |-> 0, clean |-> TRUE]
Pool == {c \in Canvases : canvas[c].at = "pool"}
InUse == {c \in Canvases : canvas[c].at \in {"page", "scratch"}}

PictureInit ==
  /\ canvas = [c \in Canvases |-> NoCanvas]
  /\ pooled = [pixels |-> 0, count |-> 0]
  /\ call = None /\ answer = None /\ calls = 0

------------------------------------------------------------------------------
(* The pool.  pdf.js creates, resizes and destroys through it.             *)

\* Seeded fault: a canvas goes back as it was drawn on.
Given_Dirty(canvases, counters, c) ==
  LET size == canvases[c].size
      fits == counters.pixels + size <= PoolPixels /\ counters.count < PoolCount
  IN  IF fits THEN [canvas |-> [canvases EXCEPT ![c].at = "pool"],
                    pooled |-> [pixels |-> counters.pixels + size, count |-> counters.count + 1]]
      ELSE [canvas |-> [canvases EXCEPT ![c] = NoCanvas], pooled |-> counters]

\* poolGive: kept, wiped, if there is room in pixels and in number; else dropped.
Given(canvases, counters, c) ==
  LET size == canvases[c].size
      fits == counters.pixels + size <= PoolPixels /\ counters.count < PoolCount
  IN  IF fits THEN [canvas |-> [canvases EXCEPT ![c] = [at |-> "pool", size |-> size, clean |-> TRUE]],
                    pooled |-> [pixels |-> counters.pixels + size, count |-> counters.count + 1]]
      ELSE [canvas |-> [canvases EXCEPT ![c] = NoCanvas], pooled |-> counters]

\* Seeded fault: the counters forget to count down.
Taken_Uncounted(canvases, counters, c, size, for) ==
  [canvas |-> [canvases EXCEPT ![c] = [at |-> for, size |-> size, clean |-> FALSE]], pooled |-> counters]

\* poolTake, or a new canvas: the one handed out, which is then drawn on.
Taken(canvases, counters, c, size, for) ==
  [canvas |-> [canvases EXCEPT ![c] = [at |-> for, size |-> size, clean |-> FALSE]],
   pooled |-> IF canvases[c].at = "pool"
              THEN [pixels |-> counters.pixels - size, count |-> counters.count - 1] ELSE counters]

\* What create hands out: one of that size from the pool if there is one.
Handed(canvases, size) ==
  LET kept == {c \in Canvases : canvases[c].at = "pool" /\ canvases[c].size = size}
      new == {c \in Canvases : canvases[c].at = "gone"}
  IN  IF kept # {} THEN {Min(kept)} ELSE IF new # {} THEN {Min(new)} ELSE {}

Into(result) == canvas' = result.canvas /\ pooled' = result.pooled

Create(size, for) == \E c \in Handed(canvas, size) : Into(Taken(canvas, pooled, c, size, for))
Destroy(c) == Into(Given(canvas, pooled, c))

\* reset, to another size: the old canvas is given back before the new one is taken.
Resize(c, size) ==
  LET given == Given(canvas, pooled, c)
  IN  \E d \in Handed(given.canvas, size) : Into(Taken(given.canvas, given.pooled, d, size, canvas[c].at))

------------------------------------------------------------------------------
(* A call.                                                                 *)

\* selectPages: the span, cut at max_pages; what was cut is named.
Selected(span) == [k \in 1..(IF span[2] - span[1] < MaxPages THEN span[2] - span[1] + 1 ELSE MaxPages) |-> span[1] + k - 1]
Deferred(span) == {p \in span[1]..span[2] : p > span[1] + MaxPages - 1}

\* The pages of the selection that exist, as splitPages has them.
Wanted(span, document) == SelectSeq(Selected(span), LAMBDA p : p <= Len(document))
Missing(span, document) == {p \in Range(Selected(span)) : p > Len(document)}

Nothing == [images |-> <<>>, tiny |-> 0, duplicate |-> 0, undecodable |-> 0, without |-> {}, bitmap |-> {}, truncated |-> FALSE]

Opens(mode, document, span, limit) ==
  /\ call = None /\ calls < MaxCalls /\ calls' = calls + 1
  /\ call' = [mode |-> mode, document |-> document, span |-> span, limit |-> limit,
              todo |-> Wanted(span, document), ops |-> None, kept |-> 0, repeats |-> 0,
              found |-> Nothing, drawn |-> {}]
  /\ answer' = None
  /\ UNCHANGED <<canvas, pooled>>

RenderPages == \E d \in Drawable, span \in Spans : Opens("pages", d, span, 0)
ExtractFigures == \E d \in Illustrated, span \in Spans, limit \in ImageLimits : Opens("figures", d, span, limit)

\* Seeded fault: the first that does not fit ends it.
Inline_Stops(sizes) ==
  FoldLeft(LAMBDA plan, k : IF plan.used + sizes[k] > Budget THEN [plan EXCEPT !.used = Budget]
                            ELSE [inline |-> plan.inline \cup {k}, used |-> plan.used + sizes[k]],
           [inline |-> {}, used |-> 0], [k \in DOMAIN sizes |-> k])

\* planInline: in order, each that still fits.
Inline(sizes) ==
  FoldLeft(LAMBDA plan, k : IF plan.used + sizes[k] > Budget THEN plan
                            ELSE [inline |-> plan.inline \cup {k}, used |-> plan.used + sizes[k]],
           [inline |-> {}, used |-> 0], [k \in DOMAIN sizes |-> k])

\* The document is closed; the answer says what it has and what it left out.
Returns(found, drawn) ==
  LET sizes == [k \in DOMAIN found.images |-> found.images[k].size]
      plan == Inline(sizes)
  IN  answer' = [ok |-> TRUE, mode |-> call.mode, document |-> call.document, span |-> call.span,
                 found |-> found, drawn |-> drawn, inline |-> plan.inline,
                 dropped |-> DOMAIN sizes \ plan.inline,
                 missing |-> Missing(call.span, call.document), deferred |-> Deferred(call.span)]

\* An error while a document is open.  The canvas of the page is destroyed on the way out;
\* what pdf.js had taken for itself is left to the collector.
Fails ==
  /\ call # None
  /\ LET page == {c \in Canvases : canvas[c].at = "page"}
         after == IF page = {} THEN [canvas |-> canvas, pooled |-> pooled]
                  ELSE Given(canvas, pooled, CHOOSE c \in page : TRUE)
     IN  /\ canvas' = [c \in Canvases |-> IF after.canvas[c].at = "scratch" THEN NoCanvas ELSE after.canvas[c]]
         /\ pooled' = after.pooled
  /\ call' = None /\ answer' = [ok |-> FALSE]
  /\ UNCHANGED calls

Finish ==
  /\ call # None /\ call.todo = <<>> /\ InUse = {}
  /\ Returns(call.found, call.drawn)
  /\ call' = None
  /\ UNCHANGED <<canvas, pooled, calls>>

------------------------------------------------------------------------------
(* mode "pages".                                                           *)

Drawing == call # None /\ call.mode = "pages" /\ call.todo # <<>>

BeginPage ==
  /\ Drawing /\ InUse = {}
  /\ Create(call.document[Head(call.todo)].size, "page")
  /\ UNCHANGED <<call, answer, calls>>

\* What pdf.js does with canvases of its own while it renders.
Scratch ==
  /\ Drawing /\ \E c \in InUse : canvas[c].at = "page"
  /\ \/ \E size \in Sizes : Create(size, "scratch")
     \/ \E c \in InUse : canvas[c].at = "scratch" /\ Destroy(c)
     \/ \E c \in InUse, size \in Sizes : canvas[c].at = "scratch" /\ canvas[c].size # size /\ Resize(c, size)
  /\ UNCHANGED <<call, answer, calls>>

\* The page is encoded and its canvas destroyed.
EndPage ==
  /\ Drawing
  /\ \E c \in InUse : canvas[c].at = "page" /\ InUse = {c} /\ Destroy(c)
  /\ call' = [call EXCEPT !.todo = Tail(@), !.drawn = @ \cup {Head(call.todo)},
                          !.found.images = Append(@, [page |-> Head(call.todo), size |-> call.document[Head(call.todo)].size])]
  /\ UNCHANGED <<answer, calls>>

------------------------------------------------------------------------------
(* mode "figures".  An image is its pixels; some are too small, some do    *)
(* not decode, some are stencil masks.                                     *)

Figures == call # None /\ call.mode = "figures" /\ call.todo # <<>> /\ InUse = {}

NextPage(found) == [call EXCEPT !.todo = Tail(@), !.ops = None, !.kept = 0, !.repeats = 0, !.found = found]

\* A page is opened: its painting operators are listed, those of bitmap text left out.
OpenPage ==
  /\ Figures /\ call.ops = None
  /\ LET p == Head(call.todo)
         all == call.document[p].images
         masks == Cardinality({k \in DOMAIN all : all[k] = "mask"})
         bitmap == masks >= Masks
         ops == IF bitmap THEN SelectSeq(all, LAMBDA i : i # "mask") ELSE all
         found == IF bitmap THEN [call.found EXCEPT !.bitmap = @ \cup {p}] ELSE call.found
     IN  call' = IF ops # <<>> THEN [call EXCEPT !.ops = ops, !.found = found]
                 ELSE NextPage(IF bitmap THEN found ELSE [found EXCEPT !.without = @ \cup {p}])
  /\ UNCHANGED <<canvas, pooled, answer, calls>>

Listed(image) == \E k \in DOMAIN call.found.images : call.found.images[k].image = image
Past(found) == [call EXCEPT !.ops = Tail(@), !.found = found]

\* Seeded fault: a repeat is not counted on its page.
Repeated_Uncounted == Past([call.found EXCEPT !.duplicate = @ + 1])

\* A picture already listed: folded, though the page has an image for that.
Repeated == [Past([call.found EXCEPT !.duplicate = @ + 1]) EXCEPT !.repeats = @ + 1]

\* Seeded fault: the limit ends the page and not the call.
Truncated_Page == NextPage([call.found EXCEPT !.truncated = (Len(call.todo) = 1)])

\* max_images: the call ends where it is.
Truncated == [call EXCEPT !.todo = <<>>, !.ops = None, !.found.truncated = TRUE]

SkipImage ==
  /\ Figures /\ call.ops \notin {None, <<>>}
  /\ LET image == Head(call.ops)
     IN  CASE image = "broken" -> call' = Past([call.found EXCEPT !.undecodable = @ + 1])
           [] image = "tiny" -> call' = Past([call.found EXCEPT !.tiny = @ + 1])
           [] OTHER -> /\ Listed(image) \/ Len(call.found.images) >= call.limit
                       /\ call' = IF Listed(image) THEN Repeated ELSE Truncated
  /\ UNCHANGED <<canvas, pooled, answer, calls>>

\* A figure is drawn on a canvas of its own, encoded and listed.
TakeImage ==
  /\ Figures /\ call.ops \notin {None, <<>>}
  /\ LET image == Head(call.ops)
     IN  /\ image \notin {"broken", "tiny"} /\ ~Listed(image) /\ Len(call.found.images) < call.limit
         /\ \E c \in Handed(canvas, SizeOf[image]) :
              LET taken == Taken(canvas, pooled, c, SizeOf[image], "page")
              IN  Into(Given(taken.canvas, taken.pooled, c))
         /\ call' = [Past([call.found EXCEPT !.images =
                            Append(@, [page |-> Head(call.todo), image |-> image, size |-> SizeOf[image]])])
                     EXCEPT !.kept = @ + 1]
  /\ UNCHANGED <<answer, calls>>

\* A page that gave nothing and repeated nothing is said to hold no image.
ClosePage ==
  /\ Figures /\ call.ops = <<>>
  /\ call' = NextPage(IF call.kept = 0 /\ call.repeats = 0 THEN [call.found EXCEPT !.without = @ \cup {Head(call.todo)}]
                      ELSE call.found)
  /\ UNCHANGED <<canvas, pooled, answer, calls>>

PictureNext ==
  \/ RenderPages \/ ExtractFigures \/ Fails \/ Finish
  \/ BeginPage \/ Scratch \/ EndPage
  \/ OpenPage \/ SkipImage \/ TakeImage \/ ClosePage

------------------------------------------------------------------------------
(* Properties.                                                             *)

PixelsOf(S) == FoldSet(LAMBDA c, n : n + canvas[c].size, 0, S)

\* The pool's counters are what it holds, under both bounds, and what it holds is wiped: no
\* call is handed another's picture (pdf-images.ts:225).
PoolHonest ==
  /\ pooled = [pixels |-> PixelsOf(Pool), count |-> Cardinality(Pool)]
  /\ pooled.pixels <= PoolPixels /\ pooled.count <= PoolCount
  /\ \A c \in Pool : canvas[c].clean
  /\ call = None => InUse = {}

Done(mode) == answer # None /\ answer.ok /\ answer.mode = mode

\* Every page asked for is drawn, or said to be beyond the document or left for the next
\* call; every picture is shown or named as left out, and what is shown keeps to the budget
\* (tools/pdf-images.ts:71, :295).
PagesAccounted ==
  /\ Done("pages") => answer.drawn \cup answer.missing \cup answer.deferred = answer.span[1]..answer.span[2]
  /\ answer # None /\ answer.ok =>
       /\ FoldSet(LAMBDA k, n : n + answer.found.images[k].size, 0, answer.inline) <= Budget
       /\ \A k \in answer.dropped :
            FoldSet(LAMBDA j, n : n + answer.found.images[j].size, answer.found.images[k].size,
                    {j \in answer.inline : j < k}) > Budget

Images(p) == Range(answer.document[p].images)
Shown(image) == \E k \in DOMAIN answer.found.images : answer.found.images[k].image = image

\* Unless the answer says that it stopped, every figure of the pages it took is listed, as
\* itself or as the one it repeats; the rest are counted, and a page said to hold no image
\* has none that could be listed (pdf-images.ts:790, :861).
FiguresAccounted ==
  Done("figures") =>
    LET pages == Range(Wanted(answer.span, answer.document))
        stencil(p, i) == i = "mask" /\ p \in answer.found.bitmap
        listable(p) == {i \in Images(p) \ {"broken", "tiny"} : ~stencil(p, i)}
    IN  /\ \A p \in pages, i \in {"broken", "tiny", "mask", "a", "b"} :
             ~answer.found.truncated /\ i \in listable(p) => Shown(i)
        /\ answer.found.truncated => Len(answer.found.images) > 0
        /\ \A p \in answer.found.without : listable(p) = {}
        /\ ~answer.found.truncated => \A p \in pages : listable(p) = {} => p \in answer.found.without \cup answer.found.bitmap

PicturesHonest == PoolHonest /\ PagesAccounted /\ FiguresAccounted

PictureSpec == PictureInit /\ [][PictureNext]_pictureVars
=============================================================================
