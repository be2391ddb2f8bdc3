----------------------------- MODULE SlidesHandler -----------------------------
(***************************************************************************)
(* Slide decks (handlers/office_slides.py, with the reading of an .odp in  *)
(* adapters/odf.py).  A deck is [odf, opens, size, converted, slides], a   *)
(* slide [title, body, notes, pictures]: the title, the other pieces of    *)
(* text, and the pictures, each "embedded" or "linked" to a file outside.  *)
(*                                                                         *)
(* has: a subset of {"vision", "renderer"}; said: how the model answers.   *)
(***************************************************************************)
EXTENDS HandlerAnswers

(* The pieces of a slide that have text, and its notes under a heading.    *)
Shown(slide) ==
  LET heard == IF slide.notes = <<>> THEN <<>> ELSE << <<Written>> \o slide.notes>>
      parts == SelectSeq(<<slide.title>> \o slide.body, LAMBDA t : t # <<>>) \o heard
  IN  IF parts = <<>> THEN <<Written>> ELSE Joined(parts)

Affordances(has) ==
  {"read_slide", "list_media"}
    \cup When("vision" \in has, {"describe_slide_image"})
    \cup When("renderer" \in has, PageImageAffordance)
    \cup When({"vision", "renderer"} \subseteq has, {"describe_slide"})

(* What an affordance needs the deployment to be capable of.               *)
Requires(name) ==
  PageImageRequires(name)
    \cup When(name \in {"describe_slide_image", "describe_slide"}, {"vision"})
    \cup When(name = "describe_slide", {"document_render"})

(* An .odp has no notes of its own: the runs of a page are title and body, *)
(* and one without pages is as unreadable as one that does not open.       *)
SlidesFromOdf(deck) ==
  [readable |-> deck.opens /\ deck.slides # <<>>,
   slides |-> [i \in DOMAIN deck.slides |->
                LET runs == SelectSeq(<<deck.slides[i].title>> \o deck.slides[i].body
                                        \o <<deck.slides[i].notes>>, LAMBDA t : t # <<>>)
                IN  [title |-> IF runs = <<>> THEN <<>> ELSE Head(runs),
                     body |-> IF runs = <<>> THEN <<>> ELSE Tail(runs),
                     notes |-> <<>>]]]

SlidesFromOoxml(deck) == [readable |-> deck.opens, slides |-> deck.slides]

Parse(deck) == IF deck.odf THEN SlidesFromOdf(deck) ELSE SlidesFromOoxml(deck)

(* A picture that is not embedded raises, and then none is listed.         *)
Pictures(deck) ==
  LET all == UNION {{[page |-> p, index |-> i - 1] : i \in DOMAIN deck.slides[p].pictures} :
                      p \in DOMAIN deck.slides}
      raises == \E c \in all : deck.slides[c.page].pictures[c.index + 1] = "linked"
  IN  IF deck.odf \/ raises THEN {} ELSE all

(* One picture is found without a look at the others.                      *)
PictureBlob(deck, page, index) ==
  /\ ~deck.odf /\ deck.opens
  /\ page \in DOMAIN deck.slides
  /\ index + 1 \in DOMAIN deck.slides[page].pictures
  /\ deck.slides[page].pictures[index + 1] = "embedded"

Describe(deck, has) ==
  LET read == Parse(deck)
  IN  Card(read.readable,
           IF read.readable THEN [i \in DOMAIN read.slides |-> PageRef(i)] ELSE <<>>,
           Affordances(has))

Degraded(deck) == Excused(WholeFile(deck.size))

ReadSlide(deck, ask) ==
  LET read == Parse(deck)
  IN  IF read.readable /\ ask.page <= Len(read.slides)
      THEN Located(PageRef(ask.page), Shown(read.slides[ask.page]))
      ELSE Degraded(deck)

(* One line for each picture, or the one that says that there are none.    *)
ListMedia(deck) ==
  LET lines == IF Pictures(deck) = {} THEN 1 ELSE Cardinality(Pictures(deck))
  IN  IF Parse(deck).readable
      THEN Located(WholeFile(deck.size), [i \in 1 .. lines |-> Written])
      ELSE Degraded(deck)

DescribeSlideImage(deck, ask, said) ==
  CASE ~PictureBlob(deck, ask.page, ask.index) -> Degraded(deck)
    [] PictureBlob(deck, ask.page, ask.index) /\ said # "words" ->
         Excused(PageRef(ask.page))
    [] PictureBlob(deck, ask.page, ask.index) /\ said = "words" ->
         Located(PageRef(ask.page), Words)

(* The answer about a rendering is an answer about a rendering.            *)
DescribeSlide(deck, ask, said) ==
  LET drawn == RenderPageImage(deck, ask.page)
  IN  CASE drawn.degraded -> drawn
        [] ~drawn.degraded /\ said # "words" -> Degraded(deck)
        [] ~drawn.degraded /\ said = "words" ->
             Answer(PageRef(ask.page), Words, FALSE, drawn.notes)

Invoke(deck, ask, has, said) ==
  CASE ask.name \notin Affordances(has) -> Raised("UnknownAffordance")
    [] ask.name = "read_slide" -> ReadSlide(deck, ask)
    [] ask.name = "list_media" -> ListMedia(deck)
    [] ask.name = "describe_slide_image" /\ "vision" \in has ->
         DescribeSlideImage(deck, ask, said)
    [] ask.name = "page_image" /\ "renderer" \in has -> RenderPageImage(deck, ask.page)
    [] ask.name = "describe_slide" /\ {"vision", "renderer"} \subseteq has ->
         DescribeSlide(deck, ask, said)

Fitted(text, segments, barriers, budget, degradations) ==
  Built(Fit(text, segments, barriers, budget, degradations))

NothingToRead(deck, budget, what) ==
  Fitted(Summary, Mapped(<<Summary>>, <<WholeFile(deck.size)>>), <<>>, budget,
         <<Degradation(what)>>)

(* The slides end to end, each with its separator: one segment for each.   *)
Chunks(slides) == [i \in DOMAIN slides |-> Append(Shown(slides[i]), Glue)]

Represent(deck, budget) ==
  LET read == Parse(deck)
      chunks == Chunks(read.slides)
  IN  CASE ~read.readable -> NothingToRead(deck, budget, "deck unopenable")
        [] read.readable /\ read.slides = <<>> ->
             NothingToRead(deck, budget, "deck has no slides")
        [] read.readable /\ read.slides # <<>> ->
             Fitted(Text(chunks), Mapped(chunks, [i \in DOMAIN chunks |-> PageRef(i)]),
                    Between(chunks), budget, <<>>)

=============================================================================
