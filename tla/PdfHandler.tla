------------------------------ MODULE PdfHandler ------------------------------
(***************************************************************************)
(* Portable documents (handlers/pdf.py).  A document is                    *)
(*   [opens, size, pages], a page [text, objects]:                         *)
(* whether pdfium opens the bytes, how many there are, and of each page    *)
(* its text layer and whether it holds any object.  The mark of a          *)
(* character is the row of the page it stands in, from the top.            *)
(*                                                                         *)
(* has is what the deployment has: a subset of {"recognizer", "vision",    *)
(* "pillow"}.  said is how the model answers: "words", "blank", "fails".   *)
(***************************************************************************)
EXTENDS HandlerAnswers

CONSTANT ListedPages  (* how many pages a report names: 10 in the code       *)

PageState(page) ==
  CASE ~IsBlank(page.text) -> "extracted"
    [] IsBlank(page.text) /\ page.objects -> "scanned"
    [] IsBlank(page.text) /\ ~page.objects -> "blank"

(* A page with nothing to extract has a line that says which of the two.   *)
Body(page) == IF PageState(page) = "extracted" THEN page.text ELSE <<Written>>

Affordances(has) ==
  {"read_page", "page_region", "page_image"}
    \cup When("recognizer" \in has, {"ocr_page"})
    \cup When("vision" \in has, {"ask_about_image"})

(* What an affordance needs the deployment to be capable of.               *)
Requires(name) == When(name \in {"ocr_page", "ask_about_image"}, {"vision"})

Describe(doc, has) ==
  Card(doc.opens, IF doc.opens THEN [i \in DOMAIN doc.pages |-> PageRef(i)] ELSE <<>>,
       Affordances(has))

(* Every guess at a page is answered: one beyond the end by saying so.     *)
OnPage(doc, number, answer) ==
  IF doc.opens /\ number <= Len(doc.pages) THEN answer
  ELSE Excused(WholeFile(doc.size))

ReadPage(doc, ask) ==
  OnPage(doc, ask.page, Located(PageRef(ask.page), Body(doc.pages[ask.page])))

(* Points count from the bottom of a page, and a region from its top.      *)
PageRegion(doc, ask) ==
  LET r == ask.region
      top == Side - r.y
      bottom == Side - (r.y + r.h)
      height(c) == Side - c.mark
  IN  OnPage(doc, ask.page,
        Located(BBox(ask.page, r),
                SelectSeq(doc.pages[ask.page].text,
                          LAMBDA c : bottom <= height(c) /\ height(c) < top)))

PageImage(doc, ask, has) ==
  OnPage(doc, ask.page,
    IF "pillow" \in has THEN Located(PageRef(ask.page), Words)
    ELSE Excused(PageRef(ask.page)))

OcrPage(doc, ask, has, said) ==
  OnPage(doc, ask.page,
    CASE "pillow" \notin has -> Excused(PageRef(ask.page))
      [] "pillow" \in has /\ said = "fails" -> Raised("InfrastructureError")
      [] "pillow" \in has /\ said # "fails" ->
           Answer(PageRef(ask.page), Words, TRUE, {}))

AskAboutPage(doc, ask, has, said) ==
  OnPage(doc, ask.page,
    CASE "pillow" \notin has -> Excused(PageRef(ask.page))
      [] "pillow" \in has /\ said # "words" -> Excused(BBox(ask.page, ask.region))
      [] "pillow" \in has /\ said = "words" ->
           Located(BBox(ask.page, ask.region), Words))

Invoke(doc, ask, has, said) ==
  CASE ask.name \notin Affordances(has) -> Raised("UnknownAffordance")
    [] ask.name = "read_page" -> ReadPage(doc, ask)
    [] ask.name = "page_region" -> PageRegion(doc, ask)
    [] ask.name = "page_image" -> PageImage(doc, ask, has)
    [] ask.name = "ocr_page" /\ "recognizer" \in has -> OcrPage(doc, ask, has, said)
    [] ask.name = "ask_about_image" /\ "vision" \in has -> AskAboutPage(doc, ask, has, said)

InState(doc, state) == {i \in DOMAIN doc.pages : PageState(doc.pages[i]) = state}

(* The first of the numbers, in order.                                     *)
Listed(numbers) == {i \in numbers : Cardinality({j \in numbers : j < i}) < ListedPages}

(* Mutant of PageDegradations: the one report hides the other.             *)
PageDegradationsFirst(doc) ==
  LET report(what, pages) ==
        [what |-> what, count |-> Cardinality(pages), of |-> Listed(pages)]
  IN  IF InState(doc, "scanned") # {}
      THEN <<report("scanned pages", InState(doc, "scanned"))>>
      ELSE IF InState(doc, "blank") # {}
      THEN <<report("blank pages", InState(doc, "blank"))>>
      ELSE <<>>

(* One report for each state: how many pages are in it, and the first of   *)
(* them.                                                                   *)
PageDegradations(doc) ==
  LET report(what, pages) ==
        IF pages = {} THEN <<>>
        ELSE <<[what |-> what, count |-> Cardinality(pages), of |-> Listed(pages)]>>
  IN  report("scanned pages", InState(doc, "scanned"))
        \o report("blank pages", InState(doc, "blank"))

Fitted(text, segments, barriers, budget, degradations) ==
  Built(Fit(text, segments, barriers, budget, degradations))

NothingToRead(doc, budget, what) ==
  Fitted(Summary, Mapped(<<Summary>>, <<WholeFile(doc.size)>>), <<>>, budget,
         <<Degradation(what)>>)

(* The pages end to end, each with its separator, and a barrier between.   *)
Represent(doc, budget) ==
  LET chunks == [i \in DOMAIN doc.pages |-> Append(Body(doc.pages[i]), Glue)]
  IN  CASE ~doc.opens -> NothingToRead(doc, budget, "pdf unopenable")
        [] doc.opens /\ doc.pages = <<>> ->
             NothingToRead(doc, budget, "pdf has no pages")
        [] doc.opens /\ doc.pages # <<>> ->
             Fitted(Text(chunks), Mapped(chunks, [i \in DOMAIN chunks |-> PageRef(i)]),
                    Between(chunks), budget, PageDegradations(doc))

=============================================================================
