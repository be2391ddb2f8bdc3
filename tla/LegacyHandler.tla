----------------------------- MODULE LegacyHandler -----------------------------
(***************************************************************************)
(* The office formats of before 2007, read through the converter alone     *)
(* (handlers/office_legacy.py).  A document is [size, converted, pages]:   *)
(* the texts of the pages it converts to, of which there are converted;    *)
(* broken says that the converter fails on it.  The pages are those of one *)
(* edition of the file.                                                    *)
(***************************************************************************)
EXTENDS HandlerAnswers

Affordances == {"read_page"} \cup PageImageAffordance

(* What an affordance needs the deployment to be capable of: as much as    *)
(* the handler does.                                                       *)
Requires(name) == When(name \in Affordances, {"document_render"})

(* All of the pages, or none of them: one that fails fails the document.   *)
Pages(doc) == [readable |-> ~doc.broken, pages |-> doc.pages]

ConversionProvenance == "read by converting the document"

Body(page) == IF page = <<>> THEN <<Written>> ELSE page

Describe(doc) ==
  LET read == Pages(doc)
  IN  Card(read.readable,
           IF read.readable THEN [i \in DOMAIN read.pages |-> PageRef(i)] ELSE <<>>,
           Affordances)

Degraded(doc) == Excused(WholeFile(doc.size))

ReadPage(doc, ask) ==
  LET read == Pages(doc)
  IN  IF read.readable /\ ask.page <= Len(read.pages)
      THEN Answer(PageRef(ask.page), Body(read.pages[ask.page]), FALSE,
                  {ConversionProvenance})
      ELSE Degraded(doc)

Invoke(doc, ask) ==
  CASE ask.name \notin Affordances -> Raised("UnknownAffordance")
    [] ask.name = "read_page" -> ReadPage(doc, ask)
    [] ask.name = "page_image" -> RenderPageImage(doc, ask.page)

Fitted(text, segments, barriers, budget, degradations) ==
  Built(Fit(text, segments, barriers, budget, degradations))

NothingToRead(doc, budget, what) ==
  Fitted(Summary, Mapped(<<Summary>>, <<WholeFile(doc.size)>>), <<>>, budget,
         <<Degradation(what)>>)

(* The provenance is on the text too, as a degradation of all of it.       *)
Represent(doc, budget) ==
  LET read == Pages(doc)
      chunks == [i \in DOMAIN read.pages |-> Append(Body(read.pages[i]), Glue)]
  IN  CASE ~read.readable -> NothingToRead(doc, budget, "conversion failed")
        [] read.readable /\ read.pages = <<>> ->
             NothingToRead(doc, budget, "converted document has no pages")
        [] read.readable /\ read.pages # <<>> ->
             Fitted(Text(chunks), Mapped(chunks, [i \in DOMAIN chunks |-> PageRef(i)]),
                    Between(chunks), budget, <<Degradation(ConversionProvenance)>>)

=============================================================================
