-------------------------------- MODULE Reading --------------------------------
(***************************************************************************)
(* A client at work on a file, through the tools (agent/tools.py) and the  *)
(* perception they stand on (pipeline/perception.py): it inspects the      *)
(* file, has it represented, and invokes what its card offers, in any      *)
(* order and as often as it likes.  It keeps the card, and looks at the    *)
(* outcome of its last call.                                               *)
(*                                                                         *)
(* A file is [of, evidence, doc, bytes]: what it is in truth, what its     *)
(* type is detected from, what the handler of its type sees in it, and     *)
(* what the fallback sees.  It is not edited here, and nothing is kept     *)
(* between two calls but artifacts, which are in Perception.               *)
(***************************************************************************)
EXTENDS Composition

CONSTANTS Deployments,  (* as in Composition                               *)
          Files,        (* no film among them: that is in VideoHandler      *)
          Budgets,      (* max_chars, or Unlimited                         *)
          Asks,         (* affordances with parameters that validate       *)
          Said          (* how models answer: "words", "blank", "fails"    *)

VARIABLES deployment, file,
          card,  (* of the file, or NoCard                                 *)
          last   (* the last call, who answered it, and its outcome        *)

vars == <<deployment, file, card, last>>

NoCard == [outcome |-> "none"]
NoCall == [call |-> "none", by |-> "none", outcome |-> [outcome |-> "none"]]

Reader == Resolve(deployment, Detect(file.evidence))

DescribeBy(id) ==
  CASE id = "pdf" -> Pdf!Describe(file.doc, Has(deployment))
    [] id = "office_slides" -> Slides!Describe(file.doc, Has(deployment))
    [] id = "office_sheets" -> Sheets!Describe(file.doc, Has(deployment))
    [] id = "office_word" -> Word!Describe(file.doc, Has(deployment))
    [] id = "office_legacy" -> Legacy!Describe(file.doc)
    [] id = "html" -> Html!Describe(file.doc)
    [] id = "epub" -> Book!Describe(file.doc)
    [] id = "image" -> Image!Describe(file.doc, Has(deployment))
    [] id = "audio" -> Audio!Describe(file.doc, Has(deployment))
    [] id = "archive" -> Archive!Describe(file.doc)
    [] id = "text" -> Plain!Describe(file.doc)
    [] id = "binary" -> Plain!DescribeBytes([bytes |-> file.bytes])

RepresentBy(id, budget, said) ==
  CASE id = "pdf" -> Pdf!Represent(file.doc, budget)
    [] id = "office_slides" -> Slides!Represent(file.doc, budget)
    [] id = "office_sheets" -> Sheets!Represent(file.doc, budget)
    [] id = "office_word" -> Word!Represent(file.doc, budget)
    [] id = "office_legacy" -> Legacy!Represent(file.doc, budget)
    [] id = "html" -> Html!Represent(file.doc, budget)
    [] id = "epub" -> Book!Represent(file.doc, budget)
    [] id = "image" -> Image!Represent(file.doc, budget, Has(deployment), said)
    [] id = "audio" -> Audio!Represent(file.doc, budget, Has(deployment), said)
    [] id = "archive" -> Archive!Represent(file.doc, budget)
    [] id = "text" -> Plain!Represent(file.doc, budget)
    [] id = "binary" -> Plain!RepresentBytes([bytes |-> file.bytes], budget)

InvokeBy(id, ask, said) ==
  CASE id = "pdf" -> Pdf!Invoke(file.doc, ask, Has(deployment), said)
    [] id = "office_slides" -> Slides!Invoke(file.doc, ask, Has(deployment), said)
    [] id = "office_sheets" -> Sheets!Invoke(file.doc, ask, Has(deployment))
    [] id = "office_word" -> Word!Invoke(file.doc, ask, Has(deployment))
    [] id = "office_legacy" -> Legacy!Invoke(file.doc, ask)
    [] id = "html" -> Html!Invoke(file.doc, ask)
    [] id = "epub" -> Book!Invoke(file.doc, ask)
    [] id = "image" -> Image!Invoke(file.doc, ask, Has(deployment), said)
    [] id = "audio" -> Audio!Invoke(file.doc, ask, Has(deployment), said)
    [] id = "archive" -> Archive!Invoke(file.doc, ask)
    [] id = "text" -> Plain!Invoke(file.doc, ask)
    [] id = "binary" -> Plain!Hexdump([bytes |-> file.bytes], ask)

(* What a reader declares and the deployment can do.                       *)
Available(reader) == AvailableAffordances(deployment, reader)

(* The handler's card, with the affordances that are there.                *)
CardOf(described, available) ==
  IF described.outcome = "card" THEN [described EXCEPT !.affordances = available]
  ELSE described

(* What the reply to a picture tells a model that reads text to call.      *)
ImageReadingAffordances == {"ask_about_image", "describe_image", "ocr"}
Hint(ask, answer, available) ==
  LET usable == ImageReadingAffordances \cap available
      isImage == /\ ask.name \in {"page_image", "crop_region"}
                 /\ answer.outcome = "answered" /\ ~answer.degraded
  IN  CASE ~isImage -> {}
        [] isImage /\ "ask_about_image" \in usable -> {"ask_about_image"}
        [] isImage /\ "ask_about_image" \notin usable /\ usable # {} -> usable
        [] isImage /\ usable = {} -> {"no vision capability is configured"}

Inspected(by, outcome) ==
  /\ card' = IF outcome.outcome = "card" THEN outcome ELSE card
  /\ last' = [call |-> "inspect", by |-> by, outcome |-> outcome]
  /\ UNCHANGED <<deployment, file>>

Inspect ==
  LET reader == Reader
  IN  Inspected(reader.id, CardOf(DescribeBy(reader.id), Available(reader)))

(* A call leaves nothing behind that the next would meet, so the first and *)
(* one after an inspection stand for all others.                           *)
IsFresh == last.call \in {"none", "inspect"}

Represent(budget, said) ==
  LET id == Reader.id
  IN  /\ IsFresh
      /\ last' = [call |-> "represent", by |-> id, budget |-> budget, said |-> said,
                  outcome |-> RepresentBy(id, budget, said)]
      /\ UNCHANGED <<deployment, file, card>>

(* A picture costs the tool a second look at the file.                     *)
Replied(by, ask, available, answer) ==
  last' = [call |-> "invoke", by |-> by, ask |-> ask, outcome |-> answer,
           hint |-> Hint(ask, answer, available)]

InvokeAffordance(ask, said) ==
  LET reader == Reader
      available == Available(reader)
  IN  /\ IsFresh
      /\ Replied(reader.id, ask, available,
                 IF ask.name \in available THEN InvokeBy(reader.id, ask, said)
                 ELSE Raised("UnknownAffordance"))
      /\ UNCHANGED <<deployment, file, card>>

Init ==
  /\ deployment \in Deployments
  /\ file \in Files
  /\ card = NoCard
  /\ last = NoCall

Next ==
  \/ Inspect
  \/ \E budget \in Budgets, said \in Said : Represent(budget, said)
  \/ \E ask \in Asks, said \in Said : InvokeAffordance(ask, said)

Spec == Init /\ [][Next]_vars

-----------------------------------------------------------------------------
(* What is said below of a text, a card or an answer is said of the one    *)
(* that the last call gave, of the file that it was given.                 *)

IsText == last.call = "represent" /\ last.outcome.outcome = "rendered"
IsAnswer == last.call = "invoke" /\ last.outcome.outcome = "answered"

TextOf(rendered, segment) ==
  {rendered.text[i] : i \in segment.start + 1 .. segment.end}

FromTheFile(characters) == {c \in characters : c.place # Nowhere}

(* Words are found in a span of time that they are spoken in.              *)
Finds(locator, place) ==
  IF locator.kind = "time" /\ place.kind = "time" THEN Overlap(locator, place)
  ELSE LeadsTo(locator, place)

(* Every character that comes from the file is led to by the locator that  *)
(* it is found under, in a text by the one of its segment.  A range of two *)
(* parts of a book is located in the first of them.                        *)
LedToItsPlace ==
  /\ IsText =>
       LET r == last.outcome.rendered
       IN  \A s \in ToSet(r.segments) :
             \A c \in FromTheFile(TextOf(r, s)) : Finds(s.locator, c.place)
  /\ IsAnswer =>
       LET place == last.outcome.locator
       IN  \A c \in FromTheFile(ToSet(last.outcome.text)) :
             /\ place.kind = c.place.kind
             /\ place.kind = "part" => place.part = c.place.part
             => Finds(place, c.place)

(* The call that reads a segment back: by its place, or where that is one  *)
(* of the source, by the characters of the text that it covers.            *)
ReadingOf(id, s) ==
  CASE id \in {"pdf", "office_legacy"} -> [name |-> "read_page", page |-> s.locator.page]
    [] id = "office_slides" -> [name |-> "read_slide", page |-> s.locator.page]
    [] id = "office_sheets" -> [name |-> "read_sheet", sheet |-> s.locator.sheet,
                                offset |-> s.locator.row, limit |-> s.locator.rows]
    [] id \in {"office_word", "text"} ->
         [name |-> "read_range", start |-> s.locator.start, end |-> s.locator.end]
    [] id \in {"html", "epub"} ->
         [name |-> "read_range", start |-> s.start, end |-> s.end]
    [] id = "audio" ->
         [name |-> "read_span", start |-> s.locator.start, end |-> s.locator.end]

(* A segment that was indexed can be read again: the answer has all of its *)
(* characters and cites the very same place.                               *)
SegmentsReadBack ==
  IsText /\ last.by \notin {"image", "archive", "binary"} =>
    LET r == last.outcome.rendered
        IsRead(s, answer) ==
          /\ answer.outcome = "answered" /\ ~answer.degraded
          /\ answer.locator = s.locator
          /\ FromTheFile(TextOf(r, s)) \subseteq ToSet(answer.text)
    IN  \A s \in ToSet(r.segments) : FromTheFile(TextOf(r, s)) # {} =>
          IsRead(s, InvokeBy(last.by, ReadingOf(last.by, s), "words"))

(* Where a unit of the file begins: a page, a sheet, a part of a book, or  *)
(* what the outline of a page or a document lists.                         *)
UnitOf(locator) ==
  CASE locator.kind = "page" -> locator.page
    [] locator.kind = "cells" -> locator.sheet
    [] locator.kind = "part" -> locator.part
    [] OTHER -> 0

(* There is a barrier where the unit changes and at no other segment, so   *)
(* that a chunk between two barriers is never of two units; and every      *)
(* heading of the outline starts behind one.                               *)
UnitsApart ==
  IsText /\ last.by \notin {"audio", "archive", "binary"} =>
    LET r == last.outcome.rendered
        headings == {l \in ToSet(DescribeBy(last.by).outline) : l.kind = "chars"}
    IN  /\ \A i \in 1 .. Len(r.segments) - 1 :
             LET apart == UnitOf(r.segments[i].locator) # UnitOf(r.segments[i + 1].locator)
             IN  /\ apart => r.segments[i].end \in ToSet(r.barriers)
                 /\ r.segments[i].end \in ToSet(r.barriers)
                      => apart \/ last.by \in {"html", "office_word"}
        /\ \A l \in headings :
             l.start < Len(r.text) => l.start \in {0} \cup ToSet(r.barriers)

Reports(r, what) == \E i \in DOMAIN r.degradations : r.degradations[i].what = what

Told(r, what) ==
  UNION {r.degradations[i].of : i \in {j \in DOMAIN r.degradations :
                                         r.degradations[j].what = what}}

(* The pages of a document without text, with objects or without, are told *)
(* in one report: how many they are, and the first of them by number.      *)
TellsOfPages(r, what, objects) ==
  LET pages == {i \in DOMAIN file.doc.pages : /\ IsBlank(file.doc.pages[i].text)
                                              /\ file.doc.pages[i].objects = objects}
      reports == {d \in ToSet(r.degradations) : d.what = what}
      isOf(d) == /\ d.count = Cardinality(pages)
                 /\ d.of \subseteq pages
                 /\ Cardinality(d.of) = Min({ListedPages, d.count})
                 /\ \A i \in d.of, j \in pages \ d.of : i < j
  IN  /\ (reports = {}) <=> (pages = {})
      /\ \A d \in reports : isOf(d)

(* A text says what it lacks: that it was cut if and only if it is shorter *)
(* than it would be; all that it says uncut it says cut (but for the       *)
(* fallback, whose only report the cut replaces); how many pages have no   *)
(* text, by name the first of them; and how many of the words fell outside *)
(* a recording.                                                            *)
LossesTold ==
  LET IsTold(r, full) ==
        /\ Reports(r, "text truncated") <=> Len(r.text) < Len(full.text)
        /\ last.by # "binary" => ToSet(full.degradations) \subseteq ToSet(r.degradations)
        /\ last.by = "pdf" /\ file.doc.opens =>
             /\ TellsOfPages(r, "scanned pages", TRUE)
             /\ TellsOfPages(r, "blank pages", FALSE)
        /\ LET shown == {s \in ToSet(full.segments) : FromTheFile(TextOf(full, s)) # {}}
               missing == Len(file.doc.cues) - Cardinality(shown)
           IN  last.by = "audio" /\ shown # {} =>
                 Told(r, "cues outside the file") = {missing} \ {0}
  IN  IsText => IsTold(last.outcome.rendered,
                       RepresentBy(last.by, Unlimited, last.said).rendered)

(* What the card announced is so: of a file that it calls unreadable every *)
(* text is degraded, and every place that its outline lists is that of a   *)
(* segment of the text, or in a page or a book begins one.                 *)
CardsKeepTheirWord ==
  card.outcome = "card" /\ IsText =>
    LET r == last.outcome.rendered
    IN  /\ ~card.readable => r.degradations # <<>>
        /\ last.budget = Unlimited =>
             \A i \in DOMAIN card.outline : \E s \in ToSet(r.segments) :
               \/ s.locator = card.outline[i]
               \/ last.by \in {"html", "epub"} /\ s.start = card.outline[i].start

(* What the card publishes can be called, what it does not publish cannot; *)
(* and a wrong guess at a page, a sheet or a range is answered.  What      *)
(* raises is a model that failed, or the few readers that refuse a guess.  *)
(* A picture that is said to be there to be asked about can be, at the     *)
(* same coordinates.                                                       *)
PublishedIsAnswered ==
  card.outcome = "card" /\ last.call = "invoke" =>
    /\ last.ask.name \in card.affordances <=> last.outcome # Raised("UnknownAffordance")
    /\ last.ask.name \in card.affordances /\ last.outcome.outcome = "raised" =>
         \/ /\ last.outcome = Raised("InfrastructureError")
            /\ deployment.vision /\ last.by \in {"pdf", "image"}
         \/ /\ last.outcome = Raised("DomainError")
            /\ last.by \in {"text", "html", "epub", "image"}
    /\ "ask_about_image" \in last.hint =>
         LET ask == [last.ask EXCEPT !.name = "ask_about_image"] @@ [region |-> Frame]
             IsAbout(answer) == /\ answer.outcome = "answered"
                                /\ answer.locator.page = last.outcome.locator.page
         IN  IsAbout(InvokeBy(last.by, ask, "words"))

(* A converter is there if it is one's own, or was found, or was promised. *)
CanConvert(d) ==
  /\ d.renderer # "null"
  /\ IF d.given # Discover THEN "document_render" \in d.given
     ELSE d.renderer = "own" \/ (d.probed /\ "soffice" \in d.binaries)

CanDecode(d) ==
  IF d.given # Discover THEN "ffmpeg" \in d.given ELSE d.probed /\ "ffmpeg" \in d.binaries

(* Which reader a file of a known kind should find.                        *)
ReaderFor(d, of) ==
  LET with(has, id) == IF has THEN id ELSE "binary"
  IN  CASE of = "pdf" -> with("pdfium" \in d.packages, "pdf")
        [] of \in {"docx", "odt"} -> with("docx" \in d.packages, "office_word")
        [] of \in {"pptx", "odp"} -> with("pptx" \in d.packages, "office_slides")
        [] of \in {"xlsx", "ods"} -> with("openpyxl" \in d.packages, "office_sheets")
        [] of = "doc" -> with(CanConvert(d), "office_legacy")
        [] of = "picture" -> with("pillow" \in d.packages, "image")
        [] of = "sound" -> with(CanDecode(d), "audio")
        [] of = "page" -> "html"
        [] of = "book" -> "epub"
        [] of = "archive" -> "archive"
        [] of = "text" -> "text"
        [] of = "data" -> "binary"

(* Plain text has nothing in its bytes to hold against the type of its     *)
(* name, and an archive may keep a folder that is called as in a package.  *)
IsDisguised(f) ==
  \/ f.of = "text" /\ f.evidence.guess = "application/pdf"
  \/ f.of = "archive" /\ ToSet(f.evidence.parts) \cap DOMAIN OoxmlPrefixes # {}

(* What a file's bytes say of its kind decides which reader it finds, and  *)
(* no name they contradict, no weaker signature and no later entry of a    *)
(* package does: the reader of its kind if the deployment has that, and    *)
(* else the fallback.  A file whose bytes do not tell may be taken for     *)
(* another, but then its text says that something is wrong with it.        *)
ReadByItsOwn ==
  \/ Reader.id = ReaderFor(deployment, file.of)
  \/ IsDisguised(file) /\ (IsText => last.outcome.rendered.degradations # <<>>)

(* The cells that a workbook's text reports are read back, by the names in *)
(* the report, as the formulas that they hold; and the range that the card *)
(* gives of a sheet is the place that its outline gives.                   *)
RangesReadBack ==
  Reader.id = "office_sheets" =>
    /\ IsText => \A cell \in Told(last.outcome.rendered, "formulas without cached values") :
         LET at == Sheets!Cell(cell.a1)
             ask == [name |-> "read_cells", sheet |-> cell.sheet, a1 |-> <<cell.a1>>,
                     formulas |-> FALSE]
             sheet == SelectInSeq(file.doc.sheets, LAMBDA s : s.name = cell.sheet)
             held == file.doc.sheets[sheet].rows[at.row + 1][at.col + 1]
         IN  /\ Sheets!IsUncomputed(held)
             /\ InvokeBy("office_sheets", ask, "words").text = held.formula
    /\ card.outcome = "card" => \A i \in DOMAIN card.ranges :
         Sheets!ParseA1(card.ranges[i], card.outline[i].sheet) = card.outline[i]

(* No file makes its reader fail: its text is refused for a reason that    *)
(* the reader knows, and never for what the reader itself put together.    *)
Represented ==
  last.call = "represent" =>
    \/ last.outcome.outcome = "rendered"
    \/ last.outcome = Raised("DomainError")

=============================================================================
