------------------------------ MODULE WordHandler ------------------------------
(***************************************************************************)
(* Text documents (handlers/office_word.py, with the reading of an .odt in *)
(* adapters/odf.py).  A document is [odf, opens, size, converted, blocks,  *)
(* comments], a block [kind, text] a "heading", a "paragraph" or a "table" *)
(* (an .odt has the paragraphs of its tables instead), a comment a text.   *)
(*                                                                         *)
(* A place in it is a span of its flattened text.                          *)
(***************************************************************************)
EXTENDS HandlerAnswers

(* A section without a heading has no title to show.                       *)
Shown(section) ==
  Joined((IF section.titled THEN <<section.title>> ELSE <<>>)
           \o SelectSeq(section.blocks, LAMBDA b : b # <<>>))

Affordances(has) ==
  {"read_section", "read_range", "list_comments", "read_table"}
    \cup When("renderer" \in has, PageImageAffordance)

(* A section begins at every heading, and at the first block.              *)
Sections(blocks) ==
  LET opens == SelectSeq([i \in DOMAIN blocks |-> i],
                         LAMBDA i : i = 1 \/ blocks[i].kind = "heading")
      section(k) ==
        LET first == opens[k]
            last == IF k < Len(opens) THEN opens[k + 1] - 1 ELSE Len(blocks)
            titled == blocks[first].kind = "heading"
            from == IF titled THEN first + 1 ELSE first
        IN  [titled |-> titled,
             title |-> IF titled THEN blocks[first].text ELSE <<>>,
             blocks |-> [i \in 1 .. last - from + 1 |-> blocks[from + i - 1].text]]
  IN  [k \in DOMAIN opens |-> section(k)]

(* An .odt without a block is as unreadable as one that does not open.     *)
SectionsFromOdf(doc) ==
  [readable |-> doc.opens /\ doc.blocks # <<>>, sections |-> Sections(doc.blocks)]

SectionsFromOoxml(doc) == [readable |-> doc.opens, sections |-> Sections(doc.blocks)]

Parse(doc) == IF doc.odf THEN SectionsFromOdf(doc) ELSE SectionsFromOoxml(doc)

Tables(doc) ==
  IF doc.odf THEN <<>> ELSE SelectSeq(doc.blocks, LAMBDA b : b.kind = "table")

Comments(doc) == IF doc.odf THEN <<>> ELSE doc.comments

(* The sections end to end, each with its separator, which is two          *)
(* characters, and each located by its own span.                           *)
Chunk(section) == Shown(section) \o <<Glue, Glue>>

Flatten(sections) ==
  LET chunks == [k \in DOMAIN sections |-> Chunk(sections[k])]
      at == Starts(chunks)
      spans == [k \in DOMAIN chunks |-> CharSpan(at[k], at[k + 1])]
      titled == SelectSeq([k \in DOMAIN sections |-> k], LAMBDA k : sections[k].titled)
  IN  [text |-> Text(chunks), segments |-> Mapped(chunks, spans),
       barriers |-> Between(chunks),
       outline |-> [i \in DOMAIN titled |-> spans[titled[i]]]]

DescribeRead(read, has) ==
  Card(read.readable, IF read.readable THEN Flatten(read.sections).outline ELSE <<>>,
       Affordances(has))

Describe(doc, has) == DescribeRead(Parse(doc), has)

(* None of a document that cannot be read.                                 *)
TextOf(read) == IF read.readable THEN Flatten(read.sections).text ELSE <<>>

Degraded(doc) == Excused(WholeFile(doc.size))

ReadSection(doc, read, ask) ==
  LET at == Starts([k \in DOMAIN read.sections |-> Chunk(read.sections[k])])
      k == ask.index + 1
  IN  IF read.readable /\ k <= Len(read.sections)
      THEN Located(CharSpan(at[k], at[k + 1]), Shown(read.sections[k]))
      ELSE Degraded(doc)

(* A range beyond the end is answered with the last character.             *)
ReadRange(doc, text, ask) ==
  LET end == Min({ask.end, Len(text)})
      start == Min({ask.start, Max({0, end - 1})})
  IN  IF start < end
      THEN Located(CharSpan(start, end), SubSeq(text, start + 1, end))
      ELSE Degraded(doc)

(* One line for each comment, or the one that says that there are none.    *)
ListComments(doc) ==
  LET lines == Max({1, Len(Comments(doc))})
  IN  IF Parse(doc).readable
      THEN Located(WholeFile(doc.size), [i \in 1 .. lines |-> Written])
      ELSE Degraded(doc)

ReadTable(doc, ask) ==
  IF Parse(doc).readable /\ ask.index < Len(Tables(doc))
  THEN Located(WholeFile(doc.size), Tables(doc)[ask.index + 1].text)
  ELSE Degraded(doc)

Invoke(doc, ask, has) ==
  CASE ask.name \notin Affordances(has) -> Raised("UnknownAffordance")
    [] ask.name = "read_section" -> ReadSection(doc, Parse(doc), ask)
    [] ask.name = "read_range" -> ReadRange(doc, TextOf(Parse(doc)), ask)
    [] ask.name = "list_comments" -> ListComments(doc)
    [] ask.name = "read_table" -> ReadTable(doc, ask)
    [] ask.name = "page_image" /\ "renderer" \in has -> RenderPageImage(doc, ask.page)

Fitted(text, segments, barriers, budget, degradations) ==
  Built(Fit(text, segments, barriers, budget, degradations))

NothingToRead(doc, budget, what) ==
  Fitted(Summary, Mapped(<<Summary>>, <<WholeFile(doc.size)>>), <<>>, budget,
         <<Degradation(what)>>)

RepresentRead(doc, read, flat, budget) ==
  CASE ~read.readable -> NothingToRead(doc, budget, "document unopenable")
    [] read.readable /\ read.sections = <<>> ->
         NothingToRead(doc, budget, "document has no body")
    [] read.readable /\ read.sections # <<>> ->
         Fitted(flat.text, flat.segments, flat.barriers, budget, <<>>)

Represent(doc, budget) ==
  RepresentRead(doc, Parse(doc), Flatten(Parse(doc).sections), budget)

=============================================================================
