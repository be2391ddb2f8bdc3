------------------------------ MODULE EpubHandler ------------------------------
(***************************************************************************)
(* Books (handlers/epub.py and adapters/epub_book.py).  A book is [flaw,   *)
(* size, spine, manifest, parts, ncx, nav]: what keeps it from being read, *)
(* "none" for nothing; the reading order as identifiers, and the names the *)
(* manifest gives them; the source of each part that the archive holds;    *)
(* and the two tables of contents, [broken, entries], of <<name, label>>.  *)
(***************************************************************************)
EXTENDS HtmlReader

Affordances == {"read_chapter", "read_range"}

(* What is no zip, has no container or package, is encrypted, or declares  *)
(* an entity is refused.                                                   *)
Refused(book) == book.flaw # "none"

(* The identifiers that the manifest knows, by name.                       *)
Spine(book) ==
  LET known == SelectSeq(book.spine, LAMBDA id : id \in DOMAIN book.manifest)
  IN  [i \in DOMAIN known |-> book.manifest[known[i]]]

(* In one table the first label of a name counts.                          *)
Labels(table) ==
  [name \in {table[i][1] : i \in DOMAIN table} |->
    SelectInSeq(table, LAMBDA entry : entry[1] = name)]

(* Both tables are read, and the newer one has the last word; one that is  *)
(* broken costs its labels only.                                           *)
TocLabels(book) ==
  LET of(table) == IF table.broken THEN <<>> ELSE table.entries
      labelled(table) == [name \in DOMAIN Labels(table) |-> table[Labels(table)[name]][2]]
  IN  labelled(of(book.nav)) @@ labelled(of(book.ncx))

(* The blocks of a part, whose characters know which part they are of.     *)
Blocks(name, blocks) ==
  LET placed(c) == IF c.place = Nowhere THEN c
                   ELSE Char(PartSpan(name, c.place.start, c.place.end), c.mark)
  IN  [i \in DOMAIN blocks |->
        [blocks[i] EXCEPT !.text = [j \in DOMAIN @ |-> placed(@[j])]]]

Part(name, read, labels) ==
  [name |-> name, blocks |-> Blocks(name, read.blocks),
   title |-> IF name \in DOMAIN labels THEN labels[name]
             ELSE IF read.title # <<>> THEN "its own" ELSE "its file's"]

ReadEpub(book) ==
  LET held == SelectSeq(Spine(book), LAMBDA name : name \in DOMAIN book.parts)
      labels == TocLabels(book)
  IN  [i \in DOMAIN held |-> Part(held[i], Read(book.parts[held[i]]), labels)]

(* A barrier before every part but the first, if there is text before it.  *)
Flatten(parts) ==
  LET units == [k \in DOMAIN parts |-> Text(Separated(parts[k].blocks))]
      at == Starts(units)
      placed(k) == [i \in DOMAIN parts[k].blocks |->
                     LET span == parts[k].blocks[i].span
                     IN  PartSpan(parts[k].name, span.start, span.end)]
      chunks == FlattenSeq([k \in DOMAIN parts |-> Separated(parts[k].blocks)])
      told == SelectSeq([k \in DOMAIN parts |-> k], LAMBDA k : units[k] # <<>>)
  IN  [text |-> Text(units),
       segments |-> Mapped(chunks, FlattenSeq([k \in DOMAIN parts |-> placed(k)])),
       barriers |-> SelectSeq(Between(units), LAMBDA b : b > 0),
       outline |-> [i \in DOMAIN told |-> CharSpan(at[told[i]], at[told[i] + 1])],
       titles |-> [i \in DOMAIN told |-> parts[told[i]].title]]

DescribeFlat(flat) ==
  Card(TRUE, flat.outline, Affordances) @@ [titles |-> flat.titles]

Describe(book) ==
  IF Refused(book) THEN Raised("DomainError") ELSE DescribeFlat(Flatten(ReadEpub(book)))

ReadChapter(parts, ask) ==
  LET part == parts[ask.index + 1]
  IN  IF ask.index >= Len(parts) THEN Raised("DomainError")
      ELSE IF part.blocks = <<>> THEN Raised("DomainError")
      ELSE Located(PartSpan(part.name, Head(part.blocks).span.start,
                            Last(part.blocks).span.end),
                   Joined([i \in DOMAIN part.blocks |-> part.blocks[i].text]))

(* A range of two parts is located in the first of them.                   *)
ReadRange(flat, ask) ==
  LET range == Clipped(ask, Len(flat.text))
      touched == Touched(flat.segments, range)
      part == Head(touched).part
      within == {l \in ToSet(touched) : l.part = part}
  IN  IF flat.text = <<>> THEN Raised("DomainError")
      ELSE Located(PartSpan(part, Min({l.start : l \in within}), Max({l.end : l \in within})),
                   SubSeq(flat.text, range.start + 1, range.end))

Invoke(book, ask) ==
  CASE ask.name \notin Affordances -> Raised("UnknownAffordance")
    [] ask.name \in Affordances /\ Refused(book) -> Raised("DomainError")
    [] ask.name = "read_chapter" /\ ~Refused(book) -> ReadChapter(ReadEpub(book), ask)
    [] ask.name = "read_range" /\ ~Refused(book) -> ReadRange(Flatten(ReadEpub(book)), ask)

Fitted(text, segments, barriers, budget, degradations) ==
  Built(Fit(text, segments, barriers, budget, degradations))

RepresentFlat(book, flat, budget) ==
  IF flat.text = <<>>
  THEN Fitted(Summary, Mapped(<<Summary>>, <<WholeFile(book.size)>>), <<>>, budget,
              <<Degradation("book has no text")>>)
  ELSE Fitted(flat.text, flat.segments, flat.barriers, budget, <<>>)

Represent(book, budget) ==
  IF Refused(book) THEN Raised("DomainError")
  ELSE RepresentFlat(book, Flatten(ReadEpub(book)), budget)

=============================================================================
