---------------------------- MODULE HandlerAnswers ----------------------------
(***************************************************************************)
(* Where in a file something is (domain/locators.py), what a handler gives *)
(* back of it (domain/rendition.py, domain/card.py), and the steps         *)
(* from the units of a file to its text that the handlers have in common:  *)
(* every unit ends with a separator of its own, and so has at least one    *)
(* character.                                                              *)
(*                                                                         *)
(* A locator is a record with a kind; IsLocator is what its __post_init__  *)
(* lets through.  A character knows its place, which is a locator too: the *)
(* finest that leads to it.  What a handler wrote itself has none.         *)
(***************************************************************************)
EXTENDS Rendered

CONSTANT Side  (* the side of a page or an image: 1.0 in these units       *)

ASSUME SideAssumption == Side \in Nat \ {0}

CharSpan(start, end) == [kind |-> "chars", start |-> start, end |-> end]
ByteRange(start, end) == [kind |-> "bytes", start |-> start, end |-> end]
TimeSpan(start, end) == [kind |-> "time", start |-> start, end |-> end]
PartSpan(part, start, end) ==
  [kind |-> "part", part |-> part, start |-> start, end |-> end]

PageRef(page) == [kind |-> "page", page |-> page]

(* The whole of a picture, or of a page, is the frame; page 0 is none.     *)
Frame == [x |-> 0, y |-> 0, w |-> Side, h |-> Side]
BBox(page, region) == [kind |-> "box", page |-> page, region |-> region]

CellRange(sheet, row, col, rows, cols) ==
  [kind |-> "cells", sheet |-> sheet, row |-> row, col |-> col,
   rows |-> rows, cols |-> cols]

(* Rows and columns are counted from 0, pages from 1.  "" is a blank name. *)
IsSpan(l) == 0 <= l.start /\ l.start < l.end
IsRegion(r) ==
  /\ 0 < r.w /\ 0 < r.h
  /\ 0 <= r.x /\ r.x + r.w <= Side
  /\ 0 <= r.y /\ r.y + r.h <= Side
IsCells(l) ==
  l.sheet # "" /\ 0 <= l.row /\ 0 <= l.col /\ 1 <= l.rows /\ 1 <= l.cols

IsLocator(l) ==
  /\ l.kind \in {"chars", "bytes", "time"} => IsSpan(l)
  /\ l.kind = "part" => l.part # "" /\ IsSpan(l)
  /\ l.kind = "page" => 1 <= l.page
  /\ l.kind = "box" => IsRegion(l.region)
  /\ l.kind = "cells" => IsCells(l)

Overlap(a, b) == a.start < b.end /\ b.start < a.end

(* A locator leads to a place of its kind that lies within it.             *)
LeadsTo(l, place) ==
  /\ l.kind = place.kind
  /\ l.kind \in {"chars", "bytes", "time", "part"} =>
       l.start <= place.start /\ place.end <= l.end
  /\ l.kind = "part" => l.part = place.part
  /\ l.kind \in {"page", "box"} => l.page = place.page
  /\ l.kind = "cells" =>
       /\ l.sheet = place.sheet
       /\ l.row <= place.row /\ place.row + place.rows <= l.row + l.rows
       /\ l.col <= place.col /\ place.col + place.cols <= l.col + l.cols

Nowhere == [kind |-> "nowhere"]

(* A character of the file, one that separates, and one that was written   *)
(* by a handler.  A mark of 0 is white space.                              *)
Char(place, mark) == [place |-> place, mark |-> mark]
Space(place) == Char(place, 0)
Glue == Char(Nowhere, 0)
Written == Char(Nowhere, 1)

IsBlank(text) == \A i \in DOMAIN text : text[i].mark = 0

----------------------------------------------------------------------------

Raised(error) == [outcome |-> "raised", error |-> error]

(* An affordance's answer: an image is a text of one character here.       *)
Answer(locator, text, degraded, notes) ==
  IF IsLocator(locator)
  THEN [outcome |-> "answered", locator |-> locator, text |-> text,
        degraded |-> degraded, notes |-> notes]
  ELSE Raised("ValueError")

Located(locator, text) == Answer(locator, text, FALSE, {})
Excused(locator) == Answer(locator, <<Written>>, TRUE, {})

(* A model's words of a picture: one mark, so that they can be blank.      *)
Words == <<Written>>

WholeFile(size) == ByteRange(0, IF size < 1 THEN 1 ELSE size)

Card(readable, outline, affordances) ==
  [outcome |-> "card", readable |-> readable, outline |-> outline,
   affordances |-> affordances]

Built(r) ==
  IF IsRendered(r) THEN [outcome |-> "rendered", rendered |-> r]
  ELSE Raised("ValueError")

(* What a handler declares when it was given what they take.               *)
When(condition, names) == {n \in names : condition}

Degradation(what) == [what |-> what, of |-> {}]

(* The character at which each of the chunks starts, and the end of all.   *)
Starts(chunks) ==
  LET at[i \in 1 .. Len(chunks) + 1] ==
        IF i = 1 THEN 0 ELSE at[i - 1] + Len(chunks[i - 1])
  IN  at

Text(chunks) == FlattenSeq(chunks)

(* Chunks to the segments of a map, one locator each.                      *)
Mapped(chunks, locators) ==
  LET at == Starts(chunks)
  IN  [i \in DOMAIN chunks |->
        [start |-> at[i], end |-> at[i + 1], locator |-> locators[i]]]

(* Mutant of Between: a barrier before every chunk but the last.           *)
BetweenShifted(chunks) ==
  LET at == Starts(chunks) IN [i \in 1 .. Len(chunks) - 1 |-> at[i]]

(* A barrier before every chunk but the first.                             *)
Between(chunks) == LET at == Starts(chunks) IN [i \in 1 .. Len(chunks) - 1 |-> at[i + 1]]

(* Parts joined by one separator, which is a line break or a delimiter.    *)
Joined(parts) ==
  FlattenSeq([i \in DOMAIN parts |->
               IF i < Len(parts) THEN Append(parts[i], Glue) ELSE parts[i]])

(* The text of a handler about a file it has nothing from.                 *)
Summary == [i \in 1 .. 3 |-> Written]

----------------------------------------------------------------------------
(* A page of a document as a picture (handlers/page_images.py), which the  *)
(* converter draws.  A document knows how many pages it converts to, and   *)
(* converted = 0 is one the converter, or its disk, does nothing with.     *)

PageImageAffordance == {"page_image"}
PageImageRequires(name) == When(name = "page_image", {"document_render"})

(* Not degraded: the note says that it is a rendering.                     *)
RenderingProvenance == {"rendered by a converter"}

RenderPageImage(doc, page) ==
  IF page <= doc.converted
  THEN Answer(PageRef(page), Words, FALSE, RenderingProvenance)
  ELSE Excused(WholeFile(doc.size))

=============================================================================
