------------------------------ MODULE HtmlHandler ------------------------------
(***************************************************************************)
(* Pages of HTML (handlers/html.py).  A page is [size, source].  A range   *)
(* is asked for in the prose, and an answer is located in the source.      *)
(***************************************************************************)
EXTENDS HtmlReader

Affordances == {"read_section", "read_range"}

(* A section is a heading and the blocks up to the next, or the blocks     *)
(* before the first.                                                       *)
Sections(blocks) ==
  LET opens == SelectSeq([i \in DOMAIN blocks |-> i],
                         LAMBDA i : i = 1 \/ blocks[i].heading)
      last(k) == IF k < Len(opens) THEN opens[k + 1] - 1 ELSE Len(blocks)
  IN  [k \in DOMAIN opens |-> SubSeq(blocks, opens[k], last(k))]

Parsed(page) == Sections(HtmlBlocks(page.source))

(* The text is prose and its places are of the source; the outline counts  *)
(* in the prose.                                                           *)
Flatten(sections) ==
  LET blocks == FlattenSeq(sections)
      chunks == FlattenSeq([k \in DOMAIN sections |-> Separated(sections[k])])
      units == [k \in DOMAIN sections |-> Text(Separated(sections[k]))]
      at == Starts(units)
  IN  [text |-> Text(chunks),
       segments |-> Mapped(chunks, [i \in DOMAIN blocks |-> blocks[i].span]),
       barriers |-> Between(units),
       outline |-> [k \in DOMAIN units |-> CharSpan(at[k], at[k + 1])]]

Describe(page) == Card(TRUE, Flatten(Parsed(page)).outline, Affordances)

(* The one span from the first block of a section to its last.             *)
ReadSection(sections, ask) ==
  LET blocks == sections[ask.index + 1]
  IN  IF ask.index >= Len(sections) THEN Raised("DomainError")
      ELSE Located(CharSpan(Head(blocks).span.start, Last(blocks).span.end),
                   Joined([i \in DOMAIN blocks |-> blocks[i].text]))

(* The span of all the blocks that the range touches.                      *)
ReadRange(flat, ask) ==
  LET range == Clipped(ask, Len(flat.text))
      touched == ToSet(Touched(flat.segments, range))
  IN  IF flat.text = <<>> THEN Raised("DomainError")
      ELSE Located(CharSpan(Min({l.start : l \in touched}), Max({l.end : l \in touched})),
                   SubSeq(flat.text, range.start + 1, range.end))

Invoke(page, ask) ==
  CASE ask.name \notin Affordances -> Raised("UnknownAffordance")
    [] ask.name = "read_section" -> ReadSection(Parsed(page), ask)
    [] ask.name = "read_range" -> ReadRange(Flatten(Parsed(page)), ask)

Fitted(text, segments, barriers, budget, degradations) ==
  Built(Fit(text, segments, barriers, budget, degradations))

(* A page without a section is one without text.                           *)
RepresentFlat(page, flat, budget) ==
  IF flat.text = <<>>
  THEN Fitted(Summary, Mapped(<<Summary>>, <<WholeFile(page.size)>>), <<>>, budget,
              <<Degradation("page has no text")>>)
  ELSE Fitted(flat.text, flat.segments, flat.barriers, budget, <<>>)

Represent(page, budget) == RepresentFlat(page, Flatten(Parsed(page)), budget)

=============================================================================
