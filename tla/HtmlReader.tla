------------------------------ MODULE HtmlReader ------------------------------
(***************************************************************************)
(* From the markup of a page to its blocks of prose (adapters/             *)
(* html_text.py).  A source is a sequence of tokens [kind, tag, chars,     *)
(* width]: a "start" or an "end" tag, or "text", whose characters are      *)
(* [mark, width], for an entity is one character of several of the source. *)
(*                                                                         *)
(* A character of prose keeps its place in the source.                     *)
(***************************************************************************)
EXTENDS HandlerAnswers

Skipped == {"script", "style"}
BlockTags == {"p", "div", "h1"}
HeadingTags == {"h1"}

(* Where each token starts in the source, and where the source ends.       *)
Offsets(source) ==
  LET at[i \in 1 .. Len(source) + 1] ==
        IF i = 1 THEN 0 ELSE at[i - 1] + source[i - 1].width
  IN  at

(* The characters of a token of text that starts at from.                  *)
Prose(token, from) ==
  LET at[i \in 1 .. Len(token.chars) + 1] ==
        IF i = 1 THEN from ELSE at[i - 1] + token.chars[i - 1].width
  IN  [i \in DOMAIN token.chars |-> Char(CharSpan(at[i], at[i + 1]), token.chars[i].mark)]

(* White space collapsed: none at the ends, and one between words.         *)
Collapsed(text) ==
  LET black(i) == text[i].mark # 0
      kept == SelectSeq([i \in DOMAIN text |-> i], LAMBDA i :
                black(i) \/ /\ i > 1 /\ black(i - 1)
                            /\ \E j \in i + 1 .. Len(text) : black(j))
  IN  [i \in DOMAIN kept |-> text[kept[i]]]

(* What the reader holds: no start of a block is -1.                       *)
Fresh == [blocks |-> <<>>, title |-> <<>>, chunks |-> <<>>, start |-> -1,
          heading |-> FALSE, skipping |-> 0, inTitle |-> FALSE]

Flush(r, end) ==
  LET text == Collapsed(r.chunks)
      span == CharSpan(r.start, Max({end, r.start + 1}))
      block == [heading |-> r.heading, text |-> text, span |-> span]
  IN  [r EXCEPT !.blocks = IF text # <<>> /\ r.start # -1 THEN Append(@, block) ELSE @,
                !.chunks = <<>>, !.start = -1, !.heading = FALSE]

(* A block is flushed where the next one starts, and its span starts after *)
(* its tag.                                                                *)
HandleStartTag(r, token, here) ==
  CASE token.tag \in Skipped -> [Flush(r, here) EXCEPT !.skipping = @ + 1]
    [] token.tag \notin Skipped /\ r.skipping > 0 -> r
    [] token.tag = "title" /\ r.skipping = 0 -> [r EXCEPT !.inTitle = TRUE]
    [] token.tag \in BlockTags /\ r.skipping = 0 ->
         [Flush(r, here) EXCEPT !.start = here + token.width,
                                !.heading = token.tag \in HeadingTags]
    [] OTHER -> r

HandleEndTag(r, token, here) ==
  CASE token.tag \in Skipped -> [r EXCEPT !.skipping = Max({0, @ - 1})]
    [] token.tag \notin Skipped /\ r.skipping > 0 -> r
    [] token.tag = "title" /\ r.skipping = 0 -> [r EXCEPT !.inTitle = FALSE]
    [] token.tag \in BlockTags /\ r.skipping = 0 -> Flush(r, here)
    [] OTHER -> r

(* Mutant of HandleData: a block starts with the last of its pieces.       *)
HandleDataRestarting(r, token, here) ==
  LET text == Prose(token, here)
  IN  CASE r.skipping > 0 -> r
        [] r.skipping = 0 /\ r.inTitle ->
             [r EXCEPT !.title = IF IsBlank(text) THEN @ ELSE Collapsed(text)]
        [] r.skipping = 0 /\ ~r.inTitle /\ r.start = -1 /\ IsBlank(text) -> r
        [] r.skipping = 0 /\ ~r.inTitle /\ ~(r.start = -1 /\ IsBlank(text)) ->
             [r EXCEPT !.start = here, !.chunks = @ \o text]

(* Text outside of any block starts one, unless it is white space.         *)
HandleData(r, token, here) ==
  LET text == Prose(token, here)
  IN  CASE r.skipping > 0 -> r
        [] r.skipping = 0 /\ r.inTitle ->
             [r EXCEPT !.title = IF IsBlank(text) THEN @ ELSE Collapsed(text)]
        [] r.skipping = 0 /\ ~r.inTitle /\ r.start = -1 /\ IsBlank(text) -> r
        [] r.skipping = 0 /\ ~r.inTitle /\ ~(r.start = -1 /\ IsBlank(text)) ->
             [r EXCEPT !.start = IF @ = -1 THEN here ELSE @, !.chunks = @ \o text]

Read(source) ==
  LET at == Offsets(source)
      step(r, i) ==
        CASE source[i].kind = "start" -> HandleStartTag(r, source[i], at[i])
          [] source[i].kind = "end" -> HandleEndTag(r, source[i], at[i])
          [] source[i].kind = "text" -> HandleData(r, source[i], at[i])
  IN  Flush(FoldLeft(step, Fresh, [i \in DOMAIN source |-> i]), at[Len(source) + 1])

HtmlBlocks(source) == Read(source).blocks

(* The blocks of a section, each a chunk with its separator, the last with *)
(* one more: the section's.                                                *)
Separated(blocks) ==
  [i \in DOMAIN blocks |->
    blocks[i].text \o (IF i = Len(blocks) THEN <<Glue, Glue>> ELSE <<Glue>>)]

(* The characters of a text that a range names, at least one of them.      *)
Clipped(ask, length) ==
  LET start == Max({0, Min({ask.start, length - 1})})
  IN  [start |-> start, end |-> Max({start + 1, Min({ask.end, length})})]

(* The places of the segments that a range touches.                        *)
Touched(segments, range) ==
  LET hit == SelectSeq(segments, LAMBDA s : s.start < range.end /\ s.end > range.start)
  IN  [i \in DOMAIN hit |-> hit[i].locator]

=============================================================================
