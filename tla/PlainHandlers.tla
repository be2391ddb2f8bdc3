----------------------------- MODULE PlainHandlers -----------------------------
(***************************************************************************)
(* What is read without a format: plain text (handlers/text.py), a file    *)
(* [text], where how its bytes become characters is left to the detection  *)
(* of their encoding, and what no other handler reads (handlers/binary.py),*)
(* a file [bytes].                                                         *)
(***************************************************************************)
EXTENDS HandlerAnswers

Affordances == {"read_range"}

Describe(file) ==
  Card(TRUE, IF file.text = <<>> THEN <<>> ELSE <<CharSpan(0, Len(file.text))>>,
       Affordances)

(* A range beyond the end is answered with the last character.             *)
ReadRange(file, ask) ==
  LET length == Len(file.text)
      start == Max({0, Min({ask.start, length - 1})})
      end == Max({start + 1, Min({ask.end, length})})
  IN  IF length = 0 THEN Raised("DomainError")
      ELSE Located(CharSpan(start, end), SubSeq(file.text, start + 1, end))

Invoke(file, ask) ==
  IF ask.name \in Affordances THEN ReadRange(file, ask) ELSE Raised("UnknownAffordance")

(* The text that says that the file is empty is never cut.                 *)
Represent(file, budget) ==
  LET cut == budget # Unlimited /\ Len(file.text) > budget
      text == CASE file.text = <<>> -> Summary
                [] file.text # <<>> /\ cut -> SubSeq(file.text, 1, Max({1, budget}))
                [] file.text # <<>> /\ ~cut -> file.text
      told == CASE file.text = <<>> -> <<Degradation("synthesized description")>>
                [] file.text # <<>> /\ cut -> <<Degradation("text truncated")>>
                [] file.text # <<>> /\ ~cut -> <<>>
  IN  Built(Whole(text, Mapped(<<text>>, <<CharSpan(0, Len(text))>>), <<>>, told))

----------------------------------------------------------------------------
(* What no other handler reads.                                            *)

BinaryAffordances == {"hexdump"}

DescribeBytes(file) == Card(TRUE, <<>>, BinaryAffordances)

(* Beyond the end there is nothing, at a place of one byte.                *)
Hexdump(file, ask) ==
  LET window == SubSeq(file.bytes, ask.start + 1,
                       Min({ask.start + ask.length, Len(file.bytes)}))
  IN  IF ask.name \in BinaryAffordances
      THEN Located(ByteRange(ask.start, ask.start + Max({1, Len(window)})), window)
      ELSE Raised("UnknownAffordance")

(* Of a text that is cut only the cut is told.                             *)
RepresentBytes(file, budget) ==
  LET cut == budget # Unlimited /\ Len(Summary) > budget
      text == IF cut THEN SubSeq(Summary, 1, Max({1, budget})) ELSE Summary
  IN  Built(Whole(text, Mapped(<<text>>, <<WholeFile(Len(file.bytes))>>), <<>>,
                  <<Degradation(IF cut THEN "text truncated"
                                ELSE "synthesized description")>>))

=============================================================================
