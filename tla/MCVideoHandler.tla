--------------------------- MODULE MCVideoHandler ---------------------------
(* Bounds for VideoHandler: two or three moments, no or up to two cues.    *)
EXTENDS VideoHandler, TLC

Wired(models, subtitler, transcriber, extractor) ==
  [vision |-> models, captions |-> subtitler, transcriber |-> transcriber,
   audio |-> extractor, watcher |-> models]

SomeHandlers ==
  {Wired(TRUE, TRUE, TRUE, TRUE), Wired(TRUE, FALSE, TRUE, FALSE),
   Wired(FALSE, TRUE, FALSE, FALSE)}

Video(duration, moving, subtitles) ==
  [duration |-> duration, moving |-> moving, subtitles |-> subtitles]

SomeVideos ==
  {Video(30, TRUE, TRUE), Video(44, TRUE, FALSE), Video(0, TRUE, TRUE)}

Cue(start, end) == [start |-> start, end |-> end]

(* None; two at the instant of a moment; two at the end of a file, one of  *)
(* them outside; one outside.                                              *)
SomeCues ==
  {<<>>, <<Cue(20, 25), Cue(20, 60)>>, <<Cue(29, 50), Cue(43, 46)>>, <<Cue(50, 60)>>}

SomeCuts == {{}, {3}, {21, 90}}

SomeBudgets == {Unlimited, 5}

Lengths ==
  [says \in Outcomes \cup {"said", "captioned", "summary"} |->
    CASE says = "described" -> 3 [] says = "failed" -> 1 [] OTHER -> 2]

=============================================================================
