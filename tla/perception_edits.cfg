\* Files change at any time, between the chunks of one hash too: both memos.
CONSTANTS
  A = A
  B = B
  text = text
  slides = slides
  Tasks = {t1, t2}
  Uris = {u1}
  Contents = {A, B}
  Mimes = {text, slides}
  Sniff <- TwoKinds
  Annotated = {}
  OptedOut = {text, slides}
  Revisions = {r1}
  MaxEdits = 2
  MaxLate = 1
  Chunks = 2
  UseStatMemo = TRUE
  UseResolutionMemo = TRUE
  EditsDuringCalls = TRUE
  Gone = Gone
  None = None
  Corrupt = Corrupt
SPECIFICATION Spec
SYMMETRY AlikeSymmetry
INVARIANT UndisturbedHashes
INVARIANT HashFromThisCall
INVARIANT UndisturbedRef
