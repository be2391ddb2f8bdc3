\* Files change between calls: both memos and the store, two models, a restart.
CONSTANTS
  A = A
  B = B
  text = text
  slides = slides
  Tasks = {t1, t2}
  Uris = {u1}
  Contents = {A, B}
  Mimes = {text, slides}
  Sniff <- TwoKinds
  Annotated = {slides}
  OptedOut = {}
  Revisions = {r1, r2}
  MaxEdits = 2
  MaxLate = 1
  Chunks = 1
  UseStatMemo = TRUE
  UseResolutionMemo = TRUE
  EditsDuringCalls = FALSE
  Gone = Gone
  None = None
  Corrupt = Corrupt
SPECIFICATION Spec
SYMMETRY Symmetry
INVARIANT ResolutionsCurrent
INVARIANT EntriesAreOfTheirKey
PROPERTY AnswersCurrent
