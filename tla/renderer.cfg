\* Two tasks on one event loop, that may die once; one edit.
CONSTANTS
  Tasks = {t1, t2}
  Loops = {l1}
  LoopOf <- OneLoop
  Slots = 1
  MaxLoops = 1
  Documents = {d1, d2}
  Contents = {A, B}
  MaxEdits = 1
  MaxOrphans = 1
  EditsDuringCalls = FALSE
  None = None
SPECIFICATION FairSpec
INVARIANT SlotsCounted
INVARIANT ChildrenClaimed
INVARIANT PdfsCurrent
INVARIANT StoredIsEnough
PROPERTY CallsEnd
