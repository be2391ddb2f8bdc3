\* Two or three moments at a time, one slot for each capability.
CONSTANTS
  Handlers <- SomeHandlers
  Videos <- SomeVideos
  CueLists <- SomeCues
  CutSets <- SomeCuts
  Budgets <- SomeBudgets
  Interval = 20
  FrameDuration = 6
  ChunkLength <- Lengths
  MaxEntries = 5
  FfmpegSlots = 1
  VisionSlots = 1
  Unlimited = Unlimited
  Raised = Raised
  None = None
SPECIFICATION FairSpec
INVARIANT SlotsCounted
INVARIANT NarratedInOrder
INVARIANT TimelineLocated
 
PROPERTY StopsAreStops
PROPERTY ReadsEnd
