SPECIFICATION Spec
CONSTANTS
  Unlimited = 999
  Side = 2
  AlphabetSize = 3
  ListedCells = 2
  ListedPages = 2
  MinCueSpan = 2
  Deployments <- SomeDeployments
  Files <- SomeFiles
  Budgets = {999, 1, 5}
  Asks <- SomeAsks
  Said = {"words", "blank", "fails"}
INVARIANTS
  LedToItsPlace
  SegmentsReadBack
  UnitsApart
  LossesTold
  CardsKeepTheirWord
  PublishedIsAnswered
  ReadByItsOwn
  RangesReadBack
  Represented
