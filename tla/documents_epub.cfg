SPECIFICATION Spec
CONSTANTS
  Unlimited = 999
  Side = 2
  AlphabetSize = 3
  ListedCells = 2
  ListedPages = 2
  MinCueSpan = 2
  Deployments <- OneDeployment
  Files <- PlateInTheMiddle
  Budgets = {999, 1, 5}
  Asks <- SomeAsks
  Said = {"words", "blank", "fails"}
INVARIANT Represented
