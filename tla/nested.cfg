\* Two tasks, one of which also walks; members one, two and (too deep) three containers down.
CONSTANTS
  zip = zip
  tar = tar
  page = page
  note = note
  leaf = leaf
  seed = seed
  Tasks = {t1, t2}
  Walkers = {t1}
  Archives = {zip}
  Members = {tar, note, leaf, seed}
  Parent <- TreeParent
  Name <- TreeName
  Address <- TreeAddress
  MaxDepth = 2
  MaxLate = 1
  Torn = Torn
  None = None
SPECIFICATION FairSpec
INVARIANT FilesHoldTheirMember
INVARIANT LocksLeadOut
INVARIANT WalksAreTrue
PROPERTY StablePaths
PROPERTY CallsEnd
