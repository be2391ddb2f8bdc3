\* Two members of one archive, in different folders and of one name.
CONSTANTS
  zip = zip
  tar = tar
  page = page
  note = note
  leaf = leaf
  seed = seed
  Tasks = {t1, t2}
  Walkers = {}
  Archives = {zip}
  Members = {note, page}
  Parent <- FlatParent
  Name <- FlatName
  Address <- FlatAddress
  MaxDepth = 3
  MaxLate = 1
  Torn = Torn
  None = None
SPECIFICATION Spec
INVARIANT FilesHoldTheirMember
