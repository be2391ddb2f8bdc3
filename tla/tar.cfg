\* Two readers, five archives, a bound that holds the smaller two of them.
CONSTANTS
  plain = plain
  small = small
  middle = middle
  large = large
  bomb = bomb
  Readers = {r1, r2}
  Archives = {plain, small, middle, large, bomb}
  Plain = {plain}
  Size <- Sizes
  Bound = 3
  Copies = {n1, n2, n3}
  MaxLate = 1
  Torn = Torn
  None = None
SPECIFICATION FairSpec
INVARIANT CacheOnDisk
INVARIANT WithinBound
INVARIANT DecompressedOnce
PROPERTY EvictsLeastRecentlyUsed
PROPERTY ReadsEnd
