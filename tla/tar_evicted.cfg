\* A reader opens the copy it was given, after another has had it evicted.
CONSTANTS
  plain = plain
  small = small
  middle = middle
  large = large
  bomb = bomb
  Readers = {r1, r2}
  Archives = {plain, small, middle, large, bomb}
  Plain = {plain}
  Size <- Sizes
  Bound = 3
  Copies = {n1, n2, n3}
  MaxLate = 1
  Torn = Torn
  None = None
SPECIFICATION Spec
INVARIANT CopyStillThere
