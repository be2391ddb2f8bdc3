\* Three workers, two keys, one with two values it may yield, four files.
CONSTANTS
  k1 = k1
  k2 = k2
  v1 = v1
  v2 = v2
  v3 = v3
  Keys = {k1, k2}
  Values = {v1, v2, v3}
  Workers = {w1, w2, w3}
  Files = {f1, f2, f3, f4}
  NoEntry = NoEntry
  NoFile = NoFile
  Truncated = Truncated
  Candidates <- OneOfTwoValues
SPECIFICATION Spec
SYMMETRY Symmetry
INVARIANT WholeHits
PROPERTY FirstStays
