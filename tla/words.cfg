\* Two calls for the words of one film, on a store with entries of an earlier codec.
SPECIFICATION Spec
CONSTANTS
  Calls = {c1, c2}
  Films <- SomeFilms
  Heard <- SomeHeard
  Wirings <- SomeWirings
  OldKeys <- SomeOldKeys
  MaxEdits = 1
  MaxFailures = 1
INVARIANT AnswersAreOwn
PROPERTY CallsEnd
