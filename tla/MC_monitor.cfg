SPECIFICATION Spec
CONSTANTS
  Tables = {jobs}
  Sources = {status}
  Kinds = {k1}
  Queries = {k2}
  Anything = anything
  Workers = {w1, w2}
  Key = key
  MaxVersion = 2
  MaxChanges = 1
INVARIANTS TableMatches FilterVisible
PROPERTIES NeverBackward Converges
CHECK_DEADLOCK FALSE
