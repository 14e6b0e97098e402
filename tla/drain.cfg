\* Two workers, three rows of which any may share a key, two attempts each.
CONSTANTS
  N = 3
  Workers = {w1, w2}
  BatchSize = 2
  MaxAttempts = 2
  MaxLosses = 1
SPECIFICATION Spec
INVARIANT BacklogDrains
PROPERTIES DrainTerminates EveryRowResolved
