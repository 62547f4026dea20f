SPECIFICATION Spec
CONSTANTS
  Workers = {w1, w2, w3}
  Dates = {"d1", "d2"}
  Keys = {"k1", "k2", "k3", "k4"}
  Fields = {"replies", "notes"}
  Values = {1, 2}
  Requests <- MCRequests
  NULL = NULL
SYMMETRY Symmetry
INVARIANTS TypeOK NothingLost
PROPERTIES AppliedOnce OnlyCrossedPutsYield
