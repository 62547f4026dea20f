SPECIFICATION Spec
CONSTANTS
  Workers = {w1, w2}
  ContextIds = {p1, p2}
  VersionIds = {1, 2, 3}
  ResumeIds = {"A", "B"}
  Titles = {"t"}
  Contents <- MCContents
  Traffic <- MCTraffic
  MaxClock = 3
  NULL = NULL
SYMMETRY Symmetry
INVARIANTS TypeOK SingleOperator ActiveWasSelected StoredIsKept StoredIsCanonical
PROPERTIES OnlyCrossedPutsTear UnchangedAddsNothing ImplementsCurrentCopy
