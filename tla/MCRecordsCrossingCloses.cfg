SPECIFICATION Spec
CONSTANTS
  Workers = {w1, w2}
  Ids = {i1, i2}
  Keys = {"k1", "k2"}
  Identities = {"x1", "x2"}
  Vacancies = {"v1"}
  Companies = {"c1", "c2"}
  Scorings = {"s1"}
  Notes = {"n1", "n2"}
  Results = {"up", "down", Blank}
  Blank = Blank
  Empty = ""
  Requests <- MCHypotheses
  NULL = NULL
PROPERTIES FirstResultKept
