SPECIFICATION Spec
CONSTANTS
  Workers = {w1, w2}
  Runs = {r1}
  Profiles = {p1}
  ItemIds = {i1, i2, i3}
  ExternalIds = {"x1", "x2"}
  Vacancies = {"v1", "ghost"}
  KnownVacancies = {"v1"}
  Texts = {"t1", "t2"}
  Filters = {"f1", "f2"}
  Totals = {7}
  Errors = {"e"}
  Drives <- SharedDrives
  Patches <- MCPatches
  Starts <- MCStarts
  NewItems <- MCNewItems
  Finalizes <- MCFinalizes
  Blank = Blank
  NULL = NULL
PROPERTIES NothingAfterFinalize
