SPECIFICATION Spec
CONSTANTS
  Workers = {w1, w2}
  Runs = {r1, r2}
  Profiles = {}
  ItemIds = {i1, i2, i3}
  ExternalIds = {"x1", "x2"}
  Vacancies = {"v1"}
  KnownVacancies = {"v1"}
  Texts = {}
  Filters = {}
  Totals = {7}
  Errors = {"e"}
  Drives <- OwnDrives
  Patches = {}
  Starts <- OwnStarts
  NewItems <- OwnNewItems
  Finalizes <- MCFinalizes
  Blank = Blank
  NULL = NULL
SYMMETRY ItemSymmetry
PROPERTIES ImplementsLedger
