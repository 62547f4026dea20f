SPECIFICATION Spec
CONSTANTS
  Workers = {w1, w2}
  VacancyIds = {r1}
  CompanyIds = {e1, e2}
  RawIds <- MCRawIds
  Canon <- MCCanon
  Names = {"n1", "n2"}
  Fields <- MCFields
  Values = {0, 1}
  Statuses = {"new"}
  New = "new"
  Sites = {"site"}
  Keys = {"k1"}
  Creates <- MCCreates
  Ingests <- MCFewIngests
  MaxClock = 2
  NULL = NULL
INVARIANTS SeenInOrder
PROPERTIES OnlyOvertakenIngestsTurnBack RequestsEnd
