SPECIFICATION Spec
CONSTANTS
  Workers = {w1, w2}
  VacancyIds = {r1, r2}
  CompanyIds = {e1, e2}
  RawIds <- MCRawIds
  Canon <- MCCanon
  Names = {"n1", "n2"}
  Fields <- MCFields
  Values = {0, 1}
  Statuses = {"new", "shortlisted"}
  New = "new"
  Sites = {"site"}
  Keys = {"k1"}
  Creates <- MCCreates
  Ingests <- MCIngests
  MaxClock = 0
  NULL = NULL
SYMMETRY Symmetry
INVARIANTS TypeOK UniqueRows PromisesKept NobodyWaitsForAWaiter
PROPERTIES OnlyUsersDecide OnlyCrossedIngestsTear ImplementsCatalog
