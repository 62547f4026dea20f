SPECIFICATION Spec
CONSTANTS
  Versions = {"v1", "v2"}
  Contents = {"pdf", "rtf"}
  Ids = {1, 2}
  Requests <- MCRequests
  MaxFaults = 3
  NULL = NULL
INVARIANTS TypeOK RecordedDownloads
PROPERTIES ImplementsOnceOnly PersistenceIsAnswered
