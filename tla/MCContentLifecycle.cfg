SPECIFICATION Spec
CONSTANTS
  d1 = d1
  d2 = d2
  Drafts <- OneDraft
  MaxVersions = 3
  MaxQueued = 2
  MaxAttempts = 4
  MaxRetries = 3
INVARIANTS TypeOK Coupling LogAccounting SnapshotSound
PROPERTIES PublishedIsFinal ApprovedContentKept OffScheduleKept
