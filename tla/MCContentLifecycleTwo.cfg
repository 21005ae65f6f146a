SPECIFICATION Spec
CONSTANTS
  d1 = d1
  d2 = d2
  Drafts <- TwoDrafts
  MaxVersions = 1
  MaxQueued = 1
  MaxAttempts = 2
  MaxRetries = 2
SYMMETRY Symmetry
PROPERTY PublicationKept
