SPECIFICATION Spec
CONSTANTS
  Blocks = 2
  QueueLimit = 1
  MaxReports = 3
INVARIANTS
  UnmarkedEndIsSafe
  OnlyKnownPartIsWritten
PROPERTIES
  NothingAfterUnknown
