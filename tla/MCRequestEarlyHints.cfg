SPECIFICATION Spec
CONSTANTS
  MaxBodySize = 2
  MinCode = 500
  FinalCodes <- MCFinal
  InfoCodes <- EarlyHints
  Flushers <- NoFlush
  Redactors <- CopyingRedactors
  MaxSent = 4
  MaxWritten = 4
CHECK_DEADLOCK FALSE
INVARIANTS
  FailuresArePromoted
