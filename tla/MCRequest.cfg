SPECIFICATION Spec
CONSTANTS
  MaxBodySize = 2
  MinCode = 500
  FinalCodes <- MCFinal
  InfoCodes <- EarlyHints
  Flushers <- AnyFlush
  Redactors <- AllRedactors
  MaxSent = 4
  MaxWritten = 4
CHECK_DEADLOCK FALSE
INVARIANTS
  TypeOK
  StatusIsSentOrFlushed
  FinalFailuresArePromoted
  ResponseBodyIsPrefix
  HandlerReadsSentBody
