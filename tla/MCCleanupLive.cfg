SPECIFICATION FairCleanSpec
CONSTANTS
  i1 = i1  c1 = c1  e1 = e1  d1 = d1  b1 = b1  k1 = k1  k2 = k2
  q1 = q1  q12 = q12  r1 = r1  r2 = r2
  Ids <- OneId
  Classes <- OneClass
  Callers <- MCCallers
  Exporters <- OneExporter
  NoTrace = NoTrace
  NoCallback = NoCallback
  MaxConns = 1
  Repromote = FALSE
  Oldest <- TwoHoursAgo
  MaxTime = 1
  MaxRows = 1
  MaxFaults = 1
  MaxCrashes = 0
  Conditions <- OneCondition
  Satisfies <- OneSatisfies
  HourSpan = 100
  DefaultTTL = 2
  Cleaners <- OneLoop
  Background <- OneLoop
  RuleIds <- OneRule
  NoRule = NoRule
  TTLs <- MCTTLs
  StartRules <- ShortOrNone
  MaxEdits = 1
  Zone = 0
CHECK_DEADLOCK FALSE
PROPERTIES
  ExpiredEventuallyGone
  CancelStops
  ExportedEventually
