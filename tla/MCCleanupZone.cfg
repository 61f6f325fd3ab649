SPECIFICATION CleanSpec
CONSTANTS
  i1 = i1  c1 = c1  e1 = e1  d1 = d1  b1 = b1  k1 = k1  k2 = k2
  q1 = q1  q12 = q12  r1 = r1  r2 = r2
  Ids <- OneId
  Classes <- OneClass
  Callers <- MCCallers
  Exporters <- NoExporters
  NoTrace = NoTrace
  NoCallback = NoCallback
  MaxConns = 1
  Repromote = FALSE
  Oldest <- TwoHoursAgo
  MaxTime = 1
  MaxRows = 1
  MaxFaults = 0
  MaxCrashes = 0
  Conditions <- OneCondition
  Satisfies <- OneSatisfies
  HourSpan = 100
  DefaultTTL = 2
  Cleaners <- OneCaller
  Background <- NoLoop
  RuleIds <- OneRule
  NoRule = NoRule
  TTLs <- OneHour
  StartRules <- NoRules
  MaxEdits = 0
  Zone = 1
PROPERTIES
  NoEarlyDeletion
