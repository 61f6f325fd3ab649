SPECIFICATION CleanSpec
CONSTANTS
  i1 = i1  c1 = c1  e1 = e1  d1 = d1  b1 = b1  k1 = k1  k2 = k2
  q1 = q1  q12 = q12  r1 = r1  r2 = r2
  Ids <- OneId
  Classes <- MCClasses
  Callers <- MCCallers
  Exporters <- NoExporters
  NoTrace = NoTrace
  NoCallback = NoCallback
  MaxConns = 1
  Repromote = TRUE
  Oldest <- MCOldest
  MaxTime = 1
  MaxRows = 2
  MaxFaults = 1
  MaxCrashes = 1
  Conditions <- MCConditions
  Satisfies <- MCSatisfies
  HourSpan = 100
  DefaultTTL = 2
  Cleaners <- OneOfEach
  Background <- OneLoop
  RuleIds <- TwoRules
  NoRule = NoRule
  TTLs <- MCTTLs
  StartRules <- MCStartRules
  MaxEdits = 0
  Zone = 0
INVARIANTS
  CleanTypeOK
  PassIsComplete
  EveryRowIsCounted
PROPERTIES
  NoEarlyDeletion
  RunCleanupNeverDegrades
