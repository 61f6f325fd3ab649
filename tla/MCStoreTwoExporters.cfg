SPECIFICATION Spec
CONSTANTS
  i1 = i1  i2 = i2  c1 = c1  c2 = c2  e1 = e1  e2 = e2  k1 = k1
  Ids <- MCIds
  Classes <- MCClasses
  Callers <- MCCallers
  Exporters <- TwoExporters
  NoTrace = NoTrace
  NoCallback = NoCallback
  MaxConns = 1
  Repromote = FALSE
  Oldest = 0
  MaxTime = 0
  MaxRows = 2
  MaxFaults = 0
  MaxCrashes = 0
SYMMETRY Symmetry
CHECK_DEADLOCK FALSE
INVARIANTS
  EveryWiredExporterIsSent
