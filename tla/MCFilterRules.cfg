SPECIFICATION Spec
CONSTANTS
  p1 = p1
  p2 = p2
  x1 = x1
  Processes <- MCProcesses
  Added <- MCAdded
  Created <- MCCreated
  Indexed <- MCIndexed
  MaxFailures = 1
  Classes <- MCClasses
  Contents <- MCContents
  MaxChanges = 3
  MaxTime = 1
SYMMETRY Alike
CHECK_DEADLOCK FALSE
INVARIANTS
  TypeOK
  SchemaIsEnsured
  NobodyIsRefused
  IdsStayWithTheirRule
  OldestRuleDecides
