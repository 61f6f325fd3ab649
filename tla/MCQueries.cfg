SPECIFICATION Spec
CONSTANTS
  Kinds <- MCKinds
  Times = {0, 1}
  Filters <- MCFilters
  Lists <- MCLists
  Aggregates <- MCAggregates
  PlainKeys = {"env"}
  Top = 2
  MaxRows = 3
  MaxDeletes = 1
CHECK_DEADLOCK FALSE
INVARIANTS
  TypeOK
  WalkMissesNothing
  TotalFitsPage
  OfferedOptionsSelect
  AggregateIsTrue
