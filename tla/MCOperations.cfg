SPECIFICATION Spec
CONSTANTS
  x1 = x1
  None = None
  ClientIds <- MCClientIds
  MaxContexts = 4
  RecordIds <- MCClientIds
  MaxEvents = 3
CHECK_DEADLOCK FALSE
INVARIANTS
  TypeOK
  TracesAreSeparate
  KeysAreUnique
  LinksAreTrue
  TagsAreFresh
