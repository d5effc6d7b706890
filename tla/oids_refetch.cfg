CONSTANTS
  company = company
  employee = employee
  address = address
  Types <- AllTypes
  Members <- MemberTypes
  Depth <- NestingDepth
  Queries <- SomeQueries
  NoOid = NoOid
  InvalidOid = InvalidOid
  MaxOid = 3
  MaxPending = 2
SPECIFICATION Spec
INVARIANTS
  NoRefetch
