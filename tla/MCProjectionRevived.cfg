SPECIFICATION Spec
CONSTANTS
  a = a
  b = b
  c = c
  l = l
  d1 = d1
  d2 = d2
  u1 = u1
  D1 = D1
  D2 = D2
  Keys <- MCKeys
  KeyOrder <- MCKeyOrder
  DomainOf <- MCDomainOf
  ClassOf <- MCClassOf
  Docs = {d1, d2, u1}
  Updates = {u1}
  ContentsOf <- MCContentsOf
  GroupChoices <- MCGroupChoices
  Proposals <- MCProposals
  BatchSize = 2
  RetireGrouped = FALSE
  MaxOps = 4
INVARIANT OnlyCurrentRelations
CHECK_DEADLOCK FALSE
