SPECIFICATION RegistrySpec
CONSTANTS
  c1 = c1
  c2 = c2
  m1 = m1
  p1 = p1
  Free = Free
  Dead = Dead
  Clients = {c1, c2}
  Payloads = {m1, p1}
  States = {m1}
  Foreign = {p1}
  RecordSets = {}
  MaxEvents = 3
INVARIANT NoDuplicateLink
