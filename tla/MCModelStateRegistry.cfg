SPECIFICATION RegistrySpec
CONSTANTS
  c1 = c1
  c2 = c2
  m1 = m1
  p1 = p1
  Free = Free
  Dead = Dead
  Clients = {c1, c2}
  Payloads = {m1, p1}
  States = {m1}
  Foreign = {m1, p1}
  RecordSets <- MCRecordSets
  MaxEvents = 4
INVARIANTS TypeOK HistoryListable RegistryTypeOK CapturedIsLinked
PROPERTIES WedgedStaysHeadless UnverifiableForever LogSpec
