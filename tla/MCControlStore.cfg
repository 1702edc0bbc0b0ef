SPECIFICATION Spec
CONSTANTS
  c1 = c1
  c2 = c2
  c3 = c3
  f1 = f1
  f2 = f2
  f3 = f3
  o1 = o1
  o2 = o2
  Free = Free
  Dead = Dead
  Clients = {c1, c2, c3}
  Files <- MCFiles
  Objects <- MCObjects
  ObjectOf <- MCObjectOf
  PrivacyRank <- MCPrivacyRank
  CollectionRank = 1
  Times = {1, 2}
  Changes <- MCChanges
  MaxSnapshots = 3
INVARIANTS TypeOK HeadVerifies
PROPERTIES HeadAdvances AbandonedStaysUnusable RegisterSpec
