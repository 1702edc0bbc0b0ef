SPECIFICATION Spec
CONSTANTS
  MaxEntries = 50
  Files <- MCFiles
  ObjectOf <- MCObjectOf
  PrivacyRank <- MCPrivacyRank
  CollectionRank = 1
  Snapshots <- MCSnapshots
  Members <- MCMembers
  Events <- MCEvents
  Cites <- MCCites
  Before <- MCBefore
  Root = "root"
  Bound = "s2"
  Replays = {"r"}
  Start <- MCStart
  Jobs = {j1}
  Outputs = {d1}
  Targets = {t1}
  MaxStarts = 1
  Sources = {"s"}
  Versions = {"v0", "v1"}
  PackOf <- MCPackOf
  ExportSpecs <- MCExportSpecs
  ClassRank <- MCClassRank
  Builders = {b1, b2}
  b1 = b1
  b2 = b2
  p1 = p1
  p2 = p2
  MaxEdits = 1
  Mutations = {"file.put"}
  Proposers = {p1, p2}
  Votes = {0, 1}
  MaxCommits = 2
SYMMETRY CallSymmetry
INVARIANTS TypeOK RecoveriesAreSound VerifiedTreesAreOneExport ReceiptsAreCommitted
CHECK_DEADLOCK FALSE
