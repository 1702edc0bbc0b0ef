SPECIFICATION Spec
CONSTANTS
  asker = asker
  replayer = replayer
  Askers = {asker}
  Replayers = {replayer}
  NoRoster = NoRoster
  Subject = "q"
  Configs <- MCConfigs
  Requests <- MCRequests
  Newest = Newest
  Histories <- MCHistories
  Events <- MCEvents
  Cached <- MCCached
  Live = {FALSE}
  Sampled = {1}
  MaxAsked = 1
  MaxRuns = 2
  MaxHeads = 2
  MaxLedger = 2
INVARIANTS TypeOK StatesRestOnTheLedger ReplaysLoseNoEvidence UnallowedReplaysKeepTheCouncil TimelineIsAForest
