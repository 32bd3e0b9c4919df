\* Two runs of two subruns, one place in the queue; with fairness.
CONSTANTS
  FragmentsPerEvent = 2
  QueueSize = 1
  SeqIDModulus = 1
  FragmentIDs = 2
  Width = 3
  MaxRun = 2
  MaxSeq = 1
  MaxSubrun = 2
SPECIFICATION AllFairSpec
INVARIANTS
  NothingLost
  NotSplit
  ConnectionPerSubrun
  NeverComplains
  ShutdownDelivers
PROPERTIES
  RecordsSubruns
  ShutdownReturns
