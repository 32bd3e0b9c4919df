\* Two runs of two subruns, groups of two sequence IDs, one place in the queue.
CONSTANTS
  FragmentsPerEvent = 2
  QueueSize = 1
  SeqIDModulus = 2
  FragmentIDs = 1
  Width = 3
  MaxRun = 2
  MaxSeq = 3
  MaxSubrun = 2
SPECIFICATION AllSpec
INVARIANTS
  GroupedBySequence
  NeverComplains
  ShutdownDelivers
PROPERTIES
  RecordsSubruns
