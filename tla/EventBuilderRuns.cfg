\* Two sessions, of two runs or of one paused run; events that stay incomplete; with fairness.
CONSTANTS
  FragmentsPerEvent = 2
  QueueSize = 1
  SeqIDModulus = 1
  FragmentIDs = 1
  Width = 3
  MaxRun = 2
  MaxSeq = 1
  MaxSession = 2
SPECIFICATION FairSpec
INVARIANTS
  StartNeverBlocks
  OwnRun
  SubrunsClosed

  
