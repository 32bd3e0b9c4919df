\* Back-pressure on the last fragment of a run.
CONSTANTS
  FragmentsPerEvent = 1
  QueueSize = 1
  SeqIDModulus = 1
  FragmentIDs = 1
  Width = 3
  MaxRun = 1
  MaxSeq = 2
  MaxSession = 1
SPECIFICATION Spec
INVARIANTS
  FlushUnderLock
