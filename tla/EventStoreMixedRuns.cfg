\* A flush against a full queue, then another run.
CONSTANTS
  FragmentsPerEvent = 2
  QueueSize = 1
  SeqIDModulus = 1
  FragmentIDs = 2
  Width = 3
  MaxRun = 2
  MaxSeq = 2
  MaxSubrun = 1
SPECIFICATION Spec
INVARIANTS
  SingleRunEvents
