\* One run of one session, two senders.
CONSTANTS
  FragmentsPerEvent = 2
  QueueSize = 1
  SeqIDModulus = 1
  FragmentIDs = 2
  Width = 3
  MaxRun = 1
  MaxSeq = 2
  MaxSession = 1
SPECIFICATION Spec
INVARIANTS
  BlockedUntilClockedIn
  StoreNotShared
