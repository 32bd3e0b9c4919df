\* Fewer buffers than sources, polled with MPI_Testsome; with fairness.
CONSTANTS
  SrcCount = 3
  BufferCount = 2
  MaxFragments = 2
  Polling = TRUE
  ForcedExit = FALSE
SPECIFICATION FairSpec
INVARIANTS
  TypeOK
  DoneMeansAllDelivered
  NoLogicError
  CancelDropsNothing
  ActiveSourceListened
PROPERTIES
  AllEventuallyDone
