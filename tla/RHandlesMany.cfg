\* More buffers than sources, MPI_Waitany.
CONSTANTS
  SrcCount = 2
  BufferCount = 3
  MaxFragments = 2
  Polling = FALSE
  ForcedExit = FALSE
SPECIFICATION Spec
INVARIANTS
  EverySourceListened
PROPERTIES
  StreamSpec
