\* Destroying the receiver with a saved batch makes its destructor throw.
CONSTANTS
  SrcCount = 2
  BufferCount = 3
  MaxFragments = 1
  Polling = TRUE
  ForcedExit = TRUE
SPECIFICATION Spec
INVARIANTS
  NoLogicError
