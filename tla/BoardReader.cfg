\* Two generators, two event builders, two buffers; a run that is paused, or two runs.
SPECIFICATION FairSpec
CONSTANTS
  BufferCount = 2
  DestCount = 2
  BroadcastSends = FALSE
  Children = 2
  MaxFragment = 2
  MaxSession = 2
INVARIANTS
  EODAnnouncesItsData
  EveryFragmentSent
  CarriedAsGiven
  SessionsClosed
PROPERTIES
  CommandsReturn
