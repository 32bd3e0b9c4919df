\* Either role; one event builder in two sessions or two in one; with fairness.
CONSTANTS
  MaxSender = 2
  InFlight = 2
  MaxStreams = 2
  MaxData = 1
  MaxCopies = 3
SPECIFICATION FairSpec
INVARIANTS
  LoggerComplete
PROPERTIES
  MarkerLast
  MonitorStreamSpec
  
