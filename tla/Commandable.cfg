\* The three applications; initialize and shutdown may fail, the board reader's generator may throw.
SPECIFICATION FairSpec
INVARIANTS
  TypeOK
  LegalCommandsAccepted
  DataTakingInRun
  MetricsRun
  CoreUsable
PROPERTIES
  CommandsEnd
