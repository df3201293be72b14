CONSTANTS
  Modes = {"loading", "running"}
  MaxAttempts = 3
  MaxCalls = 6
SPECIFICATION FairSpec
INVARIANTS TypeOK ConnectedMeansUp
PROPERTIES StaysDisconnected LiveLinkSurvives LossIsRetried
