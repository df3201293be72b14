CONSTANTS
  Modes = {"running"}
  MaxAttempts = 3
  MaxCalls = 1
SPECIFICATION FairSpec
PROPERTY LostLinkIsRetried
CHECK_DEADLOCK FALSE
