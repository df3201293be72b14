CONSTANTS
  crate = crate
  rock = rock
  none = none
  Bodies = {1, 2}
  Models = {crate, rock}
  NoModel = none
  Levels <- ThreeLevels
  MaxRetries = 1
  ConfirmOnSceneClose = TRUE
SPECIFICATION FairSpec
INVARIANTS TypeOK BakesAreOwned BoxOnlyIfBothKinds RuntimeRuns
PROPERTY StartsSettle
CHECK_DEADLOCK FALSE
