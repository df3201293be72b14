CONSTANTS
  model = model
  texture = texture
  a = a
  b = b
  None = None
  Main = Main
  Task = Task
  Callers = {Main, Task}
  Workers = 2
  Paths <- TwoPaths
  Objects <- TwoObjects
SPECIFICATION FairSpec
INVARIANTS TypeOK OwnedOnce IdleMeansSettled ShutdownOutlivesTasks
PROPERTY LoadsSettle
CHECK_DEADLOCK FALSE
