CONSTANTS
  model = model
  texture = texture
  a = a
  b = b
  None = None
  Main = Main
  Task = Task
  Callers = {Main}
  Workers = 2
  Paths <- OnePath
  Objects <- TwoObjects
SPECIFICATION Spec
PROPERTY ReadyMeansSettled
CHECK_DEADLOCK FALSE
