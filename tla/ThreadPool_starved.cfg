SPECIFICATION FairSpec
CONSTANTS
  Workers = {w1, w2}
  Callers = {main}
  importA = importA
  importB = importB
  meshA = meshA
  meshB = meshB
  plain = plain
  Tasks <- TwoImports
  Roots <- TwoRoots
  Children <- TwoChildren
  NoTask = NoTask
PROPERTIES EveryFutureReady
CHECK_DEADLOCK FALSE
