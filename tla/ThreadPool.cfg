SPECIFICATION FairSpec
CONSTANTS
  Workers = {w1, w2}
  Callers = {main, other}
  importA = importA
  importB = importB
  meshA = meshA
  meshB = meshB
  plain = plain
  Tasks <- OneImport
  Roots <- OneRoots
  Children <- OneChildren
  NoTask = NoTask
INVARIANTS TypeOK ExactlyOnce NoLostWakeup JoinDrains
PROPERTIES WaitIdleIsBarrier ImplementsTaskPool EveryFutureReady CallsReturn
