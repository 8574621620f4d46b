SPECIFICATION FairSpec
CONSTANTS
  t1 = t1
  t2 = t2
  a1 = a1
  a2 = a2
  b1 = b1
  b2 = b2
  b3 = b3
  c1 = c1
  c2 = c2
  NoAgent = NoAgent
  Tasks = {t1, t2}
  Agents = {a1, a2, b1, b2, b3, c1, c2}
  LateAgents = {b1, b2, b3}
  Launches <- AnyEngine
  ClockSteps <- StepsOfTheClock
  TaskOf <- ThreeEngines
  Times = {0, 1}
INVARIANTS
  RecordKeepsUp
  EndIsHonest
PROPERTIES
  CancelledNeverSucceeds
  EveryExecutionEnds
  KeepsLifecycle
CHECK_DEADLOCK FALSE
