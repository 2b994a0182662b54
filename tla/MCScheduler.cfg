SPECIFICATION LiveSpec
CONSTANTS
  Generate = Generate
  NoDoc = NoDoc
  Never = Never
  Ids = {1, 2}
  Handlers = {h1}
  s1 = s1
  s2 = s2
  Instances <- MCInstances
INVARIANT SchedulerInv
PROPERTY DueOneShotFires
CHECK_DEADLOCK FALSE
