\* Two instances, four calls, one Redis failure, a threshold of three.
SPECIFICATION Spec
CONSTANTS
  c1 = c1  c2 = c2  c3 = c3  i1 = i1  i2 = i2  None = None
  Instances = {i1, i2}
  Callers = {c1, c2, c3}
  InstanceOf <- TwoAndOne
  Threshold = 3
  Cooldown = 1
  HasFallback = FALSE
  MaxTime = 3
  MaxCalls = 4
  MaxFaults = 1
SYMMETRY Alike
INVARIANTS FailuresAreCounted NeverShutForGood
PROPERTY OnlySuccessCloses
CHECK_DEADLOCK FALSE
