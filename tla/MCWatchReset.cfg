SPECIFICATION Spec
CONSTANTS
  c1 = c1
  c2 = c2
  x1 = x1
  Contents <- MCContents
  Broken <- MCBroken
  None = None
  Exited = Exited
  Unlimited = Unlimited
  Iterations = Unlimited
  MaxCaptures = 2
  MaxFailures = 2
  Flaky = FALSE
PROPERTIES
  ResetAfterSuccesses
CHECK_DEADLOCK FALSE
