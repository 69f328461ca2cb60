CONSTANTS
  NFiles = 3
  NAlgs = 2
  MaxProcs = 2
SPECIFICATION Spec
INVARIANT
  FailedLoadCleans
