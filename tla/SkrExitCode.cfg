CONSTANTS
  Batches <- MCBatches
  MaxExtends = 0
SPECIFICATION Spec
INVARIANT DocumentedExitCode
