CONSTANTS
  Batches <- MCBatches
  MaxExtends = 1
SPECIFICATION Spec
INVARIANTS
  TypeOK
  ExitCodeTellsStage
  LeftoversExplained
  InitializedOnce
  BatchAllOrNothing
PROPERTY Exits
