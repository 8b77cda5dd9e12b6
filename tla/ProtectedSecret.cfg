\* Two managers and one TPM2_Clear
SPECIFICATION Spec
CONSTANTS
  Managers = {m1, m2}
  Inputs <- SomeInputs
  MaxSeeds = 2
SYMMETRY Symmetry
INVARIANT TypeOK
INVARIANT IntactSecretOpens
 
