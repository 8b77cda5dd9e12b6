\* One process with the retry limit of the code
SPECIFICATION FairSpec
CONSTANTS
  Procs = {p1}
  Pcr = {0, 1, 2}
  AttestationPcrList = {0, 1}
  ReadLimit = 1
  MaxAttestationRetries = 3
  Platform = "SEV_SNP"
  MaxExtends <- NoisyExtends
  MaxBoots = 1
INVARIANT RetriesAbsorbNoise
PROPERTY ReleaseBound
PROPERTY CallReturns
