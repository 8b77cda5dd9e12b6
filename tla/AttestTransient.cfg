\* One process, one attested PCR and one that is not
SPECIFICATION Spec
CONSTANTS
  Procs = {p1}
  Pcr = {0, 1}
  AttestationPcrList = {0}
  ReadLimit = 1
  MaxAttestationRetries = 3
  Platform = "TRUSTED_LAUNCH"
  MaxExtends <- OneExtend
  MaxBoots = 1
INVARIANT RetryRulesOutTransients
