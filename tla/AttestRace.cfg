\* Two processes and two boots; one attested PCR and one that is not
SPECIFICATION Spec
CONSTANTS
  Procs = {p1, p2}
  Pcr = {0, 1}
  AttestationPcrList = {0}
  ReadLimit = 1
  MaxAttestationRetries = 1
  Platform = "TRUSTED_LAUNCH"
  MaxExtends <- OneExtend
  MaxBoots = 2
SYMMETRY Symmetry
INVARIANT TypeOK
PROPERTY CurrentDataOpens
PROPERTY Implements
