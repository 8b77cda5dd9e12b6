\* Two processes; the first certificate falls due on day 1, renewed ones a day after their issue
SPECIFICATION FairSpec
CONSTANTS
  Procs = {p1, p2}
  Chunks = 2
  RenewalThreshold = 1
  FirstNotAfter = 2
  Validity = 2
  MaxDay = 2
  MaxSerial = 4
INVARIANT TypeOK
INVARIANT CertLossNeedsCause
INVARIANT CallGetsItsCert
PROPERTY DamageStays
PROPERTY CallReturns
