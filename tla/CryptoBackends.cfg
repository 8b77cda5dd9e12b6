CONSTANTS
  TrustedRoots <- MCTrustedRoots
  Chains <- MCChains
  SystemStores <- MCSystemStores
  Tokens <- MCTokens
  SecretSizes <- MCSecretSizes
  KeySize = 4
  BlockLength = 2
  TagLength = 2
SPECIFICATION Spec
INVARIANTS
  TypeOK
  AcceptsExactlyTrusted
  UnwrapsExactlyIntact
  OnlySharedSecretTwice
  LeftoversExplained
