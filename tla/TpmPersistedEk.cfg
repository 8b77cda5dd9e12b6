CONSTANTS
  Slots = 3
  Pcrs = 2
  MaxCalls = 4
  Orders <- MCOrders
  BankSets <- MCBankSets
SPECIFICATION SpecWithReliableTpm
INVARIANT GeneratedEkIsPersisted
