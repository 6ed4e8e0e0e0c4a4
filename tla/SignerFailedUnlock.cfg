\* One client and one card suffice: unlock, then unlock again with a wrong PIN.
CONSTANTS
  c1 = c1
  c2 = c2
  k1 = k1
  k2 = k2
  w1 = w1
  w2 = w2
  Cards = {c1, c2}
  NoCard = NoCard
  KeyIds = {k1, k2}
  KeyIdOf <- MCKeyIdOf
  Clients = {w1}
  TTL = 2
  PinTries = 2
SPECIFICATION FairSpec
PROPERTY FailedUnlockStaysLocked
