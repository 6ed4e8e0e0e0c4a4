\* One link and two clicks on its Sign button.
CONSTANTS
  c1 = c1
  c2 = c2
  k1 = k1
  k2 = k2
  s1 = s1
  s2 = s2
  Pad = Pad
  Probe = Probe
  LockChip = LockChip
  Nobody = Nobody
  NoCard = NoCard
  Blank = {}
  Cards = {c1}
  KeyIds = {k1, k2}
  KeyIdOf <- MCKeyIdOf
  Flows = {s1, s2}
  Clients = {s1, s2, Pad}
  TTL = 0
  PinTries = 1
  NLinks = 1
  MaxRestarts = 0
  MaxConsents <- Twice
SPECIFICATION DeepLinkSpec
INVARIANT SingleShot
