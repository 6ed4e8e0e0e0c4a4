\* One run over two documents, with the lock button: how a batch ends.
CONSTANTS
  c1 = c1
  c2 = c2
  k1 = k1
  k2 = k2
  b1 = b1
  b2 = b2
  Pad = Pad
  Probe = Probe
  LockChip = LockChip
  Nobody = Nobody
  NoCard = NoCard
  Blank = {}
  Cards = {c1}
  KeyIds = {k1, k2}
  KeyIdOf <- MCKeyIdOf
  Flows = {b1}
  Clients = {b1, Pad, LockChip}
  TTL = 0
  PinTries = 1
  NDocs = 2
SPECIFICATION FairWorkspaceSpec
PROPERTIES BatchEnds BatchSettles SignedStays
