\* Two runs over the same document.
CONSTANTS
  c1 = c1
  c2 = c2
  k1 = k1
  k2 = k2
  b1 = b1
  b2 = b2
  Pad = Pad
  Probe = Probe
  LockChip = LockChip
  Nobody = Nobody
  NoCard = NoCard
  Blank = {}
  Cards = {c1}
  KeyIds = {k1, k2}
  KeyIdOf <- MCKeyIdOf
  Flows = {b1, b2}
  Clients = {b1, b2, Pad}
  TTL = 0
  PinTries = 1
  NDocs = 1
SPECIFICATION WorkspaceSpec
INVARIANT SuccessMeansFinished
SYMMETRY FlowSymmetry
