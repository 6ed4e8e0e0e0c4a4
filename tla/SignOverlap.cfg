\* Two runs over one document and one card: a second click before the first run is busy.
\* The interface only sees locked or unlocked, so one age per side of the TTL is enough.
CONSTANTS
  c1 = c1
  c2 = c2
  k1 = k1
  k2 = k2
  b1 = b1
  b2 = b2
  Pad = Pad
  Probe = Probe
  LockChip = LockChip
  Nobody = Nobody
  NoCard = NoCard
  Blank = {}
  Cards = {c1}
  KeyIds = {k1, k2}
  KeyIdOf <- MCKeyIdOf
  Flows = {b1, b2}
  Clients = {b1, b2, Pad}
  TTL = 0
  PinTries = 1
  NDocs = 1
SPECIFICATION WorkspaceSpec
INVARIANTS WorkspaceTypeOK ModalHasWaiter SigningHasRun OneSignaturePerRun
PROPERTIES PromptLostToAnother
SYMMETRY FlowSymmetry
