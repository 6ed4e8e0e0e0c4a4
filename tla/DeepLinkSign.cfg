\* Two links, two clicks on Sign for the first and one restart of the effect at any time: runs,
\* loads and posts that end under another run id, or under the second link, which is not signed.
CONSTANTS
  c1 = c1
  c2 = c2
  k1 = k1
  k2 = k2
  s1 = s1
  s2 = s2
  Pad = Pad
  Probe = Probe
  LockChip = LockChip
  Nobody = Nobody
  NoCard = NoCard
  Blank = {}
  Cards = {c1}
  KeyIds = {k1, k2}
  KeyIdOf <- MCKeyIdOf
  Flows = {s1, s2}
  Clients = {s1, s2, Pad}
  TTL = 0
  PinTries = 1
  NLinks = 2
  MaxRestarts = 1
  MaxConsents <- TwiceThenNone
SPECIFICATION DeepLinkSpec
INVARIANTS DeepLinkTypeOK OverlayIsOwn WaiterCanLeave OneSignaturePerConsent SpinnerHasWork
PROPERTIES SignsWhatIsShown SignedReachesUser
SYMMETRY FlowSymmetry
