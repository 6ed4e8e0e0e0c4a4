\* Two cards, two clients; an idle TTL of 2 ticks and cards that block after 2 wrong PINs.
CONSTANTS
  c1 = c1
  c2 = c2
  k1 = k1
  k2 = k2
  w1 = w1
  w2 = w2
  Cards = {c1, c2}
  NoCard = NoCard
  KeyIds = {k1, k2}
  KeyIdOf <- MCKeyIdOf
  Clients = {w1, w2}
  TTL = 2
  PinTries = 2
SPECIFICATION FairSpec
INVARIANTS TypeOK LoginMatchesCard
PROPERTIES DeadSessionEnds ImplementsPinSession
