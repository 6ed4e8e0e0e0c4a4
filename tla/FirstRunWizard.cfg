\* Two detections that overlap, and one test, on one card that blocks after one wrong PIN.
CONSTANTS
  c1 = c1
  k1 = k1
  d1 = d1
  d2 = d2
  t1 = t1
  NoCard = NoCard
  Cards = {c1}
  KeyIds = {k1}
  KeyIdOf <- MCKeyIdOf
  Detectors = {d1, d2}
  Tests = {t1}
  Clients = {d1, d2, t1}
  storage = TRUE
  TTL = 0
  PinTries = 1
SPECIFICATION FairWizardSpec
INVARIANTS WizardTypeOK GateIsStored
PROPERTIES WizardResponds DetectionConverges OneAttemptPerTest
