\* One file of each sort, four runs on each of two mounts, and reports of up to two signatures.
CONSTANTS
  self = self
  detached = detached
  source = source
  empty = empty
  NoFile = NoFile
  Files = {self, detached, source, empty}
  Plain = {source, empty}
  Empty = {empty}
  Detached = {detached}
  MaxRuns = 4
  MaxMounts = 2
  MaxSigs = 2
  MAX = 1
SPECIFICATION Spec
CHECK_DEADLOCK FALSE
INVARIANTS PageTypeOK ResultIsOwn BusyHasRun VerdictsAgree
PROPERTIES WrongSecondIsWrong RecordIsShown KeepsPromise BusyEnds
