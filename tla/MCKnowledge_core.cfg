\* A document of two chunks and an empty one, two workers, two failures, replays.
SPECIFICATION FairSpec
CONSTANTS
  guide = guide  empty = empty  manuals = manuals  None = None
  Document = {guide, empty}
  Bases = {manuals}
  BaseOf <- OneBase
  TextOf <- Texts
  ChunkSize = 2
  Overlap = 1
  Workers = {w1, w2}
  ReplayIds = {r1}
  MaxAttempts = 2
  MaxStalls = 1
  MaxHalfReplays = 1
  MaxFaults = 2
  MaxLength = 8
INVARIANTS ReadyIsComplete StrandedNeedFaults PassagesStayWhole
PROPERTY DocumentsBecomeReady
CHECK_DEADLOCK FALSE
